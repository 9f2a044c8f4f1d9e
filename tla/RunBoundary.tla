----------------------------- MODULE RunBoundary -----------------------------
(***************************************************************************)
(* The stream of regular messages (agent_runtime.rs): the reader task and  *)
(* the ceiling timer send into one bounded channel, from which the         *)
(* application receives messages or a query drains a run (agent.rs).       *)
(*                                                                         *)
(* The channel is in the order in which the senders asked for room: Tokio  *)
(* serves them in that order, so an item beyond the capacity is one whose  *)
(* sender still waits.  Control frames and mirror frames never get here.   *)
(* Time advances only while a ceiling is pending.                          *)
(***************************************************************************)
EXTENDS RunTracker, Sequences

CONSTANTS
    Buffer,        \* MESSAGE_BUFFER
    MaxFrames,     \* bound: regular frames the CLI sends
    MaxQueries,    \* bound: calls of query
    Schedulers     \* the flavours of Tokio runtime considered

ASSUME BoundaryAssumption ==
    /\ Buffer \in Nat \ {0}
    /\ MaxFrames \in Nat /\ MaxQueries \in Nat
    /\ Schedulers \subseteq {"current_thread", "multi_thread"}

VARIABLES
    scheduler,     \* the flavour of the Tokio runtime
    optedIn,       \* the caller asked for the state frames
    mirrored,      \* there is a session store, hence a batcher
    tracker,       \* RunState.tracker
    wake,          \* RunState.deadline_changed holds a permit
    clock,
    timer,         \* the ceiling timer task
    armed,         \* the deadline the timer read
    reader,        \* the reader task
    hand,          \* what a sender has yet to send, by sender
    channel,       \* items sent, then items whose sender waits for room
    consumer,      \* the application
    pendingResult, \* the result a query holds, 0 for none
    sent, queries, \* frames read and queries made, for the bounds
    results,       \* history: results the tracker has seen
    workedAt,      \* history: when the CLI last worked in a turn
    gapStart       \* history: when it last did something but go idle

cli == <<sent, results, workedAt, gapStart>>
app == <<consumer, pendingResult, queries>>
options == <<scheduler, optedIn, mirrored>>
vars == <<options, tracker, wake, clock, timer, armed, reader, hand, channel, app, cli>>

Frame ==
    [kind : {"task_started", "task_settled"}, arg : Agent]
      \union [kind : {"state"}, arg : State]
      \union [kind : {"turn", "result", "other"}, arg : {"none"}]

Sender == {"reader", "timer"}

\* A result is known by its number, a marker by the number of results the
\* tracker had seen when it ended the run.
Item == [what : {"message", "result", "marker", "error"}, n : Nat,
         from : Sender]

Init ==
    /\ scheduler \in Schedulers
    /\ optedIn \in BOOLEAN
    /\ mirrored \in BOOLEAN
    /\ \E needs \in BOOLEAN : tracker = NewTracker(needs)
    /\ wake = FALSE
    /\ clock = 0
    /\ timer = IF tracker.needsStdin /\ Ceiling > 0 THEN "reading" ELSE "dead"
    /\ armed = NoDeadline
    /\ reader = "reading" /\ hand = [s \in Sender |-> <<>>]
    /\ channel = <<>>
    /\ consumer = "idle" /\ pendingResult = 0
    /\ sent = 0 /\ queries = 0
    /\ results = 0 /\ workedAt = 0 /\ gapStart = 0

-----------------------------------------------------------------------------
(* Helpers *)

\* A sender waits for the room of an item beyond the capacity.
Blocked(s) == \E i \in (Buffer + 1)..Len(channel) : channel[i].from = s

\* On a current-thread runtime no other task comes between an update of the
\* tracker and the request for room that follows it.
OneThread == scheduler = "current_thread"

\* MUTANT: nobody tells the timer.
NotifyNobody(tr) == wake' = wake

\* RunState::update: apply a transition and wake the timer if the deadline moved.
Notify(tr) == wake' = (wake \/ tr.deadline # tracker.deadline)

\* The transition a frame makes.
Transition(fr) ==
    CASE fr.kind \in {"task_started", "task_settled", "state"}
                            -> OnSystemFrame(tracker, fr, clock)
      [] fr.kind = "turn"   -> Verdict(OnTurnActivity(tracker), FALSE)
      [] fr.kind = "result" -> OnResult(tracker, clock)
      [] fr.kind = "other"  -> Verdict(tracker, FALSE)

\* A state frame the caller did not opt in to is host-only: not surfaced.
Surfaced(fr) == fr.kind = "state" => optedIn

FrameItem(fr) ==
    IF fr.kind = "result"
      THEN [what |-> "result", n |-> results + 1, from |-> "reader"]
      ELSE [what |-> "message", n |-> 0, from |-> "reader"]
Marker(n, s) == [what |-> "marker", n |-> n, from |-> s]
Error == [what |-> "error", n |-> 0, from |-> "reader"]

\* MUTANT: the loop goes on to the next frame after a host-only one.
ItemsSkippingHostOnly(fr, ended, n) ==
    IF ~Surfaced(fr) THEN <<>>
    ELSE <<FrameItem(fr)>> \o (IF ended THEN <<Marker(n, "reader")>> ELSE <<>>)

\* MUTANT: the marker goes first.
ItemsMarkerFirst(fr, ended, n) ==
    (IF ended THEN <<Marker(n, "reader")>> ELSE <<>>)
      \o (IF Surfaced(fr) THEN <<FrameItem(fr)>> ELSE <<>>)

\* What the reader sends for a frame: the marker follows the frame.
Items(fr, ended, n) ==
    (IF Surfaced(fr) THEN <<FrameItem(fr)>> ELSE <<>>)
      \o (IF ended THEN <<Marker(n, "reader")>> ELSE <<>>)

\* Work in a turn: a turn's frame, a state of work.
Work(fr) == fr.kind = "turn" \/ (fr.kind = "state" /\ fr.arg \in {"running", "requires_action"})

\* Work, a result, and the end of the last agent in flight.
Activity(fr, tr) == Work(fr) \/ fr.kind = "result" \/ (tracker.tasks # {} /\ tr.tasks = {})

\* A sender has items to send.  With one thread it asks for the room of the
\* first before any other task runs.
Offer(s, items) ==
    IF OneThread /\ items # <<>>
      THEN /\ channel' = Append(channel, Head(items))
           /\ hand' = [hand EXCEPT ![s] = Tail(items)]
      ELSE /\ hand' = [hand EXCEPT ![s] = items]
           /\ UNCHANGED channel

\* It asks for the room of the next when it got that of the last.
SendNext(s) ==
    /\ hand[s] # <<>> /\ ~Blocked(s)
    /\ channel' = Append(channel, Head(hand[s]))
    /\ hand' = [hand EXCEPT ![s] = Tail(@)]
    /\ UNCHANGED <<options, tracker, wake, clock, timer, armed, reader, app, cli>>

AllSent(s) == hand[s] = <<>> /\ ~Blocked(s)

-----------------------------------------------------------------------------
(* The reader task *)

\* A regular frame: update the tracker, then send.  (A result's flush of the
\* mirror comes before the tracker sees it, as if the frame came later.)
ReadFrame(fr) ==
    LET v == Transition(fr)
        n == IF fr.kind = "result" THEN results + 1 ELSE results
    IN  /\ reader = "reading" /\ sent < MaxFrames
        /\ tracker' = v.tracker
        /\ Notify(v.tracker)
        /\ sent' = sent + 1
        /\ results' = n
        /\ workedAt' = IF Work(fr) THEN clock ELSE workedAt
        /\ gapStart' = IF Activity(fr, v.tracker) THEN clock ELSE gapStart
        /\ reader' = "sending"
        /\ Offer("reader", Items(fr, v.ended, n))
        /\ UNCHANGED <<options, clock, timer, armed, app>>

\* The transport fails: an error item, and the reader returns.
ReadError ==
    /\ reader = "reading"
    /\ reader' = "failing"
    /\ Offer("reader", <<Error>>)
    /\ UNCHANGED <<options, tracker, wake, clock, timer, armed, app, cli>>

ReadNext ==
    /\ reader = "sending" /\ AllSent("reader")
    /\ reader' = "reading"
    /\ UNCHANGED <<options, tracker, wake, clock, timer, armed, hand, channel, app, cli>>

ReaderReturns == reader = "reading" \/ (reader = "failing" /\ AllSent("reader"))

\* The end of the stream, or the error went out: the reader returns, and its
\* timer dies with it.  What the timer waits to send is never sent.  (A timer
\* of another thread that still sends something counts as a faster one.)
StopReader ==
    /\ ReaderReturns
    /\ reader' = "ended"
    /\ timer' = "dead"
    /\ hand' = [hand EXCEPT !["timer"] = <<>>]
    /\ channel' = IF Blocked("timer") THEN SubSeq(channel, 1, Buffer) ELSE channel
    /\ UNCHANGED <<options, tracker, wake, clock, armed, app, cli>>

-----------------------------------------------------------------------------
(* The ceiling timer task *)

\* The loop registers for a wake-up before it reads the deadline, so a change
\* that comes later finds it registered or leaves a permit.
TimerReads ==
    /\ timer = "reading" /\ AllSent("timer")
    /\ armed' = tracker.deadline
    /\ timer' = "waiting"
    /\ UNCHANGED <<options, tracker, wake, clock, reader, hand, channel, app, cli>>

TimerWoken ==
    /\ timer = "waiting" /\ wake
    /\ wake' = FALSE
    /\ timer' = "reading"
    /\ UNCHANGED <<options, tracker, clock, armed, reader, hand, channel, app, cli>>

\* The deadline the timer read has passed.  If that ends the run it sends a
\* marker; the update wakes the timer itself as well.
TimerFires ==
    LET v == OnCeiling(tracker, armed)
    IN  /\ timer = "waiting" /\ armed # NoDeadline /\ clock >= armed
        /\ tracker' = v.tracker
        /\ Notify(v.tracker)
        /\ timer' = "reading"
        /\ Offer("timer", IF v.ended THEN <<Marker(results, "timer")>> ELSE <<>>)
        /\ UNCHANGED <<options, clock, armed, reader, app, cli>>

\* Time passes: no further than the last deadline somebody looks at.
Tick ==
    /\ clock < tracker.deadline \/ (timer = "waiting" /\ clock < armed)
    /\ clock' = clock + 1
    /\ UNCHANGED <<options, tracker, wake, timer, armed, reader, hand, channel, app, cli>>

-----------------------------------------------------------------------------
(* The application *)

\* No sender is left: the reader's, its timer's, and the clone that the
\* batcher's error handler keeps for as long as there is a batcher.
Closed == reader = "ended" /\ timer = "dead" /\ ~mirrored

\* receive_message, or receive_response up to a result: take an item.
Receive ==
    /\ consumer = "idle" /\ channel # <<>>
    /\ channel' = Tail(channel)
    /\ UNCHANGED <<options, tracker, wake, clock, timer, armed, reader, hand, app, cli>>

\* query: write the prompt, then drain.
BeginQuery ==
    /\ consumer = "idle" /\ queries < MaxQueries
    /\ consumer' = "querying"
    /\ pendingResult' = 0
    /\ queries' = queries + 1
    /\ UNCHANGED <<options, tracker, wake, clock, timer, armed, reader, hand, channel, cli>>

\* The query takes an item and goes on, or returns.
Take(what) ==
    /\ consumer = "querying" /\ channel # <<>> /\ Head(channel).what = what
    /\ channel' = Tail(channel)
    /\ UNCHANGED <<options, tracker, wake, clock, timer, armed, reader, hand, queries, cli>>
GoOn == UNCHANGED <<consumer, pendingResult>>
Return == consumer' = "idle" /\ pendingResult' = 0

TakeMessage == Take("message") /\ GoOn

\* The first result ends the run of a query without control requests.
TakeResult ==
    /\ Take("result")
    /\ IF tracker.needsStdin
         THEN pendingResult' = Head(channel).n /\ UNCHANGED consumer
         ELSE Return

\* A marker ends the run of a query that has a result.
TakeMarker ==
    /\ Take("marker")
    /\ IF pendingResult # 0 THEN Return ELSE GoOn

\* The reader's error, or a frame that does not parse.
TakeError ==
    /\ Take("error") \/ Take("message") \/ Take("result")
    /\ Return

\* receive_event returns None: the query returns the result it has, or an error.
SeeEnd ==
    /\ consumer = "querying" /\ channel = <<>> /\ Closed
    /\ Return
    /\ UNCHANGED <<options, tracker, wake, clock, timer, armed, reader, hand, channel,
                   queries, cli>>

-----------------------------------------------------------------------------
(* Specification *)

Query == TakeMessage \/ TakeResult \/ TakeMarker \/ TakeError \/ SeeEnd

Timer == TimerReads \/ TimerWoken \/ TimerFires \/ SendNext("timer")

\* The stream is over; the application may stop here.
Finished == reader = "ended" /\ UNCHANGED vars

Next ==
    \/ \E fr \in Frame : ReadFrame(fr)
    \/ ReadError \/ SendNext("reader") \/ ReadNext \/ StopReader
    \/ Timer \/ Tick
    \/ Receive \/ BeginQuery \/ Query
    \/ Finished

\* Tasks that can go on do, and time passes.  A query is polled until it
\* returns; nothing makes the CLI send or end, or the application receive.
Fairness ==
    /\ WF_vars(SendNext("reader")) /\ WF_vars(ReadNext)
    /\ WF_vars(reader = "failing" /\ StopReader)
    /\ WF_vars(TimerReads) /\ WF_vars(TimerWoken) /\ WF_vars(TimerFires)
    /\ WF_vars(SendNext("timer"))
    /\ WF_vars(Tick) /\ WF_vars(Query)

Spec == Init /\ [][Next]_vars /\ Fairness

-----------------------------------------------------------------------------
(* Properties *)

TypeOK ==
    /\ scheduler \in Schedulers /\ optedIn \in BOOLEAN /\ mirrored \in BOOLEAN
    /\ tracker \in Tracker
    /\ wake \in BOOLEAN
    /\ clock \in Nat /\ armed \in Nat
    /\ timer \in {"reading", "waiting", "dead"}
    /\ reader \in {"reading", "sending", "failing", "ended"}
    /\ hand \in [Sender -> Seq(Item)]
    /\ channel \in Seq(Item) /\ Len(channel) <= Buffer + 2
    /\ consumer \in {"idle", "querying"}
    /\ pendingResult \in 0..MaxFrames
    /\ sent \in 0..MaxFrames /\ queries \in 0..MaxQueries
    /\ results \in 0..MaxFrames /\ workedAt \in Nat /\ gapStart \in Nat

\* The ceiling counts only in the gap between two turns of a run that may still
\* need stdin, and never while the host answers a request.
DeadlineOnlyInGap ==
    tracker.deadline # NoDeadline =>
        /\ tracker.needsStdin /\ tracker.result
        /\ ~tracker.turn /\ ~tracker.runEnded
        /\ tracker.state # "requires_action"

\* The tracker waits for an idle that may never come.
InGap ==
    /\ tracker.needsStdin /\ tracker.result /\ ~tracker.turn /\ ~tracker.runEnded
    /\ tracker.state = "running" /\ tracker.tasks = {}

\* Conversely the wait for idle is bounded: whatever the frames, in such a gap
\* the ceiling is armed.
GapHasDeadline == Ceiling > 0 /\ InGap => tracker.deadline # NoDeadline

\* The timer ends the run.  (A frame that ends it moves the reader too.)
TimerEndsRun == ~tracker.runEnded /\ tracker'.runEnded /\ UNCHANGED reader

\* The timer ends a run only with no agent in flight, and after the CLI did not
\* work in a turn for as long as the ceiling; if the CLI says it is running, only
\* after it had no result and no agent that settled for as long either.  A
\* ceiling that was disarmed and armed again between the expiry of a deadline
\* and the timer's update is not cut short.
CeilingCountsGap ==
    [][TimerEndsRun =>
         /\ tracker.tasks = {}
         /\ clock - workedAt >= Ceiling
         /\ tracker.state = "running" => clock - gapStart >= Ceiling]_vars

\* A query that takes a marker returns with the result it has.
TakesMarker ==
    /\ consumer = "querying" /\ pendingResult # 0
    /\ channel # <<>> /\ Head(channel).what = "marker"

\* On a current-thread runtime that is the result that ended the run: no result
\* of a later turn got in front of the marker, and no marker in front of its
\* result, though two tasks send them.
QueryReturnsRunEnding == OneThread /\ TakesMarker => pendingResult = Head(channel).n

\* While a query drains the channel, a gap ends: with a frame, or by the ceiling.
\* No change of the deadline escapes the timer.
GapEnds == (Ceiling > 0 /\ InGap) ~> (~InGap \/ consumer = "idle" \/ reader = "ended")

\* A query that has a result of a run that is over returns, unless the run
\* opens again: the marker gets to it, host-only frames or not.
QueryFinishes ==
    (OneThread /\ consumer = "querying" /\ pendingResult # 0 /\ tracker.runEnded)
      ~> (consumer = "idle" \/ ~tracker.runEnded \/ (mirrored /\ reader = "ended"))

\* Without a session store a query sees the end of the stream.
QuerySeesEnd == (consumer = "querying" /\ reader = "ended" /\ ~mirrored) ~> consumer = "idle"

\* A query comes to its end: with the run it drains, or with the stream.
QuerySettles == QueryFinishes /\ QuerySeesEnd

\* As the reader's comment has it, with or without a session store: the end of
\* the stream closes the channel.
EndReachesConsumer == (consumer = "querying" /\ reader = "ended") ~> consumer = "idle"
=============================================================================

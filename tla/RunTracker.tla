------------------------------ MODULE RunTracker ------------------------------
(***************************************************************************)
(* RunTracker of agent_runtime.rs: when is a run over?                      *)
(*                                                                         *)
(* A result ends a turn and not always the run: an agent working in the    *)
(* background may wake the session for another turn, which still needs     *)
(* stdin for its control requests.  A CLI that reports its state ends the  *)
(* run with the idle that follows a result; the wait for it is bounded by  *)
(* a ceiling that counts only the gap between turns.                       *)
(*                                                                         *)
(* The transitions are operators on the tracker, a record.  The code's     *)
(* return value, "the run just ended", is the field ended of a verdict.    *)
(***************************************************************************)
EXTENDS Naturals

CONSTANTS
    Agent,     \* the ids of delegated tasks of a deferring type
    Ceiling    \* the ceiling on the wait for idle; 0 waits for ever

ASSUME TrackerAssumption == Ceiling \in Nat

NoDeadline == 0    \* the clock starts at 0, and Ceiling > 0 when it is added

\* session_state: none while the CLI sends none.  Running stands for every
\* state but the other three.
State == {"none", "idle", "running", "requires_action"}

Tracker == [
    needsStdin : BOOLEAN,
    tasks : SUBSET Agent,       \* inflight_tasks
    state : State,              \* session_state
    result : BOOLEAN,           \* result_received
    turn : BOOLEAN,             \* turn_in_progress
    runEnded : BOOLEAN,
    deadline : Nat]

NewTracker(needs) == [
    needsStdin |-> needs, tasks |-> {}, state |-> "none", result |-> FALSE,
    turn |-> FALSE, runEnded |-> FALSE, deadline |-> NoDeadline]

Verdict(tr, e) == [tracker |-> tr, ended |-> e]

\* maybe_end_run and the end of on_ceiling: end_run unless a tracked agent is
\* in flight.
MaybeEndRun(tr) ==
    IF tr.tasks = {}
      THEN Verdict([tr EXCEPT !.deadline = NoDeadline, !.runEnded = TRUE], ~tr.runEnded)
      ELSE Verdict(tr, FALSE)

ArmCeiling(tr, now) ==
    [tr EXCEPT !.deadline =
        IF Ceiling = 0 \/ tr.runEnded \/ tr.turn \/ ~tr.needsStdin
          THEN NoDeadline ELSE now + Ceiling]

RearmBetweenTurns(tr, now) ==
    IF tr.result /\ tr.state = "running" THEN ArmCeiling(tr, now) ELSE tr

OnSessionState(tr, s, now) ==
    LET told == [tr EXCEPT !.state = s]
        open == [told EXCEPT !.runEnded = FALSE]
    IN  IF s = "idle"
          THEN IF told.result THEN MaybeEndRun(told) ELSE Verdict(told, FALSE)
          ELSE Verdict(IF s = "requires_action"
                         THEN [open EXCEPT !.deadline = NoDeadline]
                         ELSE RearmBetweenTurns(open, now),
                       FALSE)

\* MUTANT: the last agent to settle does not start the ceiling over.
OnTaskNoRearm(tr, tasks, now) == Verdict([tr EXCEPT !.tasks = tasks], FALSE)

\* track_task_lifecycle, and the gap that starts over with the last settled.
OnTask(tr, tasks, now) ==
    LET tracked == [tr EXCEPT !.tasks = tasks]
    IN  Verdict(IF tr.tasks # {} /\ tasks = {}
                  THEN RearmBetweenTurns(tracked, now) ELSE tracked,
                FALSE)

\* on_system_frame, by what the frame is.
OnSystemFrame(tr, fr, now) ==
    CASE fr.kind = "task_started" -> OnTask(tr, tr.tasks \union {fr.arg}, now)
      [] fr.kind = "task_settled" -> OnTask(tr, tr.tasks \ {fr.arg}, now)
      [] fr.kind = "state"        -> OnSessionState(tr, fr.arg, now)

OnResult(tr, now) ==
    LET fresh == [tr EXCEPT !.result = TRUE, !.turn = FALSE, !.runEnded = FALSE]
    IN  IF tr.state \in {"none", "idle"} \/ ~tr.needsStdin
          THEN MaybeEndRun(fresh)
          ELSE Verdict(IF tr.state # "requires_action"
                         THEN ArmCeiling(fresh, now) ELSE fresh,
                       FALSE)

\* MUTANT: a turn that starts leaves the ceiling armed.
OnTurnActivityKeepsDeadline(tr) == [tr EXCEPT !.turn = TRUE, !.runEnded = FALSE]

OnTurnActivity(tr) ==
    [tr EXCEPT !.turn = TRUE, !.runEnded = FALSE, !.deadline = NoDeadline]

\* MUTANT: the ceiling that fires is taken for the one that is armed.
OnCeilingStale(tr, deadline) ==
    MaybeEndRun([tr EXCEPT !.deadline = NoDeadline])

\* A ceiling that was disarmed or re-armed since the timer read it is stale.
OnCeiling(tr, deadline) ==
    IF tr.deadline # deadline
      THEN Verdict(tr, FALSE)
      ELSE MaybeEndRun([tr EXCEPT !.deadline = NoDeadline])
=============================================================================

-------------------------- MODULE MissionLifecycle --------------------------
(***************************************************************************)
(* The mission lifecycle of backend/app/models/mission.py and the pure     *)
(* part of MissionUpdateHandler.apply (backend/app/services/pipeline.py):  *)
(* which reported transitions are legal, and which projection row a legal  *)
(* (already validated) update produces.                                    *)
(*                                                                         *)
(* Source timestamps are opaque: a row only records which submission set   *)
(* created_at / started_at / completed_at.  Title, agent, PR and commit    *)
(* references are carried through by apply without being looked at and are *)
(* left out.                                                               *)
(***************************************************************************)
EXTENDS Integers

CONSTANT
    None        \* the absent value: no row, no timestamp

\* MISSION_STATES, and the position of each state in the lifecycle.
MissionStates ==
    {"Created", "Queued", "Assigned", "Running", "Review", "Completed"}

StateIndex ==
    [Created |-> 0, Queued |-> 1, Assigned |-> 2,
     Running |-> 3, Review |-> 4, Completed |-> 5]

\* Mutant of IsValidTransition: the self-loop is missing.
IsValidTransitionNoLoop(current, new, backfill) ==
    /\ new \in MissionStates
    /\ IF current = None
       THEN backfill \/ new = "Created"
       ELSE LET delta == StateIndex[new] - StateIndex[current]
            IN  IF backfill THEN delta > 0 ELSE delta = 1

\* is_valid_transition(current, new, backfill); current is None for a mission
\* the backend does not know, and new may be any string the payload carries.
IsValidTransition(current, new, backfill) ==
    /\ new \in MissionStates
    /\ IF current = None
       THEN backfill \/ new = "Created"
       ELSE LET delta == StateIndex[new] - StateIndex[current]
            IN  IF backfill THEN delta >= 0 ELSE delta \in {0, 1}

\* The state of a projection row, None when there is no row.
StateOf(row) == IF row = None THEN None ELSE row.state

\* The position in the lifecycle; an unknown mission is before Created.
Position(state) == IF state = None THEN -1 ELSE StateIndex[state]
Progress(row) == Position(StateOf(row))

\* A row has the timestamps its state calls for.
Timestamped(row) ==
    /\ StateIndex[row.state] >= StateIndex["Running"] => row.started_at # None
    /\ row.state = "Completed" => row.completed_at # None
    /\ row.completed_at # None => row.started_at # None

\* Mutant of ProjectedRecord: only an update to Running itself sets started_at.
ProjectedRecordExact(current, state, timestamp) ==
    [state        |-> state,
     created_at   |-> IF current = None THEN timestamp ELSE current.created_at,
     started_at   |-> IF state = "Running" THEN timestamp
                      ELSE IF current = None THEN None ELSE current.started_at,
     completed_at |-> IF state = "Completed" THEN timestamp
                      ELSE IF current = None THEN None ELSE current.completed_at]

\* The timestamps and the state of the MissionRecord that apply builds from
\* the row it has just read.  There is no second look at the transition.
ProjectedRecord(current, state, timestamp) ==
    LET created   == IF current = None THEN timestamp ELSE current.created_at
        started   == IF current = None THEN None ELSE current.started_at
        completed == IF current = None THEN None ELSE current.completed_at
    IN  [state        |-> state,
         created_at   |-> created,
         started_at   |-> IF started = None /\ StateIndex[state] >= StateIndex["Running"]
                          THEN timestamp ELSE started,
         completed_at |-> IF completed = None /\ state = "Completed"
                          THEN timestamp ELSE completed]
=============================================================================

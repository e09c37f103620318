-------------------------- MODULE MissionForwarding --------------------------
(***************************************************************************)
(* The agent collector's mission forwarding                                *)
(* (collectors/observatory_collectors/openclaw_agent/collector.py): the    *)
(* agent's state file, the poll that turns it into mission_update events   *)
(* with client-side dedup and the backfill rule, and their delivery.       *)
(*                                                                         *)
(* A submission is one step here: module Ingestion shows that the attempts *)
(* of one collector take effect in order and never move a mission back.    *)
(* It is accepted, refused with 409, or given up; a submission that was    *)
(* given up may have been applied all the same.                            *)
(***************************************************************************)
EXTENDS MissionLifecycle, FiniteSets

CONSTANTS
    Missions,
    MaxLosses,     \* bound: submissions given up
    MaxRestarts    \* bound: restarts of the collector process

\* An entry of the state file, and a mission_update built from it.
Entry  == [state: MissionStates, backfill: BOOLEAN]
Update == [mission: Missions, state: MissionStates, backfill: BOOLEAN]

ASSUME ForwardingAssumption ==
    /\ MaxLosses \in Nat
    /\ MaxRestarts \in Nat
    /\ None \notin MissionStates \cup Entry

VARIABLES
    file,        \* [Missions -> entry of the agent state file, or None]
    submitted,   \* AgentTelemetry._submitted_states, None when absent
    batch,       \* updates produced by the last poll and not yet submitted
    proj,        \* [Missions -> state the backend projects, or None]
    hurried,     \* history: the agent once skipped a state, or left one before
                 \* it was polled
    losses,
    restarts

vars == <<file, submitted, batch, proj, hurried, losses, restarts>>

Init ==
    /\ file = [m \in Missions |-> None]
    /\ submitted = [m \in Missions |-> None]
    /\ batch = {}
    /\ proj = [m \in Missions |-> None]
    /\ hurried = FALSE
    /\ losses = 0
    /\ restarts = 0
-----------------------------------------------------------------------------
(* The agent runtime, which maintains the file (external to the repository). *)

\* The state held so far was not polled yet, or the next one is skipped.
Hurries(m, entry) ==
    /\ file[m] # None
    /\ \/ submitted[m] # file[m].state
       \/ StateIndex[entry.state] > StateIndex[file[m].state] + 1

\* The agent moves a mission forward, or an operator sets its backfill flag.
Edit(m, entry) ==
    /\ entry # file[m]
    /\ Position(entry.state) >= Position(StateOf(file[m]))
    /\ file' = [file EXCEPT ![m] = entry]
    /\ hurried' = (hurried \/ Hurries(m, entry))
    /\ UNCHANGED <<submitted, batch, proj, losses, restarts>>
-----------------------------------------------------------------------------
(* produce_mission_updates *)

\* Mutant of Due: a mission is looked at once only.
DueOnce(m) == file[m] # None /\ submitted[m] = None

\* Dedup: a mission whose state is the one submitted last is skipped.
Due(m) == file[m] # None /\ submitted[m] # file[m].state

\* Mutant of NeedsBackfill: the first sync is not stamped.
NeedsBackfillNever(m) == file[m].backfill

\* The first sync of a mission in flight is stamped as a backfill; otherwise the
\* flag is the file's.
NeedsBackfill(m) ==
    file[m].backfill \/ (submitted[m] = None /\ file[m].state # "Created")

\* Mutant of Produced: every due mission is paired with every due state.
ProducedMixed ==
    {[mission |-> m, state |-> file[n].state, backfill |-> NeedsBackfill(m)] :
        m \in {k \in Missions : Due(k)}, n \in {k \in Missions : Due(k)}}

\* The updates a poll produces, and what it remembers as submitted.
Produced ==
    {[mission |-> m, state |-> file[m].state, backfill |-> NeedsBackfill(m)] :
        m \in {n \in Missions : Due(n)}}
Remembered == [m \in Missions |-> IF Due(m) THEN file[m].state ELSE submitted[m]]

\* Mutant of Poll: the next poll does not wait for the batch.
PollOverlapping ==
    /\ \E m \in Missions : Due(m)
    /\ batch' = batch \cup Produced
    /\ submitted' = Remembered
    /\ UNCHANGED <<file, proj, hurried, losses, restarts>>

\* One poll: the updates are produced, and remembered as submitted, before any
\* of them is sent.  The runner polls again only when all have been sent.
Poll ==
    /\ batch = {}
    /\ \E m \in Missions : Due(m)
    /\ batch' = Produced
    /\ submitted' = Remembered
    /\ UNCHANGED <<file, proj, hurried, losses, restarts>>
-----------------------------------------------------------------------------
(* submit_event, and the backend's verdict and projection *)

Accepted(u) == IsValidTransition(proj[u.mission], u.state, u.backfill)

\* The projection once the backend has handled an update: unchanged on a 409.
Applied(u) ==
    IF Accepted(u) THEN [proj EXCEPT ![u.mission] = u.state] ELSE proj

\* The backend's answer is received.  The runner ignores which it is.
Deliver(u) ==
    /\ u \in batch
    /\ batch' = batch \ {u}
    /\ proj' = Applied(u)
    /\ UNCHANGED <<file, submitted, hurried, losses, restarts>>

\* All attempts fail; the last ones may have reached the backend.
GiveUp(u) ==
    /\ losses < MaxLosses
    /\ u \in batch
    /\ batch' = batch \ {u}
    /\ proj' \in {proj, Applied(u)}
    /\ losses' = losses + 1
    /\ UNCHANGED <<file, submitted, hurried, restarts>>

\* The collector process dies, maybe with a submission under way, and starts
\* again with nothing remembered.
Restart ==
    /\ restarts < MaxRestarts
    /\ restarts' = restarts + 1
    /\ submitted' = [m \in Missions |-> None]
    /\ batch' = {}
    /\ \/ proj' = proj
       \/ \E u \in batch : proj' = Applied(u)
    /\ UNCHANGED <<file, hurried, losses>>

Next ==
    \/ \E m \in Missions, entry \in Entry : Edit(m, entry)
    \/ Poll
    \/ \E u \in batch : Deliver(u) \/ GiveUp(u)
    \/ Restart

Spec == Init /\ [][Next]_vars

\* The runner's loop keeps polling, and submit_event always returns.
FairSpec == Spec /\ WF_vars(Poll) /\ WF_vars(\E u \in batch : Deliver(u) \/ GiveUp(u))
-----------------------------------------------------------------------------
\* Type correctness of the file, the collector's memory and the projection.
TypeOK ==
    /\ file \in [Missions -> Entry \cup {None}]
    /\ submitted \in [Missions -> MissionStates \cup {None}]
    /\ batch \subseteq Update
    /\ proj \in [Missions -> MissionStates \cup {None}]
    /\ hurried \in BOOLEAN
    /\ losses \in 0..MaxLosses
    /\ restarts \in 0..MaxRestarts

\* The projection shows observed state only: it is never ahead of what the
\* agent's file says, whatever was lost, resent or resynchronised.
NeverAhead ==
    \A m \in Missions : Position(proj[m]) <= Position(StateOf(file[m]))

\* An update that enters at Created or carries backfill is never refused: a
\* collector restart re-syncs the current mission states legally, wherever the
\* previous process stopped.
ResyncAccepted ==
    \A u \in batch : u.backfill \/ u.state = "Created" => Accepted(u)

\* As long as nothing was lost and every state was polled, each forwarded update
\* is a legal transition: the dedup and the backfill rule produce no refusals.
EveryUpdateLegal == ~hurried /\ losses = 0 => \A u \in batch : Accepted(u)

\* As long as nothing was lost and every state was polled, the projection
\* catches up with the file.
Tracks ==
    \A m \in Missions, s \in MissionStates :
        StateOf(file[m]) = s
            ~> \/ Position(proj[m]) >= StateIndex[s]
               \/ hurried \/ losses > 0

\* Whatever was lost or skipped before, once nothing is lost any more a
\* restarted collector brings the projection up to the file.
RestartHeals ==
    \A m \in Missions, s \in MissionStates :
        (submitted[m] = None /\ losses = MaxLosses /\ StateOf(file[m]) = s)
            ~> Position(proj[m]) >= StateIndex[s]
=============================================================================

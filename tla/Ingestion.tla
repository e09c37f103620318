----------------------------- MODULE Ingestion -----------------------------
(***************************************************************************)
(* POST /api/v1/events end to end: the collector's retrying client         *)
(* (collectors/observatory_collectors/client.py), the ingest_event route   *)
(* (backend/app/api/v1/events.py), the per-type handlers of the pipeline   *)
(* (backend/app/services/pipeline.py) and the ClickHouse storages          *)
(* (backend/app/storage/clickhouse.py).                                    *)
(*                                                                         *)
(* Every attempt of every submission is a request of its own, a coroutine  *)
(* of the backend.  It suspends at each storage call: each storage has one *)
(* asyncio.Lock, whose waiters are served first come first served, and the *)
(* request at the head of a storage's queue is the one whose driver call   *)
(* runs in the worker thread.  A driver call succeeds, or raises           *)
(* StorageError; an insert that raised may still be executed by the        *)
(* server, then or later (it is "in doubt").                               *)
(***************************************************************************)
EXTENDS MissionLifecycle, Sequences, FiniteSets

CONSTANTS
    Collectors,       \* fleet identities with an API key
    Missions,         \* mission ids
    Registered,       \* identities present in the Fleet Registry
    Bodies,           \* the events collectors submit
    MaxSubmissions,   \* bound: submit_event calls per collector
    MaxAttempts,      \* max_retries + 1
    MaxCrashes,       \* bound: backend process restarts
    MayFail,          \* whether driver calls may raise
    LateArrival       \* whether an attempt can overtake an earlier one of its
                      \* collector on the way to the backend

Kinds == {"mission_update", "host_inventory", "heartbeat", "generic"}

\* An EventIn: the collector_id it names (None: that of nobody with a key), its
\* event_type, whether its payload passes the schema and skew checks, and the
\* fields of a MissionUpdate.
BodyType == [owner: Collectors \cup {None}, kind: Kinds, valid: BOOLEAN,
             mission: Missions, state: STRING, backfill: BOOLEAN]

ASSUME IngestionAssumption ==
    /\ Registered \subseteq Collectors
    /\ Bodies \subseteq BodyType
    /\ MaxSubmissions \in Nat \ {0}
    /\ MaxAttempts \in Nat \ {0}
    /\ MaxCrashes \in Nat
    /\ MayFail \in BOOLEAN
    /\ LateArrival \in BOOLEAN
    /\ None \notin Nat

Stores == {"events", "missions", "registry", "inventory"}

\* One HTTP attempt: attempt att of collector's sub-th submit_event call.
Requests == [collector: Collectors, sub: 1..MaxSubmissions, att: 1..MaxAttempts]

\* The source timestamp of a submission is stamped once, before its attempts.
Stamp(r) == r.sub

MissionRow == [rev: Nat, by: Requests, state: MissionStates, created_at: Nat,
               started_at: Nat \cup {None}, completed_at: Nat \cup {None}]
InventoryRow == [rev: Nat, by: Requests, reported_at: Nat]

\* No row, and no state, is neither a row nor a state.
ASSUME NoneAssumption == None \notin MissionStates \cup MissionRow \cup InventoryRow

\* Where a request is: not sent, on the wire, or suspended in (queued for, or
\* executing) one of ingest_event's storage calls, or finished.
Suspended == {"validate", "insert", "project", "upsert"}
Stages == {"unsent", "wire", "done"} \cup Suspended

\* HTTP statuses; "dropped" is an attempt the backend never answers.
Replies == {"none", "202", "403", "409", "422", "500", "503", "dropped"}

VARIABLES
    bodies,       \* [Collectors -> Seq(Bodies)], the submissions so far
    attempt,      \* [Collectors -> 0..MaxAttempts], running attempt, 0 when idle
    pc,           \* [Requests -> Stages]
    reply,        \* [Requests -> Replies]
    queue,        \* [Stores -> Seq(Requests)], holder of the lock first
    row,          \* the row a request is about to upsert
    stored,       \* requests whose event row is in the events table
    missions,     \* [Missions -> row FINAL returns, or None]
    inventories,  \* [Collectors -> row FINAL returns, or None]
    doubt,        \* inserts that raised (or were cut off) and may still land
    clock,        \* last value of _revision()
    crashes

clientVars  == <<bodies, attempt>>
tables      == <<stored, missions, inventories>>
vars == <<bodies, attempt, pc, reply, queue, row, stored, missions,
          inventories, doubt, clock, crashes>>

Body(r) == bodies[r.collector][r.sub]

\* What may be in doubt: an event insert or an upsert, each named by the
\* request that issued it (and, for an upsert, the versioned row).
EventInsert(r) == [table |-> "events", by |-> r]
RowInsert(r)   == [table |-> "rows", by |-> r, row |-> row[r]]

Init ==
    /\ bodies = [c \in Collectors |-> <<>>]
    /\ attempt = [c \in Collectors |-> 0]
    /\ pc = [r \in Requests |-> "unsent"]
    /\ reply = [r \in Requests |-> "none"]
    /\ queue = [s \in Stores |-> <<>>]
    /\ row = [r \in Requests |-> None]
    /\ stored = {}
    /\ missions = [m \in Missions |-> None]
    /\ inventories = [c \in Collectors |-> None]
    /\ doubt = {}
    /\ clock = 0
    /\ crashes = 0
-----------------------------------------------------------------------------
(* The storages. *)

\* The storage whose lock a request waits for in each stage.
StoreOf(kind, stage) ==
    IF stage = "insert" THEN "events"
    ELSE IF kind = "mission_update" THEN "missions"
    ELSE IF stage = "validate" THEN "registry"
    ELSE "inventory"

\* The request whose driver call is running.
Executing(r, stage) ==
    /\ pc[r] = stage
    /\ LET q == queue[StoreOf(Body(r).kind, stage)]
       IN  q # <<>> /\ Head(q) = r

\* Mutant of Replace: the last insert wins, whatever its revision.
ReplaceLastInsert(old, new) == new

\* The row a FINAL read returns once new is inserted next to old:
\* ReplacingMergeTree keeps the highest revision, the last insert on a tie.
Replace(old, new) ==
    IF old = None THEN new
    ELSE IF new.rev >= old.rev THEN new ELSE old

\* One row of a projection table has been inserted.
InsertRow(r, new) ==
    IF Body(r).kind = "mission_update"
    THEN /\ missions' = [missions EXCEPT ![Body(r).mission] = Replace(@, new)]
         /\ UNCHANGED inventories
    ELSE /\ inventories' = [inventories EXCEPT ![r.collector] = Replace(@, new)]
         /\ UNCHANGED missions

\* The queues once r has released the lock it holds.
Released(r) == [queue EXCEPT ![StoreOf(Body(r).kind, pc[r])] = Tail(@)]

\* The lock is released and the coroutine runs on to its next storage call:
\* it joins that storage's queue before any waiter it woke can run.
MoveTo(r, stage) ==
    /\ pc' = [pc EXCEPT ![r] = stage]
    /\ queue' = [Released(r) EXCEPT ![StoreOf(Body(r).kind, stage)] = Append(@, r)]
    /\ UNCHANGED reply

\* Mutant of Answer: a request that is answered keeps the lock.
AnswerHoldingLock(r, status) ==
    /\ pc' = [pc EXCEPT ![r] = "done"]
    /\ reply' = [reply EXCEPT ![r] = status]
    /\ row' = [row EXCEPT ![r] = None]
    /\ UNCHANGED queue

\* The lock is released and the request is answered.
Answer(r, status) ==
    /\ pc' = [pc EXCEPT ![r] = "done"]
    /\ reply' = [reply EXCEPT ![r] = status]
    /\ queue' = Released(r)
    /\ row' = [row EXCEPT ![r] = None]
-----------------------------------------------------------------------------
(* The backend: ingest_event with its handler, one action per storage call. *)

\* The checks that need no storage: identity (SD-017), then the payload schema
\* and the clock skew of the handled types.
Precheck(r) ==
    LET b == Body(r)
    IN  IF b.owner # r.collector THEN "403"
        ELSE IF b.kind # "generic" /\ ~b.valid THEN "422"
        ELSE "pass"

\* Event types without a handler go straight to insert_event.
FirstStage(kind) == IF kind = "generic" THEN "insert" ELSE "validate"

\* A request reaches the route and runs to its first storage call.
Arrive(r) ==
    /\ pc[r] = "wire"
    /\ \/ LateArrival
       \/ \A q \in Requests :
             q.collector = r.collector /\ pc[q] = "wire"
                => q.sub > r.sub \/ (q.sub = r.sub /\ q.att >= r.att)
    /\ IF Precheck(r) # "pass"
       THEN /\ pc' = [pc EXCEPT ![r] = "done"]
            /\ reply' = [reply EXCEPT ![r] = Precheck(r)]
            /\ UNCHANGED queue
       ELSE /\ pc' = [pc EXCEPT ![r] = FirstStage(Body(r).kind)]
            /\ queue' = [queue EXCEPT
                   ![StoreOf(Body(r).kind, FirstStage(Body(r).kind))] = Append(@, r)]
            /\ UNCHANGED reply
    /\ UNCHANGED <<clientVars, tables, row, doubt, clock, crashes>>

\* Mutant of Verdict: the transition is not looked at.
VerdictUnchecked(r) ==
    IF Body(r).kind = "mission_update" \/ Body(r).owner \in Registered
    THEN "pass" ELSE "403"

\* The verdict of the handler's validate on what it has read.
Verdict(r) ==
    LET b == Body(r)
    IN  IF b.kind = "mission_update"
        THEN IF IsValidTransition(StateOf(missions[b.mission]), b.state, b.backfill)
             THEN "pass" ELSE "409"
        ELSE IF b.owner \in Registered THEN "pass" ELSE "403"

\* validate: get_mission or get_asset returns; reject or go on to insert_event.
Validate(r) ==
    /\ Executing(r, "validate")
    /\ IF Verdict(r) = "pass"
       THEN MoveTo(r, "insert") /\ UNCHANGED row
       ELSE Answer(r, Verdict(r))
    /\ UNCHANGED <<clientVars, tables, doubt, clock, crashes>>

\* validate: the read raises StorageError.  ingest_event only catches
\* PipelineRejection around validate, so the server answers 500.
ValidateFails(r) ==
    /\ MayFail
    /\ Executing(r, "validate")
    /\ Answer(r, "500")
    /\ UNCHANGED <<clientVars, tables, doubt, clock, crashes>>

\* insert_event succeeds and apply starts: a mission update reads its mission
\* again, an inventory builds its row and takes its revision, the other types
\* have no projection and are accepted.
InsertEvent(r) ==
    /\ Executing(r, "insert")
    /\ stored' = stored \cup {r}
    /\ CASE Body(r).kind = "mission_update" ->
              MoveTo(r, "project") /\ UNCHANGED <<row, clock>>
         [] Body(r).kind = "host_inventory" ->
              /\ MoveTo(r, "upsert")
              /\ clock' = clock + 1
              /\ row' = [row EXCEPT ![r] =
                    [rev |-> clock + 1, by |-> r, reported_at |-> Stamp(r)]]
         [] OTHER ->
              Answer(r, "202") /\ UNCHANGED clock
    /\ UNCHANGED <<clientVars, missions, inventories, doubt, crashes>>

\* Mutant of InsertFails: the error is swallowed and apply runs all the same.
InsertFailsSilently(r) ==
    /\ MayFail
    /\ Executing(r, "insert")
    /\ Body(r).kind = "mission_update"
    /\ MoveTo(r, "project")
    /\ UNCHANGED <<clientVars, tables, row, doubt, clock, crashes>>

\* insert_event raises StorageError: 503, and the insert is in doubt.
InsertFails(r) ==
    /\ MayFail
    /\ Executing(r, "insert")
    /\ doubt' \in {doubt, doubt \cup {EventInsert(r)}}
    /\ Answer(r, "503")
    /\ UNCHANGED <<clientVars, tables, clock, crashes>>

\* The row upsert_mission inserts for what apply has just read.
MissionRowFor(r) ==
    LET rec == ProjectedRecord(missions[Body(r).mission], Body(r).state, Stamp(r))
    IN  [rev |-> clock + 1, by |-> r, state |-> rec.state,
         created_at |-> rec.created_at, started_at |-> rec.started_at,
         completed_at |-> rec.completed_at]

\* apply: get_mission returns, the record is built and the revision taken
\* before the upsert queues for the lock.
Project(r) ==
    /\ Executing(r, "project")
    /\ clock' = clock + 1
    /\ row' = [row EXCEPT ![r] = MissionRowFor(r)]
    /\ MoveTo(r, "upsert")
    /\ UNCHANGED <<clientVars, tables, doubt, crashes>>

\* apply: get_mission raises StorageError; the event is already stored.
ProjectFails(r) ==
    /\ MayFail
    /\ Executing(r, "project")
    /\ Answer(r, "503")
    /\ UNCHANGED <<clientVars, tables, doubt, clock, crashes>>

\* upsert_mission / upsert_inventory succeeds: the event is accepted.
Upsert(r) ==
    /\ Executing(r, "upsert")
    /\ InsertRow(r, row[r])
    /\ Answer(r, "202")
    /\ UNCHANGED <<clientVars, stored, doubt, clock, crashes>>

\* Mutant of UpsertFails: the error is swallowed and the event accepted.
UpsertFailsSilently(r) ==
    /\ MayFail
    /\ Executing(r, "upsert")
    /\ Answer(r, "202")
    /\ UNCHANGED <<clientVars, tables, doubt, clock, crashes>>

\* The upsert raises StorageError: 503, and the row is in doubt.
UpsertFails(r) ==
    /\ MayFail
    /\ Executing(r, "upsert")
    /\ doubt' \in {doubt, doubt \cup {RowInsert(r)}}
    /\ Answer(r, "503")
    /\ UNCHANGED <<clientVars, tables, clock, crashes>>

\* An insert in doubt is executed by the server after all.
Land(d) ==
    /\ d \in doubt
    /\ doubt' = doubt \ {d}
    /\ IF d.table = "events"
       THEN stored' = stored \cup {d.by} /\ UNCHANGED <<missions, inventories>>
       ELSE InsertRow(d.by, d.row) /\ UNCHANGED stored
    /\ UNCHANGED <<clientVars, pc, reply, queue, row, clock, crashes>>

\* The inserts whose driver call is running.
RunningInserts ==
    {EventInsert(r) : r \in {q \in Requests : pc[q] = "insert" /\ Executing(q, "insert")}}
    \cup
    {RowInsert(r) : r \in {q \in Requests : pc[q] = "upsert" /\ Executing(q, "upsert")}}

\* The backend process dies and is restarted by its supervisor: coroutines and
\* locks are gone, inserts under way are in doubt, tables are kept.
Crash ==
    /\ crashes < MaxCrashes
    /\ crashes' = crashes + 1
    /\ \E cut \in SUBSET RunningInserts : doubt' = doubt \cup cut
    /\ pc' = [r \in Requests |-> IF pc[r] \in Suspended THEN "done" ELSE pc[r]]
    /\ reply' = [r \in Requests |->
                    IF pc[r] \in Suspended THEN "dropped" ELSE reply[r]]
    /\ queue' = [s \in Stores |-> <<>>]
    /\ row' = [r \in Requests |-> None]
    /\ UNCHANGED <<clientVars, tables, clock>>
-----------------------------------------------------------------------------
(* The collector: ObservatoryClient.submit_event.  One thread per collector, *)
(* so submissions of a collector follow each other.                          *)

Current(c) == [collector |-> c, sub |-> Len(bodies[c]), att |-> attempt[c]]

\* A collector observes missions that only move forward: the next update of a
\* mission is never behind the one it submitted last.
InOrder(c, b) ==
    \A i \in 1..Len(bodies[c]) :
        /\ b.kind = "mission_update" /\ bodies[c][i].kind = "mission_update"
        /\ b.mission = bodies[c][i].mission
        /\ b.state \in MissionStates /\ bodies[c][i].state \in MissionStates
        => StateIndex[b.state] >= StateIndex[bodies[c][i].state]

\* submit_event is called: the body is fixed and the first attempt goes out.
Submit(c, b) ==
    /\ attempt[c] = 0
    /\ Len(bodies[c]) < MaxSubmissions
    /\ InOrder(c, b)
    /\ bodies' = [bodies EXCEPT ![c] = Append(@, b)]
    /\ attempt' = [attempt EXCEPT ![c] = 1]
    /\ pc' = [pc EXCEPT ![[collector |-> c, sub |-> Len(bodies[c]) + 1, att |-> 1]] = "wire"]
    /\ UNCHANGED <<reply, queue, row, tables, doubt, clock, crashes>>

\* Mutant of RetryOrGiveUp: one attempt too many.
RetryOnceMore(c) ==
    IF attempt[c] <= MaxAttempts
    THEN /\ attempt' = [attempt EXCEPT ![c] = @ + 1]
         /\ pc' = [r \in Requests |->
                      IF r = [Current(c) EXCEPT !.att = @ + 1] THEN "wire" ELSE pc[r]]
    ELSE attempt' = [attempt EXCEPT ![c] = 0] /\ UNCHANGED pc

\* Mutant of RetryOrGiveUp: the last attempt is repeated for ever.
RetryForever(c) ==
    IF attempt[c] < MaxAttempts
    THEN /\ attempt' = [attempt EXCEPT ![c] = @ + 1]
         /\ pc' = [pc EXCEPT ![[Current(c) EXCEPT !.att = @ + 1]] = "wire"]
    ELSE UNCHANGED <<attempt, pc>>

\* Back off and send the same body again, or give up after the last attempt.
RetryOrGiveUp(c) ==
    IF attempt[c] < MaxAttempts
    THEN /\ attempt' = [attempt EXCEPT ![c] = @ + 1]
         /\ pc' = [pc EXCEPT ![[Current(c) EXCEPT !.att = @ + 1]] = "wire"]
    ELSE attempt' = [attempt EXCEPT ![c] = 0] /\ UNCHANGED pc

\* The answer arrives: only 5xx is retried.
GetAnswer(c) ==
    /\ attempt[c] # 0
    /\ LET status == reply[Current(c)]
       IN  /\ status \notin {"none", "dropped"}
           /\ IF status \in {"500", "503"}
              THEN RetryOrGiveUp(c)
              ELSE attempt' = [attempt EXCEPT ![c] = 0] /\ UNCHANGED pc
    /\ UNCHANGED <<bodies, reply, queue, row, tables, doubt, clock, crashes>>

\* The attempt times out or its connection breaks, at any point: before the
\* backend sees it, while it is served (the backend carries on), or after the
\* answer was sent.
TimeOut(c) ==
    /\ attempt[c] # 0
    /\ RetryOrGiveUp(c)
    /\ UNCHANGED <<bodies, reply, queue, row, tables, doubt, clock, crashes>>

\* The collector's process ends in the middle of a submission: it is stopped, or
\* an answer is cut short and http.client raises what submit_event does not
\* catch.  The supervisor starts it again and it submits anew.
Abort(c) ==
    /\ attempt[c] # 0
    /\ attempt' = [attempt EXCEPT ![c] = 0]
    /\ UNCHANGED <<bodies, pc, reply, queue, row, tables, doubt, clock, crashes>>

\* An attempt its client has given up on never reaches the backend.
Lose(r) ==
    /\ pc[r] = "wire"
    /\ r # Current(r.collector)
    /\ pc' = [pc EXCEPT ![r] = "done"]
    /\ reply' = [reply EXCEPT ![r] = "dropped"]
    /\ UNCHANGED <<clientVars, queue, row, tables, doubt, clock, crashes>>
-----------------------------------------------------------------------------
\* One storage call of a request returns or raises.
Serve(r) ==
    \/ Validate(r) \/ ValidateFails(r)
    \/ InsertEvent(r) \/ InsertFails(r)
    \/ Project(r) \/ ProjectFails(r)
    \/ Upsert(r) \/ UpsertFails(r)

Next ==
    \/ \E r \in Requests : Arrive(r) \/ Serve(r) \/ Lose(r)
    \/ \E c \in Collectors : GetAnswer(c) \/ TimeOut(c) \/ Abort(c)
    \/ \E c \in Collectors, b \in Bodies : Submit(c, b)
    \/ \E d \in doubt : Land(d)
    \/ Crash

Spec == Init /\ [][Next]_vars

\* Every driver call ends (the driver has its own timeouts) and a client waits
\* request_timeout at most.  Nothing obliges an attempt to arrive.
Fairness ==
    /\ \A r \in Requests : WF_vars(Serve(r))
    /\ \A c \in Collectors : WF_vars(TimeOut(c))

FairSpec == Spec /\ Fairness
-----------------------------------------------------------------------------
DoubtType == [table: {"events"}, by: Requests]
             \cup [table: {"rows"}, by: Requests, row: MissionRow \cup InventoryRow]

\* Type correctness of the client, the coroutines, the locks and the tables.
TypeOK ==
    /\ bodies \in [Collectors -> Seq(Bodies)]
    /\ \A c \in Collectors : Len(bodies[c]) <= MaxSubmissions
    /\ attempt \in [Collectors -> 0..MaxAttempts]
    /\ pc \in [Requests -> Stages]
    /\ reply \in [Requests -> Replies]
    /\ queue \in [Stores -> Seq(Requests)]
    /\ row \in [Requests -> MissionRow \cup InventoryRow \cup {None}]
    /\ stored \subseteq Requests
    /\ missions \in [Missions -> MissionRow \cup {None}]
    /\ inventories \in [Collectors -> InventoryRow \cup {None}]
    /\ doubt \subseteq DoubtType
    /\ clock \in Nat
    /\ crashes \in 0..MaxCrashes

\* The projections are fed by the event stream alone: behind every row of the
\* missions and host_inventory tables there is a stored event, whatever fails
\* and wherever the process dies (insert_event comes first, apply second).
ProjectionBacked ==
    /\ \A m \in Missions : missions[m] # None => missions[m].by \in stored
    /\ \A c \in Collectors : inventories[c] # None => inventories[c].by \in stored

\* A row of the missions table has the timestamps its state calls for, also
\* when a backfill enters late or updates race: from Running on started_at is
\* set, in Completed completed_at is set, and nothing is completed unstarted
\* (duration_seconds subtracts the two).
LifecycleTimestamps ==
    \A m \in Missions : missions[m] # None => Timestamped(missions[m])

\* "Regression is rejected": the state shown for a mission never moves back,
\* in spite of retries, answers lost on the way and inserts that land late.
MissionNeverRegresses ==
    [][\A m \in Missions : Progress(missions'[m]) >= Progress(missions[m])]_vars

\* The latest-state store of a host never goes back to an older report.
InventoryNeverGoesBack ==
    [][\A c \in Collectors : inventories[c] # None =>
          /\ inventories'[c] # None
          /\ inventories'[c].reported_at >= inventories[c].reported_at]_vars

\* Illegal mission transitions never enter the event stream: when insert_event
\* succeeds, the transition is legal for the state the mission has then, and
\* not only for the state it had when validate looked.
StoredTransitionsLegal ==
    [][\A r \in Requests :
          /\ pc[r] = "insert" /\ r \in stored' \ stored
          /\ Body(r).kind = "mission_update"
          => IsValidTransition(StateOf(missions[Body(r).mission]),
                               Body(r).state, Body(r).backfill)]_vars

\* An accepted update is never lost: once ingest_event answered 202 the
\* projection shows the reported state, or a later one, for good.
AcceptedSticks ==
    \A r \in Requests : reply[r] = "202" =>
        /\ Body(r).kind = "mission_update" =>
              Progress(missions[Body(r).mission]) >= StateIndex[Body(r).state]
        /\ Body(r).kind = "host_inventory" =>
              /\ inventories[r.collector] # None
              /\ inventories[r.collector].reported_at >= Stamp(r)

\* A retry is never punished: when an attempt of a submission got past
\* validate, no later attempt of that submission is refused with 409, however
\* far the earlier one came (handlers are idempotent under retry).
RetryNeverConflicts ==
    \A q, r \in Requests :
        /\ q.collector = r.collector /\ q.sub = r.sub /\ q.att < r.att
        /\ pc[q] \in {"insert", "project", "upsert"} \/ reply[q] \in {"202", "503"}
        => reply[r] # "409"

\* Locks are always handed on: a request the backend is serving is answered
\* (or dies with the process), whatever other requests do or fail to do.
EveryRequestAnswered ==
    \A r \in Requests : pc[r] \in Suspended ~> pc[r] = "done"

\* submit_event always returns, so a collector is never stuck on one event.
EverySubmissionEnds ==
    \A c \in Collectors : attempt[c] # 0 ~> attempt[c] = 0
=============================================================================

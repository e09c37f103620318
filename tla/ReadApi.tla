------------------------------- MODULE ReadApi -------------------------------
(***************************************************************************)
(* A request to the backend on its way through the size limit              *)
(* (backend/app/middleware.py), the key check (auth.py) and a read route   *)
(* (api/v1/fleet.py, missions.py, events.py, api/monitor.py, health.py).   *)
(* A route awaits one storage read after the other; telemetry is ingested, *)
(* time passes and the database goes away between any two of them.  What   *)
(* the route makes of the results is in FleetView, the keys in Access; the *)
(* handler of POST /api/v1/events is module Ingestion.                     *)
(***************************************************************************)
EXTENDS FleetView

CONSTANTS
    Blank, Placeholder,
    Registry,       \* the assets in list order: <<[id, type, host], ...>>
    Backend,        \* settings.fleet_id
    Reports,        \* what may be ingested: [collector, type, payload]; the source
                    \* timestamp of a heartbeat is the collector's, of any time
    MissionLists,   \* what list_missions may return: sequences of [id, state]
    Requests,       \* [route, of, key, declared, chunks, json], json FALSE for a
                    \* body that is not well-formed JSON
    Configs,        \* configurations the operator may write
    MaxBytes,       \* settings.max_request_bytes
    RecentLimit,    \* RECENT_EVENTS_LIMIT
    MaxTime, MaxEvents, MaxOutages,   \* bounds
    MaxMeanwhile    \* bound: what else may happen while a request is served

Keys == INSTANCE Access

\* The bytes of a body that comes in these chunks.
Size(chunks) ==
    LET upTo[i \in 0..Len(chunks)] == IF i = 0 THEN 0 ELSE upTo[i - 1] + chunks[i]
    IN  upTo[Len(chunks)]

ASSUME ReadAssumption ==
    /\ MaxTime \in Nat /\ MaxEvents \in Nat /\ MaxOutages \in Nat /\ MaxMeanwhile \in Nat
    /\ MaxBytes \in Nat /\ RecentLimit \in Nat /\ None \notin Nat
    /\ Len(Registry) \in Nat /\ DOMAIN Registry = 1..Len(Registry)
    /\ \A i \in DOMAIN Registry : Registry[i].id # None
    /\ \A r \in Reports, t \in 0..MaxTime : None # [timestamp |-> t, failures |-> r.payload]
    /\ \A c \in Configs :
          /\ Len(c.keys) \in Nat /\ DOMAIN c.keys = 1..Len(c.keys)
          /\ \A i \in DOMAIN c.keys : c.keys[i].key # None

\* A body is as long as its Content-Length says, as far as the limit goes: the
\* HTTP server drops a connection whose body is not.
ASSUME Framing ==
    \A r \in Requests :
        /\ r.chunks \in Seq(Nat)
        /\ r.declared # None /\ r.declared > MaxBytes => Size(r.chunks) > MaxBytes

Ids == {Registry[i].id : i \in DOMAIN Registry}
Reporters == {r.collector : r \in Reports}
Public == {"monitor", "health", "metrics"}
NotableTypes == {"service_start", "asset_offline", "asset_online", "mission_update"}

VARIABLES
    now, up,
    stream,       \* the events in the order of received_at
    inventories,  \* the inventory projection: [Reporters -> place in stream, or 0]
    applying,     \* stored inventory reports whose upsert has not happened
    kept,         \* the inventory of the asset asked for when the request arrived
    missions,     \* the mission projection in list order
    config, phase,
    request, todo,
    at,           \* when the read at the head of todo was begun
    page,         \* results so far: [read -> result]
    before,       \* length of the stream when the request arrived
    handed,       \* bytes of the body the middleware passed on
    status,       \* status of the answer, or None
    outages, meanwhile

projection == <<inventories, applying, kept>>
vars == <<now, up, stream, projection, missions, config, phase, request, todo, at, page, before,
          handed, status, outages, meanwhile>>

Init ==
    /\ now = 0 /\ up = TRUE /\ outages = 0 /\ meanwhile = 0
    /\ stream = <<>>
    /\ inventories = [c \in Reporters |-> 0] /\ applying = {} /\ kept = 0
    /\ missions \in MissionLists
    /\ config \in Configs
    /\ phase = IF Keys!Serves(config) THEN "idle" ELSE "exited"
    /\ request = None /\ todo = <<>> /\ at = 0 /\ page = <<>> /\ before = 0
    /\ handed = 0 /\ status = None
-----------------------------------------------------------------------------
(* The rest of the system, followed until the request is answered.  The        *)
(* projection of a mission is read once per request, so it may as well stay.   *)

Open ==
    /\ phase \notin {"exited", "answered"}
    /\ IF phase = "idle" THEN UNCHANGED meanwhile
       ELSE meanwhile < MaxMeanwhile /\ meanwhile' = meanwhile + 1

\* insert_event.  A heartbeat carries the time its collector produced it, which may
\* be long ago or, with a fast clock, still to come.
Ingest ==
    /\ Open /\ up /\ Len(stream) < MaxEvents
    /\ \E r \in Reports, t \in 0..MaxTime :
          /\ r.type = "heartbeat" \/ t = now
          /\ stream' = Append(stream,
                 [collector |-> r.collector, type |-> r.type, timestamp |-> t,
                  payload |-> r.payload])
          /\ applying' = IF r.type = "host_inventory" THEN applying \cup {Len(stream) + 1}
                         ELSE applying
    /\ UNCHANGED <<now, up, inventories, kept, missions, config, phase, request, todo, at,
                   page, before, handed, status, outages>>

\* pipeline.apply upserts the inventory after its event was stored.  The upsert may
\* fail, or the backend die before it: then this step does not happen.
ProjectInventory ==
    /\ Open /\ up
    /\ \E i \in applying :
          /\ inventories' = [inventories EXCEPT ![stream[i].collector] = i]
          /\ applying' = applying \ {i}
    /\ UNCHANGED <<now, up, stream, kept, missions, config, phase, request, todo, at, page,
                   before, handed, status, outages>>

Tick ==
    /\ Open /\ now < MaxTime /\ now' = now + 1
    /\ UNCHANGED <<up, stream, projection, missions, config, phase, request, todo, at, page, before,
                   handed, status, outages>>

Outage ==
    /\ Open /\ up /\ outages < MaxOutages
    /\ up' = FALSE /\ outages' = outages + 1
    /\ UNCHANGED <<now, stream, projection, missions, config, phase, request, todo, at, page, before,
                   handed, status>>

Recovery ==
    /\ Open /\ ~ up /\ up' = TRUE
    /\ UNCHANGED <<now, stream, projection, missions, config, phase, request, todo, at, page, before,
                   handed, status, outages>>
-----------------------------------------------------------------------------
(* The reads of a route.  A read is [for, type, of]: the part of the answer it *)
(* is for, what is read, and of whom.                                          *)

Read(part, type, of) == [part |-> part, type |-> type, of |-> of]

\* _build_view: newest heartbeat, then newest system_metrics.
ViewReads(id) == <<Read("view", "heartbeat", id), Read("view", "system_metrics", id)>>

\* get_view and list_views.
AssetReads(id) == <<Read("registry", "asset", id)>> \o ViewReads(id)
FleetReads ==
    <<Read("registry", "assets", None)>>
        \o [i \in 1..(2 * Len(Registry)) |-> ViewReads(Registry[(i + 1) \div 2].id)[IF i % 2 = 1 THEN 1 ELSE 2]]

First(type) ==
    LET some == SelectSeq(Registry, LAMBDA a : a.type = type)
    IN  IF some = <<>> THEN None ELSE some[1].id

\* The host the page is about: that of the backend, else the first node.
Host ==
    LET self == SelectSeq(Registry, LAMBDA a : a.id = Backend)
    IN  IF self # <<>> /\ self[1].host # None THEN self[1].host ELSE First("node")
Agent == First("agent")

HostReads ==
    IF Host = None THEN <<>>
    ELSE <<Read("host", "system_metrics", Host), Read("host", "docker_status", Host),
           Read("host", "host_inventory", Host)>>

\* Mutant of MonitorReads: the host section is read first.
MonitorReadsHostFirst ==
    HostReads \o FleetReads
        \o <<Read("page", "missions", None), Read("page", "ping", None),
             Read("page", "recent", None)>>
        \o IF Agent = None THEN <<>> ELSE <<Read("agent", "agent_status", Agent)>>

\* Mutant of MonitorReads: the list of recent events is read first.
MonitorReadsRecentFirst ==
    <<Read("page", "recent", None)>> \o FleetReads
        \o <<Read("page", "missions", None), Read("page", "ping", None)>>
        \o HostReads
        \o IF Agent = None THEN <<>> ELSE <<Read("agent", "agent_status", Agent)>>

\* build_snapshot
MonitorReads ==
    FleetReads
        \o <<Read("page", "missions", None), Read("page", "ping", None)>>
        \o HostReads
        \o <<Read("page", "recent", None)>>
        \o IF Agent = None THEN <<>> ELSE <<Read("agent", "agent_status", Agent)>>

Reads(r) ==
    CASE r.route = "fleet"     -> FleetReads
      [] r.route = "asset"     -> AssetReads(r.of)
      [] r.route = "inventory" -> AssetReads(r.of) \o <<Read("page", "host_inventory", r.of)>>
      [] r.route = "docker"    -> AssetReads(r.of) \o <<Read("page", "docker_status", r.of)>>
      [] r.route = "missions"  -> <<Read("page", "missions", None)>>
      [] r.route = "mission"   -> <<Read("page", "mission", r.of)>>
      [] r.route = "events"    -> <<Read("page", "events", r.of)>>
      [] r.route = "monitor"   -> MonitorReads
      [] r.route = "health"    -> <<Read("page", "ping", None)>>
      [] OTHER                 -> <<>>

\* latest_event among the first n events: its place, 0 if there is none.
LatestOf(n, id, type) ==
    LET same == {i \in 1..n : stream[i].collector = id /\ stream[i].type = type}
    IN  IF same = {} THEN 0 ELSE CHOOSE i \in same : \A j \in same : j <= i

\* get_inventory: the row of the projection, not the event stream.
InventoryOf(id) == IF id \in Reporters THEN inventories[id] ELSE 0

\* The newest of these events, newest first, up to the limit.
Newest(places, limit) ==
    [k \in 1..(IF Cardinality(places) > limit THEN limit ELSE Cardinality(places)) |->
        CHOOSE i \in places : Cardinality({j \in places : j > i}) = k - 1]

NotablePlaces == {i \in DOMAIN stream : stream[i].type \in NotableTypes}

\* Mutant of Recent: filtered after the limit.
RecentFilteredLast ==
    SelectSeq(Newest(DOMAIN stream, RecentLimit), LAMBDA i : i \in NotablePlaces)

\* Recent Events: heartbeats do not take up the places.
Recent == Newest(NotablePlaces, RecentLimit)

Value(read) ==
    CASE read.type = "assets"   -> Ids
      [] read.type = "asset"    -> read.of \in Ids
      [] read.type = "missions" -> missions
      [] read.type = "mission"  -> Cardinality({i \in DOMAIN missions : missions[i].id = read.of})
      [] read.type = "ping"     -> up
      [] read.type = "recent"   -> Recent
      [] read.type = "events"   ->
            Newest({i \in DOMAIN stream : read.of \in {None, stream[i].collector}}, RecentLimit)
      [] read.type = "host_inventory" -> InventoryOf(read.of)
      [] OTHER                  -> LatestOf(Len(stream), read.of, read.type)
-----------------------------------------------------------------------------
(* The request *)

\* The route is over with its answer.
Reply(code) == status' = code /\ phase' = "answered" /\ todo' = <<>>

\* RequestSizeLimitMiddleware with a Content-Length: None if there is none, -1 if
\* it is not a number.  Only POST reads its body.
Arrive(r) ==
    /\ phase = "idle"
    /\ request' = r /\ before' = Len(stream) /\ kept' = InventoryOf(r.of)
    /\ IF r.declared # None /\ (r.declared > MaxBytes \/ r.declared < 0)
       THEN Reply(413)
       ELSE /\ phase' = IF r.route = "ingest" THEN "body" ELSE "auth"
            /\ UNCHANGED <<status, todo>>
    /\ UNCHANGED <<now, up, stream, inventories, applying, missions, config, at, page, handed,
                   outages, meanwhile>>

\* Mutant of Received: each chunk on its own.
ReceivedLast(chunks, n) == chunks[n]

\* The bytes counted when chunk n has come in.
Received(chunks, n) ==
    LET upTo[i \in 0..n] == IF i = 0 THEN 0 ELSE upTo[i - 1] + chunks[i]
    IN  upTo[n]

\* The framework reads and parses the body before it resolves the dependencies.
\* Over the limit, receive raises; the middleware answers 413 unless the framework
\* turned the exception into an answer of its own (400).  Malformed JSON is answered
\* at once, before the key is looked at.
ReceiveBody ==
    /\ phase = "body"
    /\ IF \E n \in DOMAIN request.chunks : Received(request.chunks, n) > MaxBytes
       THEN (\E code \in {413, 400} : Reply(code)) /\ UNCHANGED handed
       ELSE /\ handed' = Size(request.chunks)
            /\ IF request.json THEN phase' = "auth" /\ UNCHANGED <<status, todo>>
               ELSE Reply(422)
    /\ UNCHANGED <<now, up, stream, projection, missions, config, request, at, page, before,
                   outages, meanwhile>>

\* require_collector, on every route but the public ones.
Authorize ==
    /\ phase = "auth"
    /\ IF request.route \notin Public /\ Keys!Authenticate(config, request.key) = None
       THEN Reply(401)
       ELSE phase' = "reads" /\ todo' = Reads(request) /\ UNCHANGED status
    /\ at' = now
    /\ UNCHANGED <<now, up, stream, projection, missions, config, request, page, before, handed, outages, meanwhile>>

\* What a read found, and with a heartbeat the time the view was begun and the time
\* the answer came.
Result(read, value) ==
    IF read.type = "heartbeat" /\ value # 0 THEN [value |-> value, begun |-> at, done |-> now]
    ELSE [value |-> value]

With(read, value) ==
    [r \in DOMAIN page \cup {read} |-> IF r = read THEN Result(read, value) ELSE page[r]]

\* A read returns: what it found belongs to the moment it is answered.  An unknown
\* asset ends the route.
ReadNext ==
    /\ phase = "reads" /\ todo # <<>>
    /\ LET read == Head(todo)
       IN  /\ up \/ read.type = "ping"
           /\ page' = With(read, Value(read))
           /\ IF read.type = "asset" /\ read.of \notin Ids
              THEN Reply(404) ELSE todo' = Tail(todo) /\ UNCHANGED <<phase, status>>
    /\ at' = now
    /\ UNCHANGED <<now, up, stream, projection, missions, config, request, before, handed, outages, meanwhile>>

\* Mutant of ReadFails: a failing read is taken for an empty result.
ReadFailsSoft ==
    /\ phase = "reads" /\ todo # <<>> /\ ~ up /\ Head(todo).type # "ping"
    /\ page' = With(Head(todo), IF Head(todo).type \in {"recent", "missions"} THEN <<>> ELSE 0)
    /\ todo' = Tail(todo) /\ at' = now
    /\ UNCHANGED <<now, up, stream, projection, missions, config, phase, request, before, handed,
                   status, outages, meanwhile>>

\* Mutant of ReadFails: the read waits until the database is back.
ReadFailsWaiting == up /\ ~ up /\ UNCHANGED vars

\* StorageError: the event list answers 503, the other routes do not catch it.
ReadFails ==
    /\ phase = "reads" /\ todo # <<>>
    /\ ~ up /\ Head(todo).type # "ping"
    /\ Reply(IF request.route = "events" THEN 503 ELSE 500)
    /\ UNCHANGED <<now, up, stream, projection, missions, config, request, at, page, before, handed,
                   outages, meanwhile>>

Nothing(read) == read \in DOMAIN page /\ page[read].value = 0

Finish ==
    /\ phase = "reads" /\ todo = <<>>
    /\ Reply(IF \/ Nothing(Read("page", "docker_status", request.of))
                \/ Nothing(Read("page", "host_inventory", request.of))
                \/ Nothing(Read("page", "mission", request.of))
             THEN 404 ELSE 200)
    /\ UNCHANGED <<now, up, stream, projection, missions, config, request, at, page, before, handed,
                   outages, meanwhile>>

Serve == ReceiveBody \/ Authorize \/ ReadNext \/ ReadFails \/ Finish

Next ==
    \/ Ingest \/ ProjectInventory \/ Tick \/ Outage \/ Recovery
    \/ \E r \in Requests : Arrive(r)
    \/ Serve

Spec == Init /\ [][Next]_vars

\* Storage calls return or raise, and the event loop runs the coroutine again.
FairSpec == Spec /\ WF_vars(Serve)
-----------------------------------------------------------------------------
(* What the answer shows *)

Heartbeat(i) ==
    IF i = 0 THEN None
    ELSE [timestamp |-> stream[i].timestamp, failures |-> stream[i].payload]
Payload(i) == IF i = 0 THEN None ELSE stream[i].payload

Answered == phase = "answered"
Viewed == IF Answered /\ status = 200 /\ request.route \in {"fleet", "asset", "monitor"}
          THEN {id \in Ids : Read("view", "system_metrics", id) \in DOMAIN page} ELSE {}

\* Mutant of ViewTime: the clock is read after the heartbeat has been.
ViewTimeAfter(id) == page[Read("view", "heartbeat", id)].done

\* _build_view reads the clock before it awaits the heartbeat.
ViewTime(id) == page[Read("view", "heartbeat", id)].begun

\* The event at this place is a heartbeat of the asset.
BeatOf(i, id) == stream[i].collector = id /\ stream[i].type = "heartbeat"

ViewHeartbeat(id) == Heartbeat(page[Read("view", "heartbeat", id)].value)
ViewMetrics(id) == Payload(page[Read("view", "system_metrics", id)].value)
ViewConnectivity(id) == Connectivity(ViewHeartbeat(id), ViewTime(id))
ViewHealth(id) == Health(ViewHeartbeat(id), ViewMetrics(id), ViewTime(id))
-----------------------------------------------------------------------------
\* Types, and the answer and the reads that are left in step with the phase.
TypeOK ==
    /\ now \in 0..MaxTime /\ up \in BOOLEAN /\ outages \in 0..MaxOutages
    /\ phase \in {"exited", "idle", "body", "auth", "reads", "answered"}
    /\ (phase = "answered") <=> (status # None)
    /\ todo # <<>> => phase = "reads"
    /\ status \in {None, 200, 400, 401, 404, 413, 422, 500, 503}
    /\ applying \subseteq DOMAIN stream /\ inventories \in [Reporters -> 0..Len(stream)]
    /\ at \in 0..now /\ before \in 0..Len(stream)
    /\ \A read \in DOMAIN page :
          /\ read.type = "heartbeat" /\ page[read].value # 0 =>
                0 <= page[read].begun /\ page[read].begun <= page[read].done
          /\ read.type = "ping" => page[read].value \in BOOLEAN

\* An asset is shown offline only if every heartbeat that was stored when the
\* request arrived was too old when the view was begun, or the one shown was
\* received after it but sent before it: however long the storage takes, an asset
\* whose heartbeats come in order and in time does not look lost.
OfflineIsSilent ==
    \A id \in Viewed : ViewConnectivity(id) = "offline" =>
        LET shown == page[Read("view", "heartbeat", id)] IN
        \A i \in 1..before : BeatOf(i, id) =>
            \/ shown.begun - stream[i].timestamp > OfflineTimeout
            \/ shown.value > i /\ stream[shown.value].timestamp < stream[i].timestamp

\* An outage is never presented as the absence of telemetry: "unknown", and 404 for
\* a registered asset, are answered only if nothing was stored when the request
\* arrived - of an inventory, nothing in its projection: one whose event was stored
\* and whose upsert failed is not reported yet.
AbsenceIsReal ==
    /\ \A id \in Viewed : ViewConnectivity(id) = "unknown"
                              => LatestOf(before, id, "heartbeat") = 0
    /\ Answered /\ status = 404 /\ request.route # "mission" /\ request.of \in Ids
           => \/ request.route = "docker" /\ LatestOf(before, request.of, "docker_status") = 0
              \/ request.route = "inventory" /\ kept = 0

\* The page is not read at one moment, but it does not contradict itself backwards:
\* the host section shows no older metrics than the health badge was computed from.
HostSectionNotOlder ==
    Answered /\ status = 200 /\ request.route = "monitor" /\ Host \in Viewed =>
        page[Read("host", "system_metrics", Host)].value
            >= page[Read("view", "system_metrics", Host)].value

\* Missing signals are ignored rather than penalised: leaving any of the signals
\* out, or all of them, never makes the health of a viewed asset worse.
MissingIsNotPenalised ==
    \A id \in Viewed : LET m == ViewMetrics(id) IN
        m # None =>
            \A some \in SUBSET DOMAIN m :
                Severity(Health(ViewHeartbeat(id), [s \in some |-> m[s]], ViewTime(id)))
                    <= Severity(ViewHealth(id))

\* Recent Events holds the newest notable events: no number of heartbeats pushes
\* one out that fits.
RecentKeepsNotable ==
    Answered /\ Read("page", "recent", None) \in DOMAIN page =>
        LET shown   == page[Read("page", "recent", None)].value
            notable == {i \in 1..before : stream[i].type \in NotableTypes}
        IN  \A i \in notable :
                \/ i \in {shown[k] : k \in DOMAIN shown}
                \/ Len(shown) = RecentLimit /\ \A k \in DOMAIN shown : shown[k] > i

\* Nor is the list older than the sections above it: what happened before the newest
\* report a badge or the host section shows is in the list, or newer notable events
\* fill it.
RecentNotOlder ==
    Answered /\ Read("page", "recent", None) \in DOMAIN page =>
        LET shown == page[Read("page", "recent", None)].value
            above == {r \in DOMAIN page : r.part \in {"view", "host"}}
        IN  \A i \in NotablePlaces :
                (\E r \in above : i < page[r].value) =>
                    \/ i \in {shown[k] : k \in DOMAIN shown}
                    \/ Len(shown) = RecentLimit /\ \A k \in DOMAIN shown : shown[k] > i

\* No body over the limit reaches a handler, in however many chunks it comes, and
\* none within it is refused for its size.
BodyWithinLimit ==
    /\ handed <= MaxBytes
    /\ status = 413 => Size(request.chunks) > MaxBytes \/ request.declared < 0

\* A server that runs binds every key it knows to one identity, and a protected
\* route asked without such a key reads nothing: it is answered 401, or before the key
\* check 413, 400 or 422.
KeysNameOneIdentity ==
    phase # "exited" =>
        /\ config.keys # <<>>
        /\ \A i \in DOMAIN config.keys :
               Keys!Authenticate(config, config.keys[i].key) = config.keys[i].collector
        /\ Answered /\ request.route \notin Public
               => \/ \E i \in DOMAIN config.keys : config.keys[i].key = request.key
                  \/ status \in {400, 401, 413, 422} /\ page = <<>>

\* Every request is answered, also while the database is down.
EveryReadAnswered == (request # None) ~> Answered

\* The counts of the docker section are those the collector reported.
DockerCountsShown ==
    Answered /\ status = 200 /\ request.route = "monitor" =>
        LET docker == Payload(page[Read("host", "docker_status", Host)].value)
        IN  docker # None /\ docker.daemon_running
                => DockerHeader(docker).running = docker.containers_running
=============================================================================

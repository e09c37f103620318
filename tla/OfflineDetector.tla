--------------------------- MODULE OfflineDetector ---------------------------
(***************************************************************************)
(* Connectivity (backend/app/services/offline.py): heartbeats of the fleet *)
(* assets enter the event stream, the backend beats for itself, and the    *)
(* sweep of OfflineDetector judges each asset's newest heartbeat and       *)
(* records the transitions it sees as asset_offline / asset_online events. *)
(*                                                                         *)
(* Every storage call of a sweep is an await: time passes, heartbeats are  *)
(* stored and calls fail between any two of them.  Time is in ticks; a     *)
(* heartbeat is judged by its source timestamp, and the newest heartbeat   *)
(* is the one received last (query_events orders by received_at).          *)
(***************************************************************************)
EXTENDS Integers, Sequences

CONSTANTS
    None,
    Fleet,         \* the Fleet Registry in the order of list_assets
    Self,          \* settings.fleet_id, the backend's own identity
    Timeout,       \* offline_timeout
    MaxTime,       \* bound: ticks of the clock
    MaxFailures,   \* bound: storage calls of sweeps that raise StorageError
    MaxRestarts,   \* bound: restarts of the backend process
    Replays        \* whether an old heartbeat may arrive after a newer one

Assets == {Fleet[i] : i \in 1..Len(Fleet)}

Connectivity == {"online", "offline", "unknown"}

ASSUME DetectorAssumption ==
    /\ Fleet \in Seq(Assets)
    /\ None \notin Connectivity
    /\ \A i, j \in 1..Len(Fleet) : Fleet[i] = Fleet[j] => i = j
    /\ Timeout \in Nat /\ MaxTime \in Nat
    /\ MaxFailures \in Nat /\ MaxRestarts \in Nat
    /\ Replays \in BOOLEAN

Time == 0..MaxTime

\* A stored heartbeat: source timestamp and received_at.
Heartbeat == [timestamp: Time, received_at: Time]

\* A transition event, with the number of the backend process that records it.
Transition == [previous: Connectivity, current: {"online", "offline"},
               timestamp: Time, process: 0..MaxRestarts]

VARIABLES
    now,
    sent,         \* [Assets -> timestamp of the last heartbeat made, or -1]
    flight,       \* heartbeats made and not yet at the backend
    beats,        \* [Assets -> Seq(Heartbeat)], in the order of received_at
    transitions,  \* [Assets -> Seq(Transition)], in the order of insertion
    pc,           \* the sweep: "idle", "judge" or "emit"
    at,           \* now when the sweep began
    pos,          \* position in Fleet of the asset under judgment
    known,        \* [Assets -> Connectivity \cup {None}], OfflineDetector._known
    previous,     \* what _known held for the asset, when emitting
    failures,
    restarts

sweep == <<pc, at, pos, known, previous>>
vars == <<now, sent, flight, beats, transitions, sweep, failures, restarts>>

Init ==
    /\ now = 0
    /\ sent = [a \in Assets |-> -1]
    /\ flight = {}
    /\ beats = [a \in Assets |-> <<>>]
    /\ transitions = [a \in Assets |-> <<>>]
    /\ pc = "idle" /\ at = 0 /\ pos = 1
    /\ known = [a \in Assets |-> None]
    /\ previous = None
    /\ failures = 0 /\ restarts = 0
-----------------------------------------------------------------------------
(* Heartbeats. *)

Tick ==
    /\ now < MaxTime
    /\ now' = now + 1
    /\ UNCHANGED <<sent, flight, beats, transitions, sweep, failures, restarts>>

\* An asset's collector makes a heartbeat; its runner first delivers or gives
\* up the one before, of which a copy may arrive later all the same.
Beat(a) ==
    /\ a # Self
    /\ sent[a] < now
    /\ Replays \/ \A h \in flight : h.asset # a
    /\ sent' = [sent EXCEPT ![a] = now]
    /\ flight' = flight \cup {[asset |-> a, timestamp |-> now]}
    /\ UNCHANGED <<now, beats, transitions, sweep, failures, restarts>>

\* The table of heartbeats once one of asset a is stored.
Received(a, timestamp) ==
    [beats EXCEPT ![a] = Append(@, [timestamp |-> timestamp, received_at |-> now])]

\* ingest_event stamps received_at and stores the heartbeat.
Receive(h) ==
    /\ h \in flight
    /\ flight' = flight \ {h}
    /\ beats' = Received(h.asset, h.timestamp)
    /\ UNCHANGED <<now, sent, transitions, sweep, failures, restarts>>

\* The heartbeat is given up and never arrives.
LoseBeat(h) ==
    /\ h \in flight
    /\ flight' = flight \ {h}
    /\ UNCHANGED <<now, sent, beats, transitions, sweep, failures, restarts>>

\* BackendHeartbeat.beat_once; a StorageError leaves no trace until the next.
SelfBeat ==
    /\ Self \in Assets
    /\ sent[Self] < now
    /\ sent' = [sent EXCEPT ![Self] = now]
    /\ beats' = Received(Self, now)
    /\ UNCHANGED <<now, flight, transitions, sweep, failures, restarts>>
-----------------------------------------------------------------------------
(* OfflineDetector.run_once. *)

\* Mutant of Judge: the age is taken from received_at.
JudgeReceipt(a, t) ==
    LET s == beats[a]
    IN  IF s = <<>> THEN "unknown"
        ELSE IF t - s[Len(s)].received_at > Timeout THEN "offline" ELSE "online"

\* Mutant of Judge: an age of exactly offline_timeout is offline.
JudgeEarly(a, t) ==
    LET s == beats[a]
    IN  IF s = <<>> THEN "unknown"
        ELSE IF t - s[Len(s)].timestamp >= Timeout THEN "offline" ELSE "online"

\* _evaluate, and the connectivity RegistryService shows at time t.
Judge(a, t) ==
    LET s == beats[a]
    IN  IF s = <<>> THEN "unknown"
        ELSE IF t - s[Len(s)].timestamp > Timeout THEN "offline" ELSE "online"

\* run_once is over: its locals are gone.
SweepOver == pc' = "idle" /\ at' = 0 /\ pos' = 1 /\ previous' = None

\* now is read, then the registry.
StartSweep ==
    /\ pc = "idle"
    /\ pc' = "judge" /\ at' = now /\ pos' = 1
    /\ UNCHANGED <<now, sent, flight, beats, transitions, known, previous,
                   failures, restarts>>

\* Mutant of Changed: what was remembered is not compared with.
ChangedAlways(a, state) == known[a] # None /\ state # "unknown"

\* Mutant of Changed: recoveries are not looked at.
ChangedToOffline(a, state) == known[a] \notin {None, state} /\ state = "offline"

\* The judgment of an asset is news to report: it differs from the one before,
\* if any, and is not "unknown".
Changed(a, state) == known[a] \notin {None, state} /\ state # "unknown"

\* latest_event returns: the state is remembered at once, before a change is
\* emitted.
JudgeNext ==
    /\ pc = "judge" /\ pos <= Len(Fleet)
    /\ LET a == Fleet[pos]
           state == Judge(a, at)
       IN  /\ known' = [known EXCEPT ![a] = state]
           /\ IF Changed(a, state)
              THEN pc' = "emit" /\ previous' = known[a] /\ UNCHANGED pos
              ELSE pos' = pos + 1 /\ UNCHANGED <<pc, previous>>
    /\ UNCHANGED <<now, sent, flight, beats, transitions, at, failures, restarts>>

\* The transition under way, and the stream with it.
Emission(a) == [previous |-> previous, current |-> known[a],
                timestamp |-> at, process |-> restarts]
Recorded(a) == [transitions EXCEPT ![a] = Append(@, Emission(a))]

\* insert_event succeeds: on to the next asset.
Emit ==
    /\ pc = "emit"
    /\ transitions' = Recorded(Fleet[pos])
    /\ pc' = "judge" /\ pos' = pos + 1 /\ previous' = None
    /\ UNCHANGED <<now, sent, flight, beats, at, known, failures, restarts>>

\* A storage call raises StorageError: the sweep is over, run_forever sleeps and
\* begins another.  An insert that raised may have been executed.
SweepFails ==
    /\ pc # "idle"
    /\ failures < MaxFailures
    /\ failures' = failures + 1
    /\ \/ UNCHANGED transitions
       \/ pc = "emit" /\ transitions' = Recorded(Fleet[pos])
    /\ SweepOver
    /\ UNCHANGED <<now, sent, flight, beats, known, restarts>>

EndSweep ==
    /\ pc = "judge" /\ pos > Len(Fleet)
    /\ SweepOver
    /\ UNCHANGED <<now, sent, flight, beats, transitions, known, failures, restarts>>

\* The backend process is replaced: what is known starts empty.
RestartBackend ==
    /\ restarts < MaxRestarts
    /\ restarts' = restarts + 1
    /\ known' = [a \in Assets |-> None]
    /\ SweepOver
    /\ \/ UNCHANGED transitions
       \/ pc = "emit" /\ transitions' = Recorded(Fleet[pos])
    /\ UNCHANGED <<now, sent, flight, beats, failures>>

Sweep == StartSweep \/ JudgeNext \/ Emit \/ EndSweep

Next ==
    \/ Tick
    \/ \E a \in Assets : Beat(a)
    \/ \E h \in flight : Receive(h) \/ LoseBeat(h)
    \/ SelfBeat
    \/ Sweep \/ SweepFails \/ RestartBackend

Spec == Init /\ [][Next]_vars

\* run_forever starts sweep after sweep, and storage calls return.
FairSpec == Spec /\ WF_vars(Sweep) /\ WF_vars(Tick)
-----------------------------------------------------------------------------
TypeOK ==
    /\ now \in Time
    /\ sent \in [Assets -> Time \cup {-1}]
    /\ flight \subseteq [asset: Assets, timestamp: Time]
    /\ beats \in [Assets -> Seq(Heartbeat)]
    /\ transitions \in [Assets -> Seq(Transition)]
    /\ pc \in {"idle", "judge", "emit"}
    /\ at \in Time
    /\ pos \in 1..(Len(Fleet) + 1)
    /\ known \in [Assets -> Connectivity \cup {None}]
    /\ previous \in Connectivity \cup {None}
    /\ pc = "emit" => /\ pos <= Len(Fleet)
                      /\ previous # None
                      /\ known[Fleet[pos]] \in {"online", "offline"} \ {previous}
    /\ failures \in 0..MaxFailures
    /\ restarts \in 0..MaxRestarts

\* The transitions one backend process records for an asset form a chain: each
\* is a change and starts where the one before ended, so an outage is reported
\* exactly once however many sweeps see it.
TransitionsChain ==
    \A a \in Assets : \A i \in 1..Len(transitions[a]) :
        /\ transitions[a][i].previous # transitions[a][i].current
        /\ i > 1 /\ transitions[a][i - 1].process = transitions[a][i].process
               => transitions[a][i].previous = transitions[a][i - 1].current

\* Liveness cannot be faked: an asset is reported online only if it did send a
\* heartbeat within offline_timeout of the sweep, however late old heartbeats
\* arrive.
OnlineMeansBeating ==
    \A a \in Assets : \A i \in 1..Len(transitions[a]) :
        LET e == transitions[a][i]
        IN  e.current = "online" =>
                \E j \in 1..Len(beats[a]) : e.timestamp - beats[a][j].timestamp <= Timeout

\* asset_offline means that the asset stopped heartbeating: no heartbeat that
\* was received before the sweep began is young enough to be online.
OfflineMeansSilent ==
    \A a \in Assets : \A i \in 1..Len(transitions[a]) :
        LET e == transitions[a][i]
        IN  e.current = "offline" =>
                ~ \E j \in 1..Len(beats[a]) :
                      /\ beats[a][j].received_at < e.timestamp
                      /\ e.timestamp - beats[a][j].timestamp <= Timeout

\* The event stream keeps up with the fleet: once an asset that was seen in one
\* state stays in the other for good, its stream ends with the transition to it,
\* and nothing follows that.
StreamSettles ==
    \A a \in Assets : \A s \in {"online", "offline"} :
        (<>(known[a] \in {"online", "offline"} \ {s}) /\ <>[](Judge(a, now) = s))
            => <>[](transitions[a] # <<>> /\ transitions[a][Len(transitions[a])].current = s)
=============================================================================

---------------------------- MODULE HostCollector ----------------------------
(***************************************************************************)
(* The host collector process                                              *)
(* (collectors/observatory_collectors/host_pi/collector.py and the loop of *)
(* collectors/observatory_collectors/runner.py): four tasks that become    *)
(* due on intervals of their own and run one after the other in a single   *)
(* thread, each producing telemetry and submitting it before the next one  *)
(* starts; and the inventory task, which emits on start, on durable change *)
(* and at its own slower interval.                                         *)
(*                                                                         *)
(* Time is what is left until a task is due and what has passed since an   *)
(* event.  It passes while a task is produced (the CPU sample, docker, apt *)
(* and probes that time out), while an event is submitted, and while no    *)
(* process runs.  The heartbeat is produced at once, and the identity      *)
(* sections are read at once: "cheap file reads".                          *)
(***************************************************************************)
EXTENDS HostInventory

CONSTANTS
    Facts,                \* the machines there may be: [name -> what its sources hold]
    HeartbeatInterval, TelemetryInterval, InventoryInterval,
    Slow,                 \* the longest a step that takes time may take
    RestartDelay,         \* the longest from the last step of a process that dies
                          \* to the first of the next: RestartSec and the start
    MaxFaults,            \* bound: failing productions, lost submissions, deaths
    MaxChanges            \* bound: changes of the machine

\* Mutant of TaskOrder: the heartbeat comes last.
TaskOrderSlowFirst == <<"system_metrics", "docker_status", "host_inventory", "heartbeat">>

\* The order in which a pass runs the tasks that are due.
TaskOrder == <<"heartbeat", "system_metrics", "docker_status", "host_inventory">>
Tasks == {TaskOrder[i] : i \in DOMAIN TaskOrder}
Interval(t) == IF t = "heartbeat" THEN HeartbeatInterval ELSE TelemetryInterval

\* The longest pass: system_metrics, docker_status, maintenance, four submissions.
LongestPass == 7 * Slow

Machines == DOMAIN Facts

\* The identity sections are those of the machine they were read from, and say how
\* full its disks were; a report adds the maintenance section, read later.
Reading == [of : Machines, used : 0..1]
Report  == [identity : Reading, upkeep : Machines]

SignatureOf(reading) == Signature(Identity(Facts[reading.of], reading.used))

\* The readings that do not differ durably.
Alike == {pair \in Reading \X Reading : SignatureOf(pair[1]) = SignatureOf(pair[2])}

ASSUME CollectorAssumption ==
    /\ HeartbeatInterval \in Nat \ {0} /\ TelemetryInterval \in Nat \ {0}
    /\ InventoryInterval \in Nat \ {0}
    /\ Slow \in Nat /\ RestartDelay \in Nat /\ MaxFaults \in Nat /\ MaxChanges \in Nat
    /\ None \notin Reading /\ None \notin Nat
    /\ \A m \in Machines : LET mounts == Facts[m].mounts
                         IN  Len(mounts) \in Nat /\ DOMAIN mounts = 1..Len(mounts)

\* Machines that differ, differ durably.
ASSUME Distinguishable ==
    \A m, n \in Machines :
        SignatureOf([of |-> m, used |-> 0]) = SignatureOf([of |-> n, used |-> 0]) => m = n

\* What apt and logrotate do with the history: apt appends to the current log, which
\* moves on as number 1, 1 as 2 and so on, so that upgrades are in order within a
\* log, and those of a lower number are newer.
ASSUME LogsRotate ==
    \A m \in Machines : LET logs == Facts[m].logs IN
        /\ 0 \in DOMAIN logs
        /\ \A n \in DOMAIN logs :
              /\ Len(logs[n]) \in Nat /\ DOMAIN logs[n] = 1..Len(logs[n])
              /\ \A i \in DOMAIN logs[n] : logs[n][i].start \in Nat
              /\ \A i, j \in DOMAIN logs[n] :
                    i <= j => logs[n][i].start <= logs[n][j].start
              /\ \A k \in DOMAIN logs : n < k =>
                    \A i \in DOMAIN logs[n], j \in DOMAIN logs[k] :
                        logs[k][j].start <= logs[n][i].start

VARIABLES
    machine,    \* what the machine looks like now
    pc,         \* sleep, pass, or inside the inventory task
    todo,       \* tasks of this pass that are due and not yet run
    elapsed,    \* time since the pass began
    left,       \* [Tasks -> time until the task is due]
    outbox,     \* the event being submitted, or None
    draft,      \* the identity sections of an inventory being assembled, or None
    last,       \* the reading _last_signature was taken of, None before the first
    age,        \* time since _last_sent, up to the interval
    silence,    \* time since the last heartbeat was produced
    deaths,     \* history: deaths of the process since then
    shown,      \* the inventory the backend received last, or None
    faults, changes

vars == <<machine, pc, todo, elapsed, left, outbox, draft, last, age, silence,
          deaths, shown, faults, changes>>

Event(type, payload) == [type |-> type, payload |-> payload]
Events == [type : Tasks \ {"host_inventory"}, payload : {None}]
              \cup [type : {"host_inventory"}, payload : Report]

\* A process that starts: every task is due at once, nothing is remembered.
Started ==
    /\ pc' = "pass" /\ todo' = Tasks /\ elapsed' = 0
    /\ left' = [t \in Tasks |-> 0]
    /\ outbox' = None /\ draft' = None
    /\ last' = None /\ age' = 0

Init ==
    /\ machine \in Machines
    /\ pc = "pass" /\ todo = Tasks /\ elapsed = 0
    /\ left = [t \in Tasks |-> 0]
    /\ outbox = None /\ draft = None
    /\ last = None /\ age = 0
    /\ silence = 0 /\ deaths = 0 /\ shown = None
    /\ faults = 0 /\ changes = 0
-----------------------------------------------------------------------------
(* Time *)

Minus(a, b) == IF a > b THEN a - b ELSE 0
Later(d) == [t \in Tasks |-> Minus(left[t], d)]
Older(a, d) == IF a + d < InventoryInterval THEN a + d ELSE InventoryInterval

\* d units pass while the process is busy.
Busy(d) ==
    /\ elapsed' = elapsed + d
    /\ silence' = silence + d

\* They pass while it produces something, or submits it.
Working(d) == Busy(d) /\ left' = Later(d) /\ age' = Older(age, d)

\* run_forever sleeps for a tick; run_pending reads the clock once and runs every
\* task that is due by then.
Wake ==
    /\ pc = "sleep"
    /\ pc' = "pass" /\ elapsed' = 0
    /\ left' = Later(1)
    /\ todo' = {t \in Tasks : left'[t] = 0}
    /\ age' = Older(age, 1) /\ silence' = silence + 1
    /\ UNCHANGED <<machine, outbox, draft, last, deaths, shown, faults, changes>>

EndPass ==
    /\ pc = "pass" /\ todo = {} /\ outbox = None
    /\ pc' = "sleep"
    /\ UNCHANGED <<machine, todo, elapsed, left, outbox, draft, last, age,
                   silence, deaths, shown, faults, changes>>
-----------------------------------------------------------------------------
(* Tasks *)

\* The next run counts from the moment the pass began, not from now.
NextRun(t) == Minus(Interval(t), elapsed)

\* The first of the tasks to do.
First(t) ==
    /\ t \in todo
    /\ \A i, j \in DOMAIN TaskOrder : TaskOrder[i] = t /\ TaskOrder[j] \in todo => i <= j

\* The pass comes to a task: its next run is set before it produces anything.
Taken(t) ==
    /\ pc = "pass" /\ outbox = None
    /\ First(t)
    /\ todo' = todo \ {t}

\* d units pass while it produces what the task is to submit.
Producing(t, d) ==
    /\ Taken(t) /\ Busy(d)
    /\ left' = [Later(d) EXCEPT ![t] = Minus(NextRun(t), d)]
    /\ age' = Older(age, d)

ProduceHeartbeat ==
    /\ Taken("heartbeat")
    /\ left' = [left EXCEPT !["heartbeat"] = NextRun("heartbeat")]
    /\ outbox' = Event("heartbeat", None)
    /\ silence' = 0 /\ deaths' = 0
    /\ UNCHANGED <<machine, pc, elapsed, draft, last, age, shown, faults, changes>>

\* The metrics sleep between two CPU samples when they have to; docker ps, inspect
\* and stats have a timeout each.
ProduceTelemetry(t) ==
    /\ t \in {"system_metrics", "docker_status"}
    /\ \E d \in 0..Slow : Producing(t, d)
    /\ outbox' = Event(t, None)
    /\ UNCHANGED <<machine, pc, draft, last, deaths, shown, faults, changes>>

\* Mutant of Due: after the first report, changes only.
DueOnChange(reading) == last = None \/ <<reading, last>> \notin Alike

\* InventoryTelemetry emits on the first run, at its interval, and on a change.
Due(reading) ==
    \/ last = None
    \/ age >= InventoryInterval
    \/ <<reading, last>> \notin Alike

\* The identity sections are read; unless due, that is all.
ReadIdentity(usage) ==
    /\ Taken("host_inventory")
    /\ left' = [left EXCEPT !["host_inventory"] = NextRun("host_inventory")]
    /\ LET reading == [of |-> machine, used |-> usage]
       IN  IF Due(reading) THEN pc' = "maintenance" /\ draft' = reading
                           ELSE UNCHANGED <<pc, draft>>
    /\ UNCHANGED <<machine, elapsed, outbox, last, age, silence, deaths, shown,
                   faults, changes>>

\* The maintenance section follows (it runs apt).  Only now is the report
\* remembered as sent, as of the moment the task began.
ReadMaintenance ==
    /\ pc = "maintenance"
    /\ pc' = "pass"
    /\ \E d \in 0..Slow :
        /\ Busy(d)
        /\ left' = Later(d)
        /\ age' = Older(0, d)
    /\ last' = draft
    /\ outbox' = Event("host_inventory", [identity |-> draft, upkeep |-> machine])
    /\ draft' = None
    /\ UNCHANGED <<machine, todo, deaths, shown, faults, changes>>

\* A probe raises, maybe after its timeout: the task is due again at its interval,
\* the others run.
ProduceFails ==
    /\ faults < MaxFaults /\ faults' = faults + 1
    /\ \E d \in 0..Slow :
          \/ /\ \E t \in Tasks \ {"heartbeat"} : Producing(t, d)
             /\ UNCHANGED <<pc, draft>>
          \/ /\ pc = "maintenance" /\ pc' = "pass" /\ draft' = None
             /\ Working(d)
             /\ UNCHANGED todo
    /\ UNCHANGED <<machine, outbox, last, deaths, shown, changes>>
-----------------------------------------------------------------------------
(* submit_event, and the backend *)

Received == IF outbox.type = "host_inventory" THEN outbox.payload ELSE shown

\* The attempts take time.
Submitted ==
    /\ outbox # None /\ outbox' = None
    /\ \E d \in 0..Slow : Working(d)
    /\ UNCHANGED <<machine, pc, todo, draft, last, deaths, changes>>

\* One attempt is answered.
Delivered ==
    /\ Submitted
    /\ shown' = Received
    /\ UNCHANGED faults

\* All attempts fail; the event may have arrived.  The runner does not look at
\* the outcome.
GivenUp ==
    /\ faults < MaxFaults /\ faults' = faults + 1
    /\ Submitted
    /\ shown' \in {shown, Received}

\* The process dies, by an exception that submit_event lets through or otherwise,
\* and systemd starts it again after a while.
Die ==
    /\ faults < MaxFaults /\ faults' = faults + 1
    /\ Started
    /\ \E d \in 0..RestartDelay : silence' = silence + d
    /\ deaths' = deaths + 1
    /\ UNCHANGED <<machine, shown, changes>>
-----------------------------------------------------------------------------
Change ==
    /\ changes < MaxChanges /\ changes' = changes + 1
    /\ machine' \in Machines \ {machine}
    /\ UNCHANGED <<pc, todo, elapsed, left, outbox, draft, last, age, silence,
                   deaths, shown, faults>>

Work ==
    \/ Wake \/ EndPass
    \/ ProduceHeartbeat
    \/ \E t \in Tasks : ProduceTelemetry(t)
    \/ \E usage \in 0..1 : ReadIdentity(usage)
    \/ ReadMaintenance
    \/ Delivered

Next == Work \/ ProduceFails \/ GivenUp \/ Die \/ Change

Spec == Init /\ [][Next]_vars

\* The loop goes on: probes and CLI calls have timeouts, and so has a submission.
FairSpec == Spec /\ WF_vars(Work)
-----------------------------------------------------------------------------
\* Type correctness of the loop and the inventory task.
TypeOK ==
    /\ machine \in Machines
    /\ pc \in {"sleep", "pass", "maintenance"}
    /\ todo \subseteq Tasks
    /\ elapsed \in Nat
    /\ left \in [Tasks -> Nat]
    /\ outbox \in Events \cup {None}
    /\ IF pc = "maintenance" THEN draft \in Reading ELSE draft = None
    /\ last \in Reading \cup {None} /\ shown \in Report \cup {None}
    /\ age \in 0..InventoryInterval /\ silence \in Nat
    /\ faults \in 0..MaxFaults /\ deaths \in 0..faults /\ changes \in 0..MaxChanges

\* A heartbeat follows the one before it within the interval and one pass,
\* however long the tasks between them take and whatever fails, and a death adds
\* no more than the restart, because a process starts with a heartbeat: the
\* backend's offline timeout has to exceed this.
HeartbeatGap ==
    silence <= HeartbeatInterval + LongestPass + deaths * RestartDelay

\* How full the disks are does not cause a report: a process reports the same
\* durable identity again only when its inventory interval has passed.
QuietWhenStable ==
    [][(/\ pc = "maintenance" /\ outbox' # outbox
        /\ last # None /\ draft.of = last.of) => age >= InventoryInterval]_vars

\* The disk a mounted device is, or is on: base_block_device passes the name of a
\* whole disk through unchanged, as its docstring has it.
WholeDisk(device) == [device EXCEPT !.part = None]

\* Two mounts carry the same logical name exactly if they are on one disk.
WellNamed ==
    {m \in Machines : \A a, b \in Storage(Facts[m], 0) :
        a.name = b.name <=> WholeDisk(a.mount.device) = WholeDisk(b.mount.device)}

\* A machine whose mounts are all on disks that can have partitions.
OnDisks(m) ==
    \A i \in DOMAIN Facts[m].mounts : Facts[m].mounts[i].device.family \in Partitioned

\* A logical name stands for one disk in every report of such a machine, and every
\* mount of a disk carries it, as assign_logical_names promises "per *physical*
\* device"; md0 and md1 share a name.
NamesIdentifyDisks ==
    shown # None /\ OnDisks(shown.identity.of) => shown.identity.of \in WellNamed

\* The backend learns what the machine looks like, however many reports were lost,
\* failed to be produced, or died with the process before.
InventoryCatchesUp ==
    \A m \in Machines : <>[](machine = m) => <>[](shown # None /\ shown.identity.of = m)

\* The maintenance section names the newest upgrade and the newest full upgrade on
\* record, whichever logs rotation has moved them to, as long as the archives have
\* one digit: history.log.10.gz comes before history.log.2.gz by name.
NewestUpgradeReported ==
    shown # None =>
        LET m == Facts[shown.upkeep]
        IN  DOMAIN m.logs \subseteq 0..9 =>
                \A n \in DOMAIN m.logs : \A i \in DOMAIN m.logs[n] :
                    LET upgrade == m.logs[n][i]
                    IN  /\ upgrade.start <= Maintenance(m).last_apt_upgrade
                        /\ upgrade.full =>
                               upgrade.start <= Maintenance(m).last_apt_full_upgrade
=============================================================================

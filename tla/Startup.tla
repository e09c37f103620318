------------------------------- MODULE Startup -------------------------------
(***************************************************************************)
(* Starting the backend (backend/app/main.py, the lifespan): the schema    *)
(* bootstrap of ClickHouseEventStorage.startup, the pings of the other     *)
(* storages, the create-only seeding of the fleet registry, and the        *)
(* degraded start when any of them raises StorageError.                    *)
(*                                                                         *)
(* One action per storage call.  A call fails because the database is down *)
(* or because it times out; then the server may still execute it later     *)
(* (`late').  The process may die between any two calls, and a deployment  *)
(* may restart it with another release, older or newer, on the same        *)
(* database.                                                               *)
(***************************************************************************)
EXTENDS Integers, Sequences, FiniteSets

CONSTANTS
    Statements,    \* how many statements each migration file has, in file order
    Releases,      \* releases that are deployed; release r ships the files 1..r
    Seeds,         \* SEED_ASSETS, in order
    HostOf,        \* the host_fleet_id of each, None when it has none
    None,
    MaxFaults,     \* bound: outages, timeouts and crashes
    MaxDeploys,    \* bound: upgrades and rollbacks
    MaxEdits       \* bound: registry rows changed by an operator

Assets == {Seeds[i] : i \in DOMAIN Seeds}

\* The bootstrap's own statements (database and ledger table) count as file 0.
Files == 0..Len(Statements)
Count(file) == IF file = 0 THEN 2 ELSE Statements[file]
StatementsOf(file) == {<<file, i>> : i \in 1..Count(file)}

ASSUME StartupAssumption ==
    /\ Statements \in Seq(Nat \ {0})
    /\ Releases \subseteq 1..Len(Statements) /\ Releases # {}
    /\ Seeds \in Seq(Assets) /\ Len(Seeds) > 0
    /\ HostOf \in [Assets -> Assets \cup {None}] /\ None \notin Assets
    /\ MaxFaults \in Nat /\ MaxDeploys \in Nat /\ MaxEdits \in Nat

\* Hosts come before the assets that name them, and an asset is seeded once.
ASSUME SeedOrder ==
    \A i \in DOMAIN Seeds :
        /\ HostOf[Seeds[i]] # None => \E j \in 1..(i - 1) : Seeds[j] = HostOf[Seeds[i]]
        /\ \A j \in DOMAIN Seeds : Seeds[j] = Seeds[i] => j = i

VARIABLES
    up,          \* the database answers
    executed,    \* statements the database has executed
    ledger,      \* files named in schema_migrations
    registry,    \* [Assets -> row of fleet_registry, or None]
    late,        \* calls that failed or were cut off and may still be executed
    clock,       \* the latest revision issued
    release,     \* the checked-out release
    pc,          \* the call the process is about to make
    file, stmt,  \* the statement it is at
    applied,     \* the files bootstrap found in the ledger, or has recorded
    seed,        \* the seed entry it is at
    seen,        \* history: the clock when it looked that entry up
    degraded,    \* the lifespan caught a StorageError
    faults, deploys, edits

db == <<up, executed, ledger, registry, late, clock>>
process == <<pc, file, stmt, applied, seed, seen, degraded>>
bounds == <<faults, deploys, edits>>
vars == <<db, release, process, bounds>>

Calls == {"migrate", "read", "record", "ping", "lookup", "host", "insert", "announce"}

\* A row is as new as its revision.  What wrote it had last looked at `since'
\* (history: the code keeps no such column).
Row == [by : {"seed", "operator"}, rev : Nat, since : Nat]
SeedRow == [by |-> "seed", rev |-> clock + 1, since |-> seen]
OperatorRow == [by |-> "operator", rev |-> clock + 1, since |-> clock + 1]

ASSUME NoneAssumption == None \notin Row

Init ==
    /\ up \in BOOLEAN
    /\ executed = {} /\ ledger = {} /\ late = {}
    /\ registry = [a \in Assets |-> None]
    /\ clock = 0
    /\ release \in Releases
    /\ pc = "down" /\ file = 0 /\ stmt = 1 /\ applied = {}
    /\ seed = 1 /\ seen = 0 /\ degraded = FALSE
    /\ faults = 0 /\ deploys = 0 /\ edits = 0
-----------------------------------------------------------------------------
(* What the database does with a call *)

\* Mutant of Keeps: the row inserted last is the one FINAL reads.
KeepsLast(a, row) == TRUE

\* ReplacingMergeTree(revision): the row with the highest revision is read.
Keeps(a, row) == registry[a] = None \/ registry[a].rev < row.rev

WithRow(a, row) == IF Keeps(a, row) THEN [registry EXCEPT ![a] = row] ELSE registry

\* Mutant of Executable: statements without IF NOT EXISTS.
ExecutableOnce(s) ==
    s \notin executed /\ \A i \in 1..(s[2] - 1) : <<s[1], i>> \in executed

\* Statements say IF NOT EXISTS and may be repeated; one may build on those
\* before it in its file.
Executable(s) == \A i \in 1..(s[2] - 1) : <<s[1], i>> \in executed

\* The call the process is about to make, when it changes the database.
Pending ==
    CASE pc = "migrate" -> {[op |-> "statement", arg |-> <<file, stmt>>]}
      [] pc = "record"  -> {[op |-> "ledger", arg |-> file]}
      [] pc = "insert"  -> {[op |-> "row", arg |-> Seeds[seed], row |-> SeedRow]}
      [] OTHER          -> {}

\* The call was cut off: the server may be left with it.
CutOff ==
    /\ \E left \in SUBSET Pending : late' = late \cup left
    /\ clock' = IF pc = "insert" THEN clock + 1 ELSE clock

\* A call that failed or was cut off is executed after all.
Land(call) ==
    /\ up
    /\ late' = late \ {call}
    /\ executed' = IF call.op = "statement" /\ Executable(call.arg)
                   THEN executed \cup {call.arg} ELSE executed
    /\ ledger' = IF call.op = "ledger" THEN ledger \cup {call.arg} ELSE ledger
    /\ registry' = IF call.op = "row" THEN WithRow(call.arg, call.row) ELSE registry
    /\ UNCHANGED <<up, clock, release, process, bounds>>

Outage ==
    /\ up /\ faults < MaxFaults
    /\ up' = FALSE /\ faults' = faults + 1
    /\ UNCHANGED <<executed, ledger, registry, late, clock, release, process, deploys, edits>>

Recovery ==
    /\ ~up /\ up' = TRUE
    /\ UNCHANGED <<executed, ledger, registry, late, clock, release, process, bounds>>

\* An operator changes the row of a registered asset, whatever the backend is
\* doing: the registry is a table like any other to him.
Administer(a) ==
    /\ up /\ edits < MaxEdits
    /\ registry[a] # None
    /\ clock' = clock + 1 /\ edits' = edits + 1
    /\ registry' = [registry EXCEPT ![a] = OperatorRow]
    /\ UNCHANGED <<up, executed, ledger, late, release, process, faults, deploys>>
-----------------------------------------------------------------------------
(* The process: systemd starts it, uvicorn runs the lifespan *)

Start ==
    /\ pc = "down"
    /\ pc' = "migrate" /\ file' = 0 /\ stmt' = 1 /\ applied' = {}
    /\ seed' = 1 /\ seen' = 0 /\ degraded' = FALSE
    /\ UNCHANGED <<db, release, bounds>>

\* bootstrap goes on to the first file, in filename order, that is not in `done';
\* when none is left the other storages start.
GoOn(done) ==
    /\ applied' = done /\ stmt' = 1
    /\ \/ 1..release \subseteq done /\ file' = 0 /\ pc' = "ping"
       \/ \E k \in (1..release) \ done :
             1..(k - 1) \subseteq done /\ file' = k /\ pc' = "migrate"

\* Mutant of AfterStatement: the ledger row follows the first statement.
AfterStatementEarly == IF file = 0 THEN "read" ELSE "record"

\* Where the process is after the statement: the next one, or past the file.
AfterStatement ==
    IF stmt < Count(file) THEN "migrate" ELSE IF file = 0 THEN "read" ELSE "record"

Execute ==
    /\ pc = "migrate" /\ up /\ Executable(<<file, stmt>>)
    /\ executed' = executed \cup {<<file, stmt>>}
    /\ pc' = AfterStatement
    /\ stmt' = IF AfterStatement = "migrate" THEN stmt + 1 ELSE stmt
    /\ UNCHANGED <<up, ledger, registry, late, clock, release, file, applied,
                   seed, seen, degraded, bounds>>

ReadLedger ==
    /\ pc = "read" /\ up
    /\ GoOn(ledger)
    /\ UNCHANGED <<db, release, seed, seen, degraded, bounds>>

Record ==
    /\ pc = "record" /\ up
    /\ ledger' = ledger \cup {file}
    /\ GoOn(applied \cup {file})
    /\ UNCHANGED <<up, executed, registry, late, clock, release, seed,
                   seen, degraded, bounds>>

\* startup of the registry, mission and inventory storages: a ping each.
Ping ==
    /\ pc = "ping" /\ up
    /\ pc' = "lookup"
    /\ UNCHANGED <<db, release, file, stmt, applied, seed, seen, degraded, bounds>>

\* seed_registry goes on to the next entry, or is done.
NextSeed ==
    IF seed < Len(Seeds) THEN seed' = seed + 1 /\ pc' = "lookup"
                         ELSE seed' = seed /\ pc' = "announce"

\* An entry that is registered is left alone.
Lookup ==
    /\ pc = "lookup" /\ up
    /\ IF registry[Seeds[seed]] # None
       THEN NextSeed
       ELSE /\ pc' = IF HostOf[Seeds[seed]] = None THEN "insert" ELSE "host"
            /\ seed' = seed
    /\ seen' = clock
    /\ UNCHANGED <<db, release, file, stmt, applied, degraded, bounds>>

\* An unknown host raises ValueError, which leaves the lifespan: the process ends.
LookupHost ==
    /\ pc = "host" /\ up
    /\ pc' = IF registry[HostOf[Seeds[seed]]] # None THEN "insert" ELSE "down"
    /\ UNCHANGED <<db, release, file, stmt, applied, seed, seen, degraded, bounds>>

Insert ==
    /\ pc = "insert" /\ up
    /\ clock' = clock + 1
    /\ registry' = WithRow(Seeds[seed], SeedRow)
    /\ NextSeed
    /\ UNCHANGED <<up, executed, ledger, late, release, file, stmt, applied,
                   seen, degraded, bounds>>

\* record_service_start: best effort, a StorageError is logged.
Announce ==
    /\ pc = "announce"
    /\ pc' = "serving"
    /\ UNCHANGED <<db, release, file, stmt, applied, seed, seen, degraded, bounds>>

Spend == faults < MaxFaults /\ faults' = faults + 1

\* Mutant of CallFails: seeding logs a failed call and goes on.
CallFailsLogged ==
    /\ pc \in Calls \ {"announce"}
    /\ IF up THEN Spend /\ CutOff ELSE UNCHANGED <<late, clock, faults>>
    /\ CASE pc = "insert" -> NextSeed /\ UNCHANGED degraded
         [] pc = "host" -> pc' = "insert" /\ UNCHANGED <<degraded, seed>>
         [] OTHER -> pc' = "serving" /\ degraded' = TRUE /\ UNCHANGED seed
    /\ UNCHANGED <<up, executed, ledger, registry, release, file, stmt, applied,
                   seen, deploys, edits>>

\* A call raises StorageError: the lifespan catches it and the process serves
\* without what was still to do.
CallFails ==
    /\ pc \in Calls \ {"announce"}
    /\ IF up THEN Spend /\ CutOff ELSE UNCHANGED <<late, clock, faults>>
    /\ pc' = "serving" /\ degraded' = TRUE
    /\ UNCHANGED <<up, executed, ledger, registry, release, file, stmt, applied,
                   seed, seen, deploys, edits>>

\* The process dies, maybe during a call.
Crash ==
    /\ pc # "down" /\ Spend
    /\ CutOff
    /\ pc' = "down"
    /\ UNCHANGED <<up, executed, ledger, registry, release, file, stmt, applied,
                   seed, seen, degraded, deploys, edits>>

\* upgrade.sh and rollback.sh check a release out and restart the unit.
Deploy(r) ==
    /\ deploys < MaxDeploys /\ r # release
    /\ release' = r /\ deploys' = deploys + 1
    /\ CutOff
    /\ pc' = "down"
    /\ UNCHANGED <<up, executed, ledger, registry, file, stmt, applied, seed,
                   seen, degraded, faults, edits>>

Steps ==
    \/ Execute \/ ReadLedger \/ Record \/ Ping
    \/ Lookup \/ LookupHost \/ Insert \/ Announce

Next ==
    \/ Start \/ Steps \/ CallFails \/ Crash
    \/ \E r \in Releases : Deploy(r)
    \/ \E call \in late : Land(call)
    \/ Outage \/ Recovery
    \/ \E a \in Assets : Administer(a)

Spec == Init /\ [][Next]_vars

\* systemd restarts the unit, and a call either answers or raises.
FairSpec == Spec /\ WF_vars(Start) /\ WF_vars(Steps \/ CallFails)
-----------------------------------------------------------------------------
Complete(r) == \A k \in 0..r : StatementsOf(k) \subseteq executed

Ready == pc = "serving" /\ ~degraded

AllStatements == UNION {StatementsOf(k) : k \in Files}

\* What a call that may land late carries.
CallOK(call) ==
    \/ call.op = "statement" /\ call.arg \in AllStatements
    \/ call.op = "ledger" /\ call.arg \in 1..Len(Statements)
    \/ call.op = "row" /\ call.arg \in Assets /\ call.row \in Row

\* Type correctness of the database, the process and the calls that may land.
TypeOK ==
    /\ up \in BOOLEAN /\ degraded \in BOOLEAN
    /\ executed \subseteq AllStatements
    /\ ledger \subseteq 1..Len(Statements) /\ applied \subseteq 1..Len(Statements)
    /\ registry \in [Assets -> Row \cup {None}]
    /\ clock \in Nat
    /\ release \in Releases
    /\ pc \in Calls \cup {"down", "serving"}
    /\ file \in Files /\ stmt \in 1..Count(file) /\ (pc = "record" => file > 0)
    /\ seed \in DOMAIN Seeds /\ seen \in Nat
    /\ \A call \in late : CallOK(call)
    /\ faults \in 0..MaxFaults /\ deploys \in 0..MaxDeploys /\ edits \in 0..MaxEdits

\* The ledger tells the truth: a file it names was executed to the last
\* statement, and so was every file before it, wherever bootstraps were cut off,
\* whatever lands late, and whichever release ran in between.
LedgerHonest == \A k \in ledger : Complete(k)

\* A backend that started without a degraded lifespan has the whole schema of
\* its release and every seed entry.
ReadyIsComplete ==
    Ready => Complete(release) /\ \A a \in Assets : registry[a] # None

\* No registered asset refers to a host that is not registered.
HostsRegistered ==
    \A a \in Assets :
        registry[a] # None /\ HostOf[a] # None => registry[HostOf[a]] # None

\* Seeding is create-only, as far as that goes: an operator's row is undone only
\* by a start that looked before the edit and inserted after it.  One that begins later leaves it alone,
\* and the insert of an earlier one, however late it is executed, loses to it.
EditsOutliveStarts ==
    [][\A a \in Assets :
          LET old == registry[a]  new == registry'[a]
          IN  (old # None /\ old.by = "operator") =>
                  /\ new # None
                  /\ new.by = "seed" => new.since < old.rev /\ old.rev < new.rev]_vars

\* Once faults are over, a process that is started brings the backend up
\* completely, whatever the ones before it left half done.
RestartCompletes ==
    (pc = "down" /\ up /\ faults = MaxFaults /\ deploys = MaxDeploys) ~> Ready
=============================================================================

--------------------------- MODULE VersionedStore ---------------------------
(***************************************************************************)
(* A ClickHouse projection store (backend/app/storage/clickhouse.py): a    *)
(* ReplacingMergeTree whose rows carry the wall clock as revision, one     *)
(* lock per storage that serves its calls first come first served, inserts *)
(* that raise and may still be executed, a backend that dies, and a wall   *)
(* clock that may stand still or be set back.                              *)
(***************************************************************************)
EXTENDS Integers, Sequences, FiniteSets, SequencesExt

CONSTANTS
    Keys,
    MaxTime,       \* bound: the wall clock
    MaxWrites,     \* bound: upserts
    MaxReads,      \* bound: reads waiting at a time
    MaxSetbacks    \* bound: times the clock is set back

ASSUME StoreAssumption ==
    MaxTime \in Nat /\ MaxWrites \in Nat /\ MaxReads \in Nat /\ MaxSetbacks \in Nat

VARIABLES
    wall,       \* the wall clock when it was last read
    setbacks,   \* times it was set back
    writes,     \* the upserts called, in order: the row's key and revision
    queue,      \* calls that hold or wait for the lock: writes and key sets to read
    table,      \* the rows, by write, in the order they were inserted
    late,       \* writes that raised or were cut off and may still be executed
    acked,      \* writes that returned
    answer      \* what the last read returned

vars == <<wall, setbacks, writes, queue, table, late, acked, answer>>

WriteCall(w) == [op |-> "write", arg |-> w]
ReadCall(K)  == [op |-> "read", arg |-> K]

\* Mutant of Current: SELECT without FINAL, the row inserted last.
CurrentLast(k) ==
    LET rows == SelectSeq(table, LAMBDA w : writes[w].key = k)
    IN  IF rows = <<>> THEN 0 ELSE Last(rows)

\* SELECT ... FINAL: of the key's rows the one of the highest revision, the one
\* inserted last if there are several; 0 for no row.
Current(k) ==
    LET at == {i \in DOMAIN table : writes[table[i]].key = k}
        best == {i \in at : \A j \in at : writes[table[j]].rev <= writes[table[i]].rev}
    IN  IF at = {} THEN 0 ELSE table[CHOOSE i \in best : \A j \in best : j <= i]

Init ==
    /\ wall = 0 /\ setbacks = 0
    /\ writes = <<>> /\ queue = <<>> /\ table = <<>>
    /\ late = {} /\ acked = {}
    /\ answer = [k \in Keys |-> 0]
-----------------------------------------------------------------------------
\* What the clock shows next: any later time, or the same; an earlier time only
\* when it was set back (NTP, or a host without a real-time clock that boots).
ClockShows(t) ==
    /\ setbacks' = IF t < wall THEN setbacks + 1 ELSE setbacks
    /\ setbacks' <= MaxSetbacks
    /\ wall' = t

\* Mutant of Upsert: the call goes to the front of the line.
UpsertFirst(k, t) ==
    /\ Len(writes) < MaxWrites
    /\ ClockShows(t)
    /\ writes' = Append(writes, [key |-> k, rev |-> t])
    /\ queue' = <<WriteCall(Len(writes) + 1)>> \o queue
    /\ UNCHANGED <<table, late, acked, answer>>

\* upsert_*: the row is built, with its revision, before the lock is waited for.
Upsert(k, t) ==
    /\ Len(writes) < MaxWrites
    /\ ClockShows(t)
    /\ writes' = Append(writes, [key |-> k, rev |-> t])
    /\ queue' = Append(queue, WriteCall(Len(writes) + 1))
    /\ UNCHANGED <<table, late, acked, answer>>

\* get_* of one key, list_* of all.
Get(K) ==
    /\ Cardinality({i \in DOMAIN queue : queue[i].op = "read"}) < MaxReads
    /\ queue' = Append(queue, ReadCall(K))
    /\ UNCHANGED <<wall, setbacks, writes, table, late, acked, answer>>

\* The call that holds the lock succeeds.
InsertDone ==
    /\ queue # <<>> /\ Head(queue).op = "write"
    /\ table' = Append(table, Head(queue).arg)
    /\ acked' = acked \cup {Head(queue).arg}
    /\ queue' = Tail(queue)
    /\ UNCHANGED <<wall, setbacks, writes, late, answer>>

SelectDone ==
    /\ queue # <<>> /\ Head(queue).op = "read"
    /\ answer' = [k \in Head(queue).arg |-> Current(k)]
    /\ queue' = Tail(queue)
    /\ UNCHANGED <<wall, setbacks, writes, table, late, acked>>

\* An insert that is cut off: the server may be left with it.
InDoubt ==
    \/ late' = late
    \/ queue # <<>> /\ Head(queue).op = "write" /\ late' = late \cup {Head(queue).arg}

\* The call that holds the lock raises StorageError; the next one gets the lock.
CallRaises ==
    /\ queue # <<>>
    /\ InDoubt
    /\ queue' = Tail(queue)
    /\ UNCHANGED <<wall, setbacks, writes, table, acked, answer>>

\* The backend dies and starts again.
Crash ==
    /\ queue # <<>>
    /\ InDoubt
    /\ queue' = <<>>
    /\ UNCHANGED <<wall, setbacks, writes, table, acked, answer>>

\* The server executes an insert whose caller is gone.
Land(w) ==
    /\ late' = late \ {w}
    /\ table' = Append(table, w)
    /\ UNCHANGED <<wall, setbacks, writes, queue, acked, answer>>

Next ==
    \/ \E k \in Keys, t \in 0..MaxTime : Upsert(k, t)
    \/ \E k \in Keys : Get({k})
    \/ Get(Keys)
    \/ InsertDone \/ SelectDone \/ CallRaises \/ Crash
    \/ \E w \in late : Land(w)

Spec == Init /\ [][Next]_vars
-----------------------------------------------------------------------------
\* A write is trusted when its revision is above those of the key's writes
\* before it: all are when the clock moves on between two writes of a key.
Trusted(w) ==
    \A v \in 1..(w - 1) : writes[v].key = writes[w].key => writes[v].rev < writes[w].rev

Floor(k) ==
    LET in == {w \in Range(table) : writes[w].key = k /\ Trusted(w)}
    IN  IF in = {} THEN 0 ELSE CHOOSE w \in in : \A v \in in : v <= w

Store == INSTANCE LatestValue WITH
    issued <- [w \in DOMAIN writes |-> [key |-> writes[w].key, trusted |-> Trusted(w)]],
    shown  <- [k \in Keys |-> Current(k)],
    floor  <- [k \in Keys |-> Floor(k)]

Call == [op : {"write"}, arg : Nat] \cup [op : {"read"}, arg : SUBSET Keys]

\* Type correctness; a write is in the table, or may still get there, at most once,
\* and the acknowledged ones are in it.
TypeOK ==
    /\ wall \in 0..MaxTime /\ setbacks \in 0..MaxSetbacks
    /\ writes \in Seq([key : Keys, rev : 0..MaxTime])
    /\ queue \in Seq(Call)
    /\ \A i \in DOMAIN queue : queue[i].op = "write" => queue[i].arg \in DOMAIN writes
    /\ table \in Seq(DOMAIN writes) /\ IsInjective(table)
    /\ late \subseteq DOMAIN writes \ Range(table)
    /\ acked \subseteq Range(table)
    /\ \A k \in DOMAIN answer : k \in Keys /\ answer[k] \in {0} \cup DOMAIN writes

\* The versioned rows implement the latest-value store for every write whose
\* revision is fresh: neither waiting for the lock, nor raising, nor landing late,
\* nor dying lets an earlier write win over it; reads return what is current.
Implements == Store!Spec

\* A write that returned stays visible until one called later replaces it, if its
\* revision was fresh.
AcknowledgedIsKept == Store!AcknowledgedIsKept
=============================================================================

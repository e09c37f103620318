----------------------------- MODULE LatestValue -----------------------------
(***************************************************************************)
(* What a projection store promises (backend/app/storage/base.py:          *)
(* RegistryStorage, MissionStorage, HostInventoryStorage): one value per   *)
(* key, "insert or replace", and reads that return the latest.  The stores *)
(* of storage/memory.py do each write in one step; module VersionedStore   *)
(* shows what storage/clickhouse.py makes of it.                           *)
(*                                                                         *)
(* Writes are named by their number, in the order they were asked for.  A  *)
(* write may be refused, may take effect without being acknowledged, or    *)
(* long after.  Only for trusted writes is the order they were asked for   *)
(* the order that counts: who implements the store says which they are.    *)
(***************************************************************************)
EXTENDS Integers, Sequences

CONSTANT Keys

VARIABLES
    issued,   \* the writes asked for, in order: their key and whether trusted
    shown,    \* [Keys -> the write whose value a read returns, 0 for none]
    floor,    \* [Keys -> the latest trusted write that took effect, 0 for none]
    acked,    \* writes that were acknowledged
    answer    \* what the last read returned

vars == <<issued, shown, floor, acked, answer>>

Writes == DOMAIN issued
KeyOf(w) == issued[w].key

Init ==
    /\ issued = <<>>
    /\ shown = [k \in Keys |-> 0] /\ floor = [k \in Keys |-> 0]
    /\ acked = {}
    /\ answer = shown

Issue(k, trusted) ==
    /\ issued' = Append(issued, [key |-> k, trusted |-> trusted])
    /\ UNCHANGED <<shown, floor, acked, answer>>

\* A write takes effect: never one that a trusted write has superseded.
Effect(w) ==
    /\ w > floor[KeyOf(w)]
    /\ shown' = [shown EXCEPT ![KeyOf(w)] = w]
    /\ floor' = IF issued[w].trusted THEN [floor EXCEPT ![KeyOf(w)] = w] ELSE floor

\* Nothing is promised of a write that is not trusted, and of a trusted one only
\* that from here on no earlier write takes effect, if a later one is shown.
NoEffect(w) ==
    /\ shown' = shown
    /\ floor' = IF issued[w].trusted /\ w > floor[KeyOf(w)] /\ shown[KeyOf(w)] > w
                THEN [floor EXCEPT ![KeyOf(w)] = w] ELSE floor

\* An unacknowledged write takes effect, or is overtaken.
Land(w) ==
    /\ w \notin acked
    /\ Effect(w) \/ NoEffect(w)
    /\ UNCHANGED <<issued, acked, answer>>

\* A write returns.  A trusted one has taken effect by then.
Acknowledge(w) ==
    /\ w \notin acked
    /\ acked' = acked \cup {w}
    /\ Effect(w) \/ (~issued[w].trusted /\ NoEffect(w))
    /\ UNCHANGED <<issued, answer>>

\* get_* reads one key and list_* reads all, in one step.
Read(K) ==
    /\ answer' = [k \in K |-> shown[k]]
    /\ UNCHANGED <<issued, shown, floor, acked>>

Next ==
    \/ \E k \in Keys, trusted \in BOOLEAN : Issue(k, trusted)
    \/ \E w \in Writes : Land(w) \/ Acknowledge(w)
    \/ \E K \in SUBSET Keys : Read(K)

Spec == Init /\ [][Next]_vars
-----------------------------------------------------------------------------
\* Type correctness, and that what is shown is not older than the floor.
TypeOK ==
    /\ issued \in Seq([key : Keys, trusted : BOOLEAN])
    /\ shown \in [Keys -> Nat] /\ floor \in [Keys -> Nat]
    /\ acked \subseteq Writes
    /\ \A k \in Keys :
        /\ shown[k] > 0 => shown[k] \in Writes /\ KeyOf(shown[k]) = k
        /\ floor[k] <= shown[k]

\* A trusted write that was acknowledged is seen by every read from then on,
\* unless a write asked for later has replaced it.
AcknowledgedIsKept ==
    \A w \in acked : issued[w].trusted => shown[KeyOf(w)] >= w
=============================================================================

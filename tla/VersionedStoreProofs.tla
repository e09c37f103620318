------------------------ MODULE VersionedStoreProofs ------------------------
(***************************************************************************)
(* For any keys, writes, reads and set-backs of the clock: the versioned   *)
(* table implements the latest-value store, and a trusted write that was   *)
(* acknowledged stays visible until a later one replaces it.               *)
(***************************************************************************)
EXTENDS VersionedStore, WellFoundedInduction, TLAPS

-----------------------------------------------------------------------------
(* Sequences and greatest elements *)

\* A sequence over a set has its elements in the set.
LEMMA SeqFacts ==
    ASSUME NEW S, NEW s \in Seq(S)
    PROVE  Len(s) \in Nat /\ DOMAIN s = 1..Len(s) /\ \A i \in DOMAIN s : s[i] \in S
OBVIOUS

\* What Append adds to a sequence, and what it keeps.
LEMMA AppendFacts ==
    ASSUME NEW S, NEW s \in Seq(S), NEW e \in S
    PROVE  /\ Append(s, e) \in Seq(S)
           /\ Len(s) \in Nat /\ DOMAIN s = 1..Len(s)
           /\ DOMAIN Append(s, e) = 1..(Len(s) + 1)
           /\ \A i \in 1..Len(s) : Append(s, e)[i] = s[i]
           /\ Append(s, e)[Len(s) + 1] = e
OBVIOUS

\* The tail of a sequence holds its elements but the first, in their order.
LEMMA TailFacts ==
    ASSUME NEW S, NEW s \in Seq(S), s # <<>>
    PROVE  /\ Tail(s) \in Seq(S) /\ Head(s) \in S /\ Head(s) = s[1]
           /\ Len(s) \in Nat /\ Len(s) > 0 /\ DOMAIN s = 1..Len(s)
           /\ DOMAIN Tail(s) = 1..(Len(s) - 1)
           /\ \A i \in 1..(Len(s) - 1) : Tail(s)[i] = s[i + 1]
OBVIOUS

\* Appending an element adds it to the range, and a new one keeps the sequence
\* injective.
LEMMA RangeFacts ==
    ASSUME NEW S, NEW s \in Seq(S), NEW e \in S
    PROVE  /\ Range(Append(s, e)) = Range(s) \cup {e}
           /\ \A i \in DOMAIN s : s[i] \in Range(s)
           /\ IsInjective(s) /\ e \notin Range(s) => IsInjective(Append(s, e))
<1>1. /\ \A i \in DOMAIN s : s[i] \in Range(s)
      /\ \A x \in Range(s) : \E i \in DOMAIN s : s[i] = x
      /\ \A i \in DOMAIN Append(s, e) : Append(s, e)[i] \in Range(Append(s, e))
      /\ \A x \in Range(Append(s, e)) : \E i \in DOMAIN Append(s, e) : Append(s, e)[i] = x
  BY DEF Range
<1>2. /\ Len(s) \in Nat /\ DOMAIN s = 1..Len(s)
      /\ DOMAIN Append(s, e) = 1..(Len(s) + 1)
      /\ \A i \in 1..Len(s) : Append(s, e)[i] = s[i]
      /\ Append(s, e)[Len(s) + 1] = e
  BY AppendFacts
<1>3. Range(Append(s, e)) = Range(s) \cup {e}
  <2>1. ASSUME NEW x \in Range(Append(s, e))
        PROVE  x \in Range(s) \cup {e}
    <3>1. PICK i \in 1..(Len(s) + 1) : Append(s, e)[i] = x
      BY <1>1, <1>2
    <3>2. CASE i = Len(s) + 1
      BY <1>2, <3>1, <3>2
    <3>3. CASE i \in 1..Len(s)
      BY <1>1, <1>2, <3>1, <3>3
    <3> QED
      BY <1>2, <3>2, <3>3
  <2>2. ASSUME NEW x \in Range(s)
        PROVE  x \in Range(Append(s, e))
    <3>1. PICK i \in 1..Len(s) : s[i] = x
      BY <1>1, <1>2
    <3>2. i \in DOMAIN Append(s, e)
      BY <1>2
    <3> QED
      BY <1>1, <1>2, <3>1, <3>2
  <2>3. e \in Range(Append(s, e))
    <3>1. Len(s) + 1 \in DOMAIN Append(s, e)
      BY <1>2
    <3> QED
      BY <1>1, <1>2, <3>1
  <2> QED
    BY <2>1, <2>2, <2>3
<1>4. ASSUME IsInjective(s), e \notin Range(s)
      PROVE  IsInjective(Append(s, e))
  <2> SUFFICES ASSUME NEW i \in 1..(Len(s) + 1), NEW j \in 1..(Len(s) + 1),
                      Append(s, e)[i] = Append(s, e)[j]
               PROVE  i = j
    BY <1>2 DEF IsInjective
  <2>1. CASE i \in 1..Len(s) /\ j \in 1..Len(s)
    BY <1>2, <1>4, <2>1 DEF IsInjective
  <2>2. CASE i = Len(s) + 1 /\ j \in 1..Len(s)
    BY <1>1, <1>2, <1>4, <2>2
  <2>3. CASE j = Len(s) + 1 /\ i \in 1..Len(s)
    BY <1>1, <1>2, <1>4, <2>3
  <2> QED
    BY <1>2, <2>1, <2>2, <2>3
<1> QED
  BY <1>1, <1>3, <1>4

\* A set of numbers has a least element.
LEMMA Minimum ==
    ASSUME NEW T \in SUBSET Nat, T # {}
    PROVE  \E x \in T : \A y \in T : x <= y
<1> DEFINE R == {ss \in Nat \X Nat : ss[1] < ss[2]}
<1>1. R = OpToRel(<, Nat)
  BY DEF OpToRel
<1>2. IsWellFoundedOn(R, Nat)
  BY <1>1, NatLessThanWellFounded
<1> HIDE DEF R
<1>3. PICK x \in T : \A y \in T : ~ (<<y, x>> \in R)
  BY <1>2, WFMin
<1>4. \A m, n \in Nat : m < n => <<m, n>> \in R
  BY DEF R
<1>5. ASSUME NEW y \in T
      PROVE  x <= y
  <2>1. x \in Nat /\ y \in Nat
    OBVIOUS
  <2>2. ~ (y < x)
    BY <1>3, <1>4, <2>1
  <2> QED
    BY <2>1, <2>2
<1> QED
  BY <1>5

\* A bounded set of numbers has a greatest element.
LEMMA Maximum ==
    ASSUME NEW n \in Nat, NEW T \in SUBSET (0..n), T # {}
    PROVE  \E x \in T : \A y \in T : y <= x
<1> DEFINE D == {n - y : y \in T}
<1>1. D \in SUBSET Nat /\ D # {}
  <2>1. \A y \in T : n - y \in Nat
    OBVIOUS
  <2>2. PICK y \in T : TRUE
    OBVIOUS
  <2>3. n - y \in D
    OBVIOUS
  <2> QED
    BY <2>1, <2>3
<1>2. PICK d \in D : \A e \in D : d <= e
  BY <1>1, Minimum
<1>3. PICK x \in T : d = n - x
  OBVIOUS
<1>4. \A y \in T : n - y \in D
  OBVIOUS
<1> HIDE DEF D
<1> QED
  BY <1>2, <1>3, <1>4

-----------------------------------------------------------------------------
(* The line for the lock *)

\* First come first served: the writes wait in the order they were asked for, and
\* those that got past the lock were asked for before those that wait.
QueueInv ==
    /\ \A i, j \in DOMAIN queue :
          i < j /\ queue[i].op = "write" /\ queue[j].op = "write"
              => queue[i].arg < queue[j].arg
    /\ \A i \in DOMAIN queue : queue[i].op = "write" =>
          \A w \in Range(table) \cup late : w < queue[i].arg

\* A write that gets the lock is a new one, later than all before it.
LEMMA HeadFacts ==
    ASSUME TypeOK, QueueInv, queue # <<>>
    PROVE  /\ Head(queue) \in Call
           /\ Head(queue).op = "write" =>
                 /\ Head(queue).arg \in DOMAIN writes
                 /\ \A w \in Range(table) \cup late : w < Head(queue).arg
                 /\ Head(queue).arg \notin Range(table) \cup late
<1>1. /\ Head(queue) = queue[1] /\ 1 \in DOMAIN queue /\ Head(queue) \in Call
  BY TailFacts DEF TypeOK
<1>2. CASE Head(queue).op = "write"
  <2>1. /\ Head(queue).arg \in DOMAIN writes
        /\ \A w \in Range(table) \cup late : w < Head(queue).arg
    BY <1>1, <1>2 DEF TypeOK, QueueInv
  <2>2. Head(queue).arg \in Nat
    BY <1>1, <1>2 DEF Call
  <2> QED
    BY <1>1, <2>1, <2>2
<1> QED
  BY <1>1, <1>2

\* The line behind the call that is over keeps its order; at most that call's write
\* has got past the lock.
LEMMA TailQueue ==
    ASSUME TypeOK, QueueInv, queue # <<>>, queue' = Tail(queue), writes' = writes,
           Range(table)' \cup late' \subseteq Range(table) \cup late
               \cup (IF Head(queue).op = "write" THEN {Head(queue).arg} ELSE {})
    PROVE  /\ queue' \in Seq(Call)
           /\ \A i \in DOMAIN queue' :
                 queue'[i].op = "write" => queue'[i].arg \in DOMAIN writes'
           /\ QueueInv'
<1>1. /\ Tail(queue) \in Seq(Call) /\ Head(queue) = queue[1]
      /\ Len(queue) \in Nat /\ Len(queue) > 0 /\ DOMAIN queue = 1..Len(queue)
      /\ DOMAIN Tail(queue) = 1..(Len(queue) - 1)
      /\ \A i \in 1..(Len(queue) - 1) : Tail(queue)[i] = queue[i + 1]
  BY TailFacts DEF TypeOK
<1>2. \A i \in DOMAIN queue' : i + 1 \in DOMAIN queue /\ queue'[i] = queue[i + 1] /\ 1 < i + 1
  BY <1>1
<1>3. \A i \in DOMAIN queue' :
         queue'[i].op = "write" => queue'[i].arg \in DOMAIN writes'
  BY <1>2 DEF TypeOK
<1>4. ASSUME NEW i \in DOMAIN queue', NEW j \in DOMAIN queue', i < j,
             queue'[i].op = "write", queue'[j].op = "write"
      PROVE  queue'[i].arg < queue'[j].arg
  <2>1. i + 1 < j + 1
    BY <1>1, <1>4
  <2> QED
    BY <1>2, <1>4, <2>1 DEF QueueInv
<1>5. ASSUME NEW i \in DOMAIN queue', queue'[i].op = "write",
             NEW w \in Range(table)' \cup late'
      PROVE  w < queue'[i].arg
  <2>1. CASE w \in Range(table) \cup late
    BY <1>2, <1>5, <2>1 DEF QueueInv
  <2>2. CASE Head(queue).op = "write" /\ w = Head(queue).arg
    BY <1>1, <1>2, <1>5, <2>2 DEF QueueInv
  <2> QED
    BY <2>1, <2>2
<1> QED
  BY <1>1, <1>3, <1>4, <1>5 DEF QueueInv

-----------------------------------------------------------------------------
(* What FINAL reads *)

Rows(k) == {i \in DOMAIN table : writes[table[i]].key = k}

\* The row FINAL reads is the one that no other row of the key beats.
Beats(j, i) ==
    \/ writes[table[j]].rev > writes[table[i]].rev
    \/ writes[table[j]].rev = writes[table[i]].rev /\ j > i

\* Rows of the table are writes, with their revisions in bounds.
LEMMA RowFacts ==
    ASSUME TypeOK
    PROVE  /\ Len(table) \in Nat /\ DOMAIN table = 1..Len(table)
           /\ Len(writes) \in Nat /\ DOMAIN writes = 1..Len(writes)
           /\ \A w \in DOMAIN writes : writes[w].key \in Keys /\ writes[w].rev \in 0..MaxTime
           /\ \A i \in DOMAIN table : table[i] \in DOMAIN writes /\ table[i] \in Range(table)
           /\ \A w \in Range(table) : w \in DOMAIN writes /\ \E i \in DOMAIN table : table[i] = w
<1>1. /\ writes \in Seq([key : Keys, rev : 0..MaxTime]) /\ table \in Seq(DOMAIN writes)
  BY DEF TypeOK
<1>2. /\ Len(table) \in Nat /\ DOMAIN table = 1..Len(table)
      /\ Len(writes) \in Nat /\ DOMAIN writes = 1..Len(writes)
      /\ \A w \in DOMAIN writes : writes[w] \in [key : Keys, rev : 0..MaxTime]
      /\ \A i \in DOMAIN table : table[i] \in DOMAIN writes
  BY <1>1, SeqFacts
<1> QED
  BY <1>2 DEF Range

\* An unbeaten row is the one FINAL reads.
LEMMA CurrentIs ==
    ASSUME TypeOK, NEW k, NEW i \in Rows(k), \A j \in Rows(k) : ~ Beats(j, i)
    PROVE  Current(k) = table[i]
<1> DEFINE best == {m \in Rows(k) :
                      \A j \in Rows(k) : writes[table[j]].rev <= writes[table[m]].rev}
<1>1. \A m \in Rows(k) : m \in Nat /\ writes[table[m]].rev \in Nat
  BY RowFacts, StoreAssumption DEF Rows
<1>2. i \in best /\ \A j \in best : j <= i
  BY <1>1 DEF Beats
<1>3. Current(k) = table[CHOOSE m \in best : \A j \in best : j <= m]
  BY DEF Current, Rows
<1>4. \A m \in best : m \in Nat
  BY <1>1
<1> HIDE DEF best
<1>5. \A m \in best : (\A j \in best : j <= m) => m = i
  BY <1>2, <1>4
<1> QED
  BY <1>2, <1>3, <1>5

\* A key with rows has an unbeaten one.
LEMMA UnbeatenExists ==
    ASSUME TypeOK, NEW k, Rows(k) # {}
    PROVE  \E i \in Rows(k) : \A j \in Rows(k) : ~ Beats(j, i)
<1> DEFINE revs == {writes[table[m]].rev : m \in Rows(k)}
<1>1. \A m \in Rows(k) : m \in 0..Len(table) /\ writes[table[m]].rev \in 0..MaxTime
  BY RowFacts DEF Rows
<1>2. revs \in SUBSET (0..MaxTime) /\ revs # {} /\ MaxTime \in Nat
  BY <1>1, StoreAssumption
<1>3. PICK r \in revs : \A s \in revs : s <= r
  BY <1>2, Maximum
<1>4. PICK m \in Rows(k) : r = writes[table[m]].rev
  OBVIOUS
<1>5. \A j \in Rows(k) : writes[table[j]].rev <= r
  BY <1>3
<1> HIDE DEF revs
<1> DEFINE best == {j \in Rows(k) : writes[table[j]].rev = r}
<1>6. best \in SUBSET (0..Len(table)) /\ best # {} /\ Len(table) \in Nat
  BY <1>1, <1>4, RowFacts
<1>7. PICK i \in best : \A j \in best : j <= i
  BY <1>6, Maximum
<1>8. ASSUME NEW j \in Rows(k)
      PROVE  ~ Beats(j, i)
  <2>1. writes[table[j]].rev <= r /\ writes[table[i]].rev = r /\ i \in Rows(k)
    BY <1>5, <1>7, <1>8
  <2>2. writes[table[j]].rev = r => j <= i
    BY <1>7, <1>8
  <2>3. r \in Nat /\ writes[table[j]].rev \in Nat /\ i \in Nat /\ j \in Nat
    BY <1>1, <1>4, <2>1, StoreAssumption
  <2> QED
    BY <2>1, <2>2, <2>3 DEF Beats
<1> QED
  BY <1>7, <1>8

\* FINAL reads an unbeaten row of the key, or finds none.
LEMMA CurrentFacts ==
    ASSUME TypeOK, NEW k
    PROVE  /\ Rows(k) = {} => Current(k) = 0
           /\ Rows(k) # {} => \E i \in Rows(k) :
                 Current(k) = table[i] /\ \A j \in Rows(k) : ~ Beats(j, i)
<1>1. Rows(k) = {} => Current(k) = 0
  BY DEF Current, Rows
<1>2. ASSUME Rows(k) # {}
      PROVE  \E i \in Rows(k) : Current(k) = table[i] /\ \A j \in Rows(k) : ~ Beats(j, i)
  BY <1>2, CurrentIs, UnbeatenExists
<1> QED
  BY <1>1, <1>2

LEMMA CurrentType ==
    ASSUME TypeOK, NEW k
    PROVE  Current(k) \in {0} \cup DOMAIN writes
BY CurrentFacts, RowFacts DEF Rows

\* No write is at two places, and none overtakes another while it waits.
LEMMA NextInv == TypeOK /\ QueueInv /\ [Next]_vars => TypeOK' /\ QueueInv'
<1> SUFFICES ASSUME TypeOK, QueueInv, [Next]_vars
             PROVE  TypeOK' /\ QueueInv'
  OBVIOUS
<1>1. ASSUME NEW k \in Keys, NEW t \in 0..MaxTime, Upsert(k, t)
      PROVE  TypeOK' /\ QueueInv'
  <2> DEFINE n == Len(writes) + 1
             row == [key |-> k, rev |-> t]
  <2>1. /\ writes \in Seq([key : Keys, rev : 0..MaxTime])
        /\ row \in [key : Keys, rev : 0..MaxTime]
        /\ queue \in Seq(Call) /\ WriteCall(n) \in Call
        /\ WriteCall(n).op = "write" /\ WriteCall(n).arg = n
    BY AppendFacts DEF TypeOK, Call, WriteCall
  <2>2. writes' = Append(writes, row) /\ queue' = Append(queue, WriteCall(n))
    BY <1>1 DEF Upsert
  <2> HIDE DEF row
  <2>3. /\ writes' \in Seq([key : Keys, rev : 0..MaxTime])
        /\ Len(writes) \in Nat /\ DOMAIN writes = 1..Len(writes) /\ DOMAIN writes' = 1..n
    BY <2>1, <2>2, AppendFacts
  <2>4. /\ queue' \in Seq(Call) /\ Len(queue) \in Nat /\ DOMAIN queue = 1..Len(queue)
        /\ DOMAIN queue' = 1..(Len(queue) + 1)
        /\ \A i \in 1..Len(queue) : queue'[i] = queue[i]
        /\ queue'[Len(queue) + 1] = WriteCall(n)
    BY <2>1, <2>2, AppendFacts
  <2>5. \A i \in 1..(Len(queue) + 1) : i \in DOMAIN queue \/ i = Len(queue) + 1
    BY <2>4
  <2>6. ASSUME NEW i \in DOMAIN queue', queue'[i].op = "write"
        PROVE  queue'[i].arg \in DOMAIN writes'
    <3>1. CASE i \in DOMAIN queue
      <4>1. queue'[i].arg \in DOMAIN writes
        BY <2>4, <2>6, <3>1 DEF TypeOK
      <4> QED
        BY <2>3, <4>1
    <3>2. CASE i = Len(queue) + 1
      BY <2>1, <2>3, <2>4, <3>2
    <3> QED
      BY <2>4, <2>5, <3>1, <3>2
  <2>7. table \in Seq(DOMAIN writes')
    <3>1. DOMAIN writes \subseteq DOMAIN writes'
      BY <2>3
    <3> QED
      BY <3>1 DEF TypeOK
  <2>8. wall' \in 0..MaxTime /\ setbacks' \in 0..MaxSetbacks
    BY <1>1, StoreAssumption DEF Upsert, ClockShows, TypeOK
  <2>9. TypeOK'
    BY <1>1, <2>3, <2>4, <2>6, <2>7, <2>8 DEF Upsert, TypeOK
  <2>10. Range(table) \cup late \subseteq DOMAIN writes
    BY DEF TypeOK, Range
  <2>11. ASSUME NEW i \in DOMAIN queue', NEW j \in DOMAIN queue', i < j,
                queue'[i].op = "write", queue'[j].op = "write"
         PROVE  queue'[i].arg < queue'[j].arg
    <3>1. CASE j \in DOMAIN queue
      BY <2>4, <2>11, <3>1 DEF QueueInv
    <3>2. CASE j = Len(queue) + 1
      <4>1. i \in DOMAIN queue
        BY <2>4, <2>11, <3>2
      <4>2. queue'[i].arg \in 1..Len(writes)
        BY <2>3, <2>4, <2>11, <4>1 DEF TypeOK
      <4> QED
        BY <2>1, <2>3, <2>4, <3>2, <4>2
    <3> QED
      BY <2>4, <2>5, <3>1, <3>2
  <2>12. ASSUME NEW i \in DOMAIN queue', queue'[i].op = "write",
                NEW w \in Range(table) \cup late
         PROVE  w < queue'[i].arg
    <3>1. CASE i \in DOMAIN queue
      BY <2>4, <2>12, <3>1 DEF QueueInv
    <3>2. CASE i = Len(queue) + 1
      <4>1. w \in 1..Len(writes)
        BY <2>3, <2>10
      <4> QED
        BY <2>1, <2>3, <2>4, <3>2, <4>1
    <3> QED
      BY <2>4, <2>5, <3>1, <3>2
  <2>13. Range(table)' \cup late' = Range(table) \cup late
    BY <1>1 DEF Upsert
  <2> QED
    BY <2>9, <2>11, <2>12, <2>13 DEF QueueInv
<1>2. ASSUME NEW K \in SUBSET Keys, Get(K)
      PROVE  TypeOK' /\ QueueInv'
  <2>1. queue \in Seq(Call) /\ ReadCall(K) \in Call /\ ReadCall(K).op = "read"
    BY DEF TypeOK, Call, ReadCall
  <2>2. queue' = Append(queue, ReadCall(K))
    BY <1>2 DEF Get
  <2>3. /\ queue' \in Seq(Call) /\ Len(queue) \in Nat /\ DOMAIN queue = 1..Len(queue)
        /\ DOMAIN queue' = 1..(Len(queue) + 1)
        /\ \A i \in 1..Len(queue) : queue'[i] = queue[i]
        /\ queue'[Len(queue) + 1].op = "read"
    BY <2>1, <2>2, AppendFacts
  <2>4. \A i \in DOMAIN queue' : queue'[i].op = "write" =>
           i \in DOMAIN queue /\ queue'[i] = queue[i]
    BY <2>3
  <2>5. TypeOK'
    BY <1>2, <2>3, <2>4 DEF Get, TypeOK
  <2> QED
    BY <1>2, <2>4, <2>5 DEF Get, QueueInv
<1>3. CASE InsertDone
  <2> DEFINE w == Head(queue).arg
  <2>1. /\ queue # <<>> /\ Head(queue).op = "write" /\ table' = Append(table, w)
        /\ queue' = Tail(queue) /\ UNCHANGED <<wall, setbacks, writes, late, answer>>
        /\ acked' = acked \cup {w}
    BY <1>3 DEF InsertDone
  <2>2. w \in DOMAIN writes /\ w \notin Range(table) \cup late
    BY <2>1, HeadFacts
  <2> HIDE DEF w
  <2>3. Range(table') = Range(table) \cup {w} /\ IsInjective(table')
        /\ table' \in Seq(DOMAIN writes)
    BY <2>1, <2>2, RangeFacts, AppendFacts DEF TypeOK
  <2>4. /\ queue' \in Seq(Call) /\ QueueInv'
        /\ \A i \in DOMAIN queue' :
              queue'[i].op = "write" => queue'[i].arg \in DOMAIN writes'
    <3>1. Range(table)' = Range(table) \cup {w}
      BY <2>3 DEF Range
    <3> QED
      BY <2>1, <3>1, TailQueue DEF w
  <2> QED
    BY <2>1, <2>2, <2>3, <2>4 DEF TypeOK
<1>4. CASE SelectDone
  <2>1. /\ queue # <<>> /\ Head(queue).op = "read" /\ queue' = Tail(queue)
        /\ UNCHANGED <<wall, setbacks, writes, table, late, acked>>
        /\ answer' = [k \in Head(queue).arg |-> Current(k)]
    BY <1>4 DEF SelectDone
  <2>2. /\ queue' \in Seq(Call) /\ QueueInv'
        /\ \A i \in DOMAIN queue' :
              queue'[i].op = "write" => queue'[i].arg \in DOMAIN writes'
    BY <2>1, TailQueue DEF Range
  <2>3. Head(queue).arg \in SUBSET Keys
    BY <2>1, HeadFacts DEF Call
  <2>4. \A k \in DOMAIN answer' : k \in Keys /\ answer'[k] \in {0} \cup DOMAIN writes
    BY <2>1, <2>3, CurrentType
  <2> QED
    BY <2>1, <2>2, <2>4 DEF TypeOK
<1>5. CASE CallRaises
  <2>1. /\ queue # <<>> /\ InDoubt /\ queue' = Tail(queue)
        /\ UNCHANGED <<wall, setbacks, writes, table, acked, answer>>
    BY <1>5 DEF CallRaises
  <2>2. late' \subseteq DOMAIN writes \ Range(table)
    BY <2>1, HeadFacts DEF InDoubt, TypeOK
  <2>3. /\ queue' \in Seq(Call) /\ QueueInv'
        /\ \A i \in DOMAIN queue' :
              queue'[i].op = "write" => queue'[i].arg \in DOMAIN writes'
    <3>1. late' \subseteq late \cup
             (IF Head(queue).op = "write" THEN {Head(queue).arg} ELSE {})
      BY <2>1 DEF InDoubt
    <3> QED
      BY <2>1, <3>1, TailQueue DEF Range
  <2> QED
    BY <2>1, <2>2, <2>3 DEF TypeOK
<1>6. CASE Crash
  <2>1. /\ queue # <<>> /\ InDoubt /\ queue' = <<>>
        /\ UNCHANGED <<wall, setbacks, writes, table, acked, answer>>
    BY <1>6 DEF Crash
  <2>2. late' \subseteq DOMAIN writes \ Range(table)
    BY <2>1, HeadFacts DEF InDoubt, TypeOK
  <2>3. queue' \in Seq(Call) /\ DOMAIN queue' = {}
    BY <2>1
  <2> QED
    BY <2>1, <2>2, <2>3 DEF TypeOK, QueueInv
<1>7. ASSUME NEW w \in late, Land(w)
      PROVE  TypeOK' /\ QueueInv'
  <2>1. /\ late' = late \ {w} /\ table' = Append(table, w)
        /\ UNCHANGED <<wall, setbacks, writes, queue, acked, answer>>
    BY <1>7 DEF Land
  <2>2. w \in DOMAIN writes /\ w \notin Range(table)
    BY DEF TypeOK
  <2>3. Range(table') = Range(table) \cup {w} /\ IsInjective(table')
        /\ table' \in Seq(DOMAIN writes)
    BY <2>1, <2>2, RangeFacts, AppendFacts DEF TypeOK
  <2>4. Range(table)' = Range(table) \cup {w}
    BY <2>3 DEF Range
  <2> QED
    BY <2>1, <2>2, <2>3, <2>4 DEF TypeOK, QueueInv
<1>8. CASE UNCHANGED vars
  BY <1>8 DEF vars, TypeOK, QueueInv, Range
<1> QED
  BY <1>1, <1>2, <1>3, <1>4, <1>5, <1>6, <1>7, <1>8 DEF Next

LEMMA Invariant == Spec => [](TypeOK /\ QueueInv)
<1>1. Init => TypeOK /\ QueueInv
  <2> SUFFICES ASSUME Init
               PROVE  TypeOK /\ QueueInv
    OBVIOUS
  <2>1. Range(<<>>) = {} /\ IsInjective(<<>>)
    BY DEF Range, IsInjective
  <2>2. wall \in 0..MaxTime /\ setbacks \in 0..MaxSetbacks
    BY StoreAssumption DEF Init
  <2> QED
    BY <2>1, <2>2 DEF Init, TypeOK, QueueInv
<1> QED
  BY <1>1, NextInv, PTL DEF Spec

\* The store keeps its types, and a write gets into the table at most once.
THEOREM TypeCorrect == Spec => []TypeOK
BY Invariant, PTL

-----------------------------------------------------------------------------
(* How a step changes what FINAL reads, and the trusted write below it *)

\* The trusted writes of a key that are in the table.
Solid(k) == {w \in Range(table) : writes[w].key = k /\ Trusted(w)}

\* What is known of what FINAL reads and of the floor, in one formula, so that it
\* is known of the state after a step as well.
ReadsOK ==
    \A k \in Keys :
        /\ Rows(k) = {} => Current(k) = 0
        /\ \A i \in Rows(k) : (\A j \in Rows(k) : ~ Beats(j, i)) => Current(k) = table[i]
        /\ Solid(k) = {} => Floor(k) = 0
        /\ \A w \in Solid(k) : (\A v \in Solid(k) : v <= w) => Floor(k) = w

LEMMA ReadsAreOK == TypeOK => ReadsOK
<1> SUFFICES ASSUME TypeOK, NEW k \in Keys
             PROVE  /\ Rows(k) = {} => Current(k) = 0
                    /\ \A i \in Rows(k) :
                          (\A j \in Rows(k) : ~ Beats(j, i)) => Current(k) = table[i]
                    /\ Solid(k) = {} => Floor(k) = 0
                    /\ \A w \in Solid(k) : (\A v \in Solid(k) : v <= w) => Floor(k) = w
  BY DEF ReadsOK
<1>1. Rows(k) = {} => Current(k) = 0
  BY CurrentFacts
<1>2. \A i \in Rows(k) : (\A j \in Rows(k) : ~ Beats(j, i)) => Current(k) = table[i]
  BY CurrentIs
<1>3. Floor(k) = IF Solid(k) = {} THEN 0
                 ELSE CHOOSE w \in Solid(k) : \A v \in Solid(k) : v <= w
  BY DEF Floor, Solid
<1>4. \A w \in Solid(k) : w \in Nat
  BY RowFacts DEF Solid
<1>5. ASSUME NEW w \in Solid(k), \A v \in Solid(k) : v <= w
      PROVE  Floor(k) = w
  <2>1. \A x \in Solid(k) : (\A v \in Solid(k) : v <= x) => x = w
    BY <1>4, <1>5
  <2> QED
    BY <1>3, <1>5, <2>1
<1> QED
  BY <1>1, <1>2, <1>3, <1>5

LEMMA NextReadsOK == TypeOK' => ReadsOK'
BY ReadsAreOK, PTL

\* The floor is the latest trusted write of the key in the table.
LEMMA FloorFacts ==
    ASSUME TypeOK, NEW k \in Keys
    PROVE  /\ Floor(k) \in Nat
           /\ Solid(k) = {} => Floor(k) = 0
           /\ Solid(k) # {} => Floor(k) \in Solid(k)
           /\ \A v \in Solid(k) : v <= Floor(k)
<1>1. Solid(k) \in SUBSET (0..Len(writes)) /\ Len(writes) \in Nat
  BY RowFacts DEF Solid
<1>2. CASE Solid(k) = {}
  BY <1>2, ReadsAreOK DEF ReadsOK
<1>3. CASE Solid(k) # {}
  <2>1. PICK w \in Solid(k) : \A v \in Solid(k) : v <= w
    BY <1>1, <1>3, Maximum
  <2>2. Floor(k) = w
    BY <2>1, ReadsAreOK DEF ReadsOK
  <2> QED
    BY <1>1, <1>3, <2>1, <2>2
<1> QED
  BY <1>2, <1>3

\* What FINAL reads is a write of the key, and none in the table has a higher
\* revision.
LEMMA CurrentWrite ==
    ASSUME TypeOK, NEW k \in Keys, Current(k) # 0
    PROVE  /\ Current(k) \in Range(table) /\ writes[Current(k)].key = k
           /\ \A v \in Range(table) : writes[v].key = k
                 => writes[v].rev <= writes[Current(k)].rev
<1>1. Rows(k) # {}
  BY CurrentFacts
<1>2. PICK i \in Rows(k) : Current(k) = table[i] /\ \A j \in Rows(k) : ~ Beats(j, i)
  BY <1>1, CurrentFacts
<1>3. ASSUME NEW v \in Range(table), writes[v].key = k
      PROVE  writes[v].rev <= writes[Current(k)].rev
  <2>1. PICK j \in DOMAIN table : table[j] = v
    BY RowFacts
  <2>2. j \in Rows(k) /\ i \in DOMAIN table
    BY <1>3, <2>1 DEF Rows
  <2>3. writes[table[j]].rev \in Nat /\ writes[table[i]].rev \in Nat
    BY <2>2, RowFacts, StoreAssumption
  <2> QED
    BY <1>2, <2>1, <2>2, <2>3 DEF Beats
<1> QED
  BY <1>2, <1>3, RowFacts DEF Rows

\* A key that has a row in the table is read.
LEMMA CurrentShown ==
    ASSUME TypeOK, NEW w \in Range(table)
    PROVE  /\ writes[w].key \in Keys /\ Current(writes[w].key) \in Range(table)
           /\ Current(writes[w].key) # 0
<1>1. PICK i \in DOMAIN table : table[i] = w
  BY RowFacts
<1>2. i \in Rows(writes[w].key)
  BY <1>1 DEF Rows
<1>3. PICK m \in Rows(writes[w].key) : Current(writes[w].key) = table[m]
  BY <1>2, CurrentFacts
<1> QED
  BY <1>3, RowFacts DEF Rows

\* An upsert that waits changes nothing that is read.
LEMMA IssueEffect ==
    ASSUME TypeOK, TypeOK', table' = table,
           NEW row \in [key : Keys, rev : 0..MaxTime], writes' = Append(writes, row)
    PROVE  /\ \A w \in DOMAIN writes : Trusted(w)' <=> Trusted(w)
           /\ \A k \in Keys : Current(k)' = Current(k) /\ Floor(k)' = Floor(k)
<1>1. /\ Len(writes) \in Nat /\ DOMAIN writes = 1..Len(writes)
      /\ DOMAIN writes' = 1..(Len(writes) + 1)
      /\ \A w \in DOMAIN writes : writes'[w] = writes[w]
  <2>1. writes \in Seq([key : Keys, rev : 0..MaxTime])
    BY DEF TypeOK
  <2> QED
    BY <2>1, AppendFacts
<1>2. ASSUME NEW w \in DOMAIN writes
      PROVE  Trusted(w)' <=> Trusted(w)
  <2>1. \A v \in 1..(w - 1) : v \in DOMAIN writes /\ writes'[v] = writes[v]
    BY <1>1
  <2> QED
    BY <1>1, <2>1 DEF Trusted
<1>3. ASSUME NEW k \in Keys
      PROVE  Current(k)' = Current(k)
  <2>1. Rows(k)' = Rows(k)
    BY <1>1, RowFacts DEF Rows
  <2>2. \A i, j \in Rows(k) : Beats(j, i)' <=> Beats(j, i)
    BY <1>1, RowFacts DEF Rows, Beats
  <2>3. CASE Rows(k) = {}
    BY <2>1, <2>3, ReadsAreOK, NextReadsOK DEF ReadsOK
  <2>4. CASE Rows(k) # {}
    <3>1. PICK i \in Rows(k) : \A j \in Rows(k) : ~ Beats(j, i)
      BY <2>4, UnbeatenExists
    <3>2. Current(k) = table[i]
      BY <3>1, ReadsAreOK DEF ReadsOK
    <3>3. i \in Rows(k)' /\ \A j \in Rows(k)' : ~ Beats(j, i)'
      BY <2>1, <2>2, <3>1
    <3>4. Current(k)' = table'[i]
      BY <3>3, NextReadsOK DEF ReadsOK
    <3> QED
      BY <3>2, <3>4
  <2> QED
    BY <2>3, <2>4
<1>4. ASSUME NEW k \in Keys
      PROVE  Floor(k)' = Floor(k)
  <2>1. \A w \in Range(table) : w \in DOMAIN writes
    BY RowFacts
  <2>2. Solid(k)' = Solid(k)
    BY <1>1, <1>2, <2>1 DEF Solid, Range
  <2>3. CASE Solid(k) = {}
    BY <2>2, <2>3, ReadsAreOK, NextReadsOK DEF ReadsOK
  <2>4. CASE Solid(k) # {}
    <3>1. Floor(k) \in Solid(k)' /\ \A v \in Solid(k)' : v <= Floor(k)
      BY <2>2, <2>4, FloorFacts
    <3> QED
      BY <3>1, NextReadsOK DEF ReadsOK
  <2> QED
    BY <2>3, <2>4
<1> QED
  BY <1>2, <1>3, <1>4

\* A row that is inserted is read unless a row of a higher revision is, and it
\* raises the floor if it is trusted and above it.
LEMMA InsertEffect ==
    ASSUME TypeOK, TypeOK', NEW w \in DOMAIN writes, w \notin Range(table),
           writes' = writes, table' = Append(table, w)
    PROVE  /\ \A v : Trusted(v)' <=> Trusted(v)
           /\ \A k \in Keys : k # writes[w].key =>
                 Current(k)' = Current(k) /\ Floor(k)' = Floor(k)
           /\ \/ /\ Current(writes[w].key)' = w
                 /\ \A v \in Range(table) : writes[v].key = writes[w].key
                       => writes[v].rev <= writes[w].rev
              \/ /\ Current(writes[w].key)' = Current(writes[w].key)
                 /\ Current(writes[w].key) # 0
                 /\ writes[w].rev < writes[Current(writes[w].key)].rev
           /\ Floor(writes[w].key)' =
                 IF Trusted(w) /\ w > Floor(writes[w].key) THEN w ELSE Floor(writes[w].key)
<1>a. PICK key : key = writes[w].key
  OBVIOUS
<1>b. PICK n : n = Len(table) + 1
  OBVIOUS
<1>1. /\ Len(table) \in Nat /\ DOMAIN table = 1..Len(table)
      /\ DOMAIN table' = 1..n /\ table'[n] = w
      /\ \A i \in DOMAIN table : table'[i] = table[i]
      /\ Range(table)' = Range(table) \cup {w}
  <2>1. table \in Seq(DOMAIN writes)
    BY DEF TypeOK
  <2>2. Range(table') = Range(table) \cup {w}
    BY <2>1, RangeFacts
  <2>3. Range(table)' = Range(table')
    BY DEF Range
  <2> QED
    BY <1>b, <2>1, <2>2, <2>3, AppendFacts
<1>2. \A v : Trusted(v)' <=> Trusted(v)
  BY DEF Trusted
<1>3. \A k : Rows(k)' = IF k = key THEN Rows(k) \cup {n} ELSE Rows(k)
  <2> SUFFICES ASSUME NEW k
               PROVE  Rows(k)' = IF k = key THEN Rows(k) \cup {n} ELSE Rows(k)
    OBVIOUS
  <2>1. \A i \in DOMAIN table' : i \in DOMAIN table \/ i = n
    BY <1>1, <1>b
  <2>2. n \in DOMAIN table' /\ n \notin DOMAIN table /\ DOMAIN table \subseteq DOMAIN table'
    BY <1>1, <1>b
  <2> QED
    BY <1>1, <1>a, <2>1, <2>2 DEF Rows
<1>4. \A k : \A i, j \in Rows(k) : Beats(j, i)' <=> Beats(j, i)
  BY <1>1 DEF Rows, Beats
<1>5. key \in Keys /\ writes[w].rev \in Nat
  BY <1>a, RowFacts, StoreAssumption
<1>6. \A k : \A i \in Rows(k) : i < n /\ i \in DOMAIN table /\ writes[table[i]].rev \in Nat
  BY <1>1, <1>b, RowFacts, StoreAssumption DEF Rows
<1>7. ASSUME NEW k \in Keys, k # key
      PROVE  Current(k)' = Current(k)
  <2>1. Rows(k)' = Rows(k)
    BY <1>3, <1>7
  <2>2. CASE Rows(k) = {}
    BY <2>1, <2>2, ReadsAreOK, NextReadsOK DEF ReadsOK
  <2>3. CASE Rows(k) # {}
    <3>1. PICK i \in Rows(k) : \A j \in Rows(k) : ~ Beats(j, i)
      BY <2>3, UnbeatenExists
    <3>2. Current(k) = table[i]
      BY <3>1, ReadsAreOK DEF ReadsOK
    <3>3. i \in Rows(k)' /\ \A j \in Rows(k)' : ~ Beats(j, i)'
      BY <1>4, <2>1, <3>1
    <3>4. Current(k)' = table'[i]
      BY <3>3, NextReadsOK DEF ReadsOK
    <3> QED
      BY <1>1, <1>6, <3>1, <3>2, <3>4
  <2> QED
    BY <2>2, <2>3
<1>8. ASSUME \A i \in Rows(key) : writes[table[i]].rev <= writes[w].rev
      PROVE  Current(key)' = w
  <2>1. n \in Rows(key)'
    BY <1>3
  <2>2. ASSUME NEW j \in Rows(key)'
        PROVE  ~ Beats(j, n)'
    <3>1. CASE j = n
      BY <1>1, <1>5, <1>a, <1>b, <3>1 DEF Beats
    <3>2. CASE j \in Rows(key)
      BY <1>1, <1>5, <1>6, <1>8, <1>a, <1>b, <3>2 DEF Beats
    <3> QED
      BY <1>3, <2>2, <3>1, <3>2
  <2>3. Current(key)' = table'[n]
    BY <1>5, <2>1, <2>2, NextReadsOK DEF ReadsOK
  <2> QED
    BY <1>1, <2>3
<1>9. ASSUME NEW i \in Rows(key), writes[table[i]].rev > writes[w].rev
      PROVE  /\ Current(key)' = Current(key) /\ Current(key) # 0
             /\ writes[w].rev < writes[Current(key)].rev
  <2>1. PICK m \in Rows(key) : \A j \in Rows(key) : ~ Beats(j, m)
    BY UnbeatenExists
  <2>2. Current(key) = table[m]
    BY <1>5, <2>1, ReadsAreOK DEF ReadsOK
  <2>3. writes[w].rev < writes[table[m]].rev
    <3>1. ~ Beats(i, m)
      BY <2>1
    <3>2. writes[table[i]].rev \in Nat /\ writes[table[m]].rev \in Nat
      BY <1>6
    <3> QED
      BY <1>5, <1>9, <3>1, <3>2 DEF Beats
  <2>4. m \in Rows(key)'
    BY <1>3
  <2>5. ASSUME NEW j \in Rows(key)'
        PROVE  ~ Beats(j, m)'
    <3>1. CASE j = n
      BY <1>1, <1>5, <1>6, <1>a, <1>b, <2>3, <3>1 DEF Beats
    <3>2. CASE j \in Rows(key)
      BY <1>4, <2>1, <3>2
    <3> QED
      BY <1>3, <2>5, <3>1, <3>2
  <2>6. Current(key)' = table'[m]
    BY <1>5, <2>4, <2>5, NextReadsOK DEF ReadsOK
  <2>7. table'[m] = table[m] /\ table[m] # 0
    BY <1>1, <1>6, RowFacts
  <2> QED
    BY <2>2, <2>3, <2>6, <2>7
<1>10. \A v \in Range(table) : writes[v].key = key =>
          \E i \in Rows(key) : table[i] = v
  BY RowFacts DEF Rows
<1>11. \/ /\ Current(key)' = w
          /\ \A v \in Range(table) : writes[v].key = key => writes[v].rev <= writes[w].rev
       \/ /\ Current(key)' = Current(key) /\ Current(key) # 0
          /\ writes[w].rev < writes[Current(key)].rev
  <2>1. CASE \A i \in Rows(key) : writes[table[i]].rev <= writes[w].rev
    BY <1>8, <1>10, <2>1
  <2>2. CASE \E i \in Rows(key) : ~ (writes[table[i]].rev <= writes[w].rev)
    BY <1>5, <1>6, <1>9, <2>2
  <2> QED
    BY <2>1, <2>2
<1>12. \A k \in Keys : Solid(k)' =
          IF k = key /\ Trusted(w) THEN Solid(k) \cup {w} ELSE Solid(k)
  BY <1>1, <1>2, <1>a DEF Solid
<1>13. ASSUME NEW k \in Keys
       PROVE  Floor(k)' = IF k = key /\ Trusted(w) /\ w > Floor(k) THEN w ELSE Floor(k)
  <2>1. w \in Nat /\ Floor(k) \in Nat /\ w > 0
    BY FloorFacts, RowFacts
  <2>2. CASE Solid(k)' = {}
    BY <1>12, <2>1, <2>2, FloorFacts, NextReadsOK DEF ReadsOK
  <2>3. CASE Solid(k)' # {} /\ k = key /\ Trusted(w) /\ w > Floor(k)
    <3>1. w \in Solid(k)' /\ \A v \in Solid(k) : v <= Floor(k) /\ v \in Nat
      BY <1>12, <2>3, FloorFacts, RowFacts DEF Solid
    <3>2. \A v \in Solid(k)' : v <= w
      BY <1>12, <2>1, <2>3, <3>1
    <3> QED
      BY <2>3, <3>1, <3>2, NextReadsOK DEF ReadsOK
  <2>4. CASE Solid(k)' # {} /\ ~ (k = key /\ Trusted(w) /\ w > Floor(k))
    <3>1. Solid(k) # {}
      BY <1>12, <2>1, <2>4, FloorFacts
    <3>2. Floor(k) \in Solid(k)'
      BY <1>12, <3>1, FloorFacts
    <3>3. \A v \in Solid(k)' : v <= Floor(k)
      BY <1>12, <2>1, <2>4, FloorFacts
    <3> QED
      BY <2>4, <3>2, <3>3, NextReadsOK DEF ReadsOK
  <2> QED
    BY <2>2, <2>3, <2>4
<1> QED
  BY <1>2, <1>5, <1>7, <1>11, <1>13, <1>a DEF Trusted

-----------------------------------------------------------------------------
(* The refinement *)

\* The abstract state that VersionedStore stands for.
Issued == [w \in DOMAIN writes |-> [key |-> writes[w].key, trusted |-> Trusted(w)]]
Shown == [k \in Keys |-> Current(k)]
Floors == [k \in Keys |-> Floor(k)]

\* A sequence given by its elements.
LEMMA SeqFromFunction ==
    ASSUME NEW S, NEW n \in Nat, NEW f, f = [i \in 1..n |-> f[i]],
           \A i \in 1..n : f[i] \in S
    PROVE  f \in Seq(S) /\ Len(f) = n
OBVIOUS

\* Two sequences of the same elements are the same.
LEMMA SeqSame ==
    ASSUME NEW S, NEW f \in Seq(S), NEW g \in Seq(S), Len(f) = Len(g),
           \A i \in 1..Len(f) : f[i] = g[i]
    PROVE  f = g
OBVIOUS

\* What is known of the writes asked for, before a step and after it.
IssuedOK ==
    /\ Issued \in Seq([key : Keys, trusted : BOOLEAN]) /\ Len(Issued) = Len(writes)
    /\ DOMAIN Issued = DOMAIN writes
    /\ \A w \in DOMAIN writes :
          Issued[w] = [key |-> writes[w].key, trusted |-> Trusted(w)]

LEMMA IssuedIsOK == TypeOK => IssuedOK
<1> SUFFICES ASSUME TypeOK
             PROVE  IssuedOK
  OBVIOUS
<1>1. /\ DOMAIN Issued = DOMAIN writes
      /\ \A w \in DOMAIN writes :
            Issued[w] = [key |-> writes[w].key, trusted |-> Trusted(w)]
  BY DEF Issued
<1>2. Len(writes) \in Nat /\ DOMAIN writes = 1..Len(writes)
  BY RowFacts
<1>3. ASSUME NEW w \in 1..Len(writes)
      PROVE  Issued[w] \in [key : Keys, trusted : BOOLEAN]
  <2>1. Trusted(w) \in BOOLEAN
    BY DEF Trusted
  <2>2. writes[w].key \in Keys
    BY <1>2, RowFacts
  <2>3. Issued[w] = [key |-> writes[w].key, trusted |-> Trusted(w)]
    BY <1>1, <1>2
  <2> QED
    BY <2>1, <2>2, <2>3
<1>4. Issued = [w \in 1..Len(writes) |-> Issued[w]]
  BY <1>1, <1>2 DEF Issued
<1>5. Issued \in Seq([key : Keys, trusted : BOOLEAN]) /\ Len(Issued) = Len(writes)
  BY <1>2, <1>3, <1>4, SeqFromFunction
<1> QED
  BY <1>1, <1>5 DEF IssuedOK

LEMMA NextIssuedOK == TypeOK' => IssuedOK'
BY IssuedIsOK, PTL

\* Writing the row before waiting for the lock issues the write.
LEMMA UpsertIssues ==
    ASSUME TypeOK, TypeOK', NEW k \in Keys, NEW t \in 0..MaxTime, Upsert(k, t)
    PROVE  \E trusted \in BOOLEAN : Store!Issue(k, trusted)
<1>1. PICK row : row = [key |-> k, rev |-> t]
  OBVIOUS
<1>2. PICK n : n = Len(writes) + 1
  OBVIOUS
<1>3. /\ row \in [key : Keys, rev : 0..MaxTime] /\ row.key = k
      /\ writes' = Append(writes, row)
      /\ UNCHANGED <<table, acked, answer>>
  BY <1>1 DEF Upsert
<1>a. PICK trusted \in BOOLEAN : trusted <=> Trusted(n)'
  OBVIOUS
<1>b. trusted = Trusted(n)'
  BY <1>a DEF Trusted
<1>4. PICK new : new = [key |-> k, trusted |-> trusted]
  OBVIOUS
<1>5. new \in [key : Keys, trusted : BOOLEAN]
  BY <1>4
<1>6. /\ Len(writes) \in Nat /\ DOMAIN writes = 1..Len(writes)
      /\ Len(writes') = n /\ DOMAIN writes' = 1..n
      /\ \A w \in DOMAIN writes : writes'[w] = writes[w]
      /\ writes'[n] = row
  BY <1>2, <1>3, AppendFacts DEF TypeOK
<1>7. /\ Issued' \in Seq([key : Keys, trusted : BOOLEAN]) /\ Len(Issued') = n
      /\ \A w \in 1..n : Issued'[w] = [key |-> writes'[w].key, trusted |-> Trusted(w)']
  BY <1>6, NextIssuedOK DEF IssuedOK
<1>8. /\ Append(Issued, new) \in Seq([key : Keys, trusted : BOOLEAN])
      /\ Len(Append(Issued, new)) = n
      /\ \A w \in DOMAIN writes : Append(Issued, new)[w] = Issued[w]
      /\ Append(Issued, new)[n] = new
  BY <1>2, <1>5, <1>6, IssuedIsOK, AppendFacts DEF IssuedOK
<1>9. ASSUME NEW w \in 1..n
      PROVE  Issued'[w] = Append(Issued, new)[w]
  <2>1. CASE w = n
    BY <1>3, <1>4, <1>b, <1>6, <1>7, <1>8, <2>1
  <2>2. CASE w \in DOMAIN writes
    <3>1. Trusted(w)' <=> Trusted(w)
      BY <1>3, <2>2, IssueEffect
    <3>2. Trusted(w)' = Trusted(w)
      BY <3>1 DEF Trusted
    <3>3. Issued[w] = [key |-> writes[w].key, trusted |-> Trusted(w)]
      BY <2>2, IssuedIsOK DEF IssuedOK
    <3>4. Issued'[w] = [key |-> writes'[w].key, trusted |-> Trusted(w)']
      BY <1>7
    <3> QED
      BY <1>6, <1>8, <2>2, <3>2, <3>3, <3>4
  <2>3. w = n \/ w \in DOMAIN writes
    BY <1>2, <1>6
  <2> QED
    BY <2>1, <2>2, <2>3
<1>10. Issued' = Append(Issued, new)
  BY <1>7, <1>8, <1>9, SeqSame
<1>11. \A j \in Keys : Current(j)' = Current(j) /\ Floor(j)' = Floor(j)
  BY <1>3, IssueEffect
<1>12. Shown' = Shown /\ Floors' = Floors
  BY <1>11 DEF Shown, Floors
<1>13. Store!Issue(k, trusted)
  BY <1>3, <1>4, <1>10, <1>12 DEF Store!Issue, Issued, Shown, Floors
<1> QED
  BY <1>13

\* Whatever leaves the writes alone leaves what was asked for alone.
LEMMA IssuedSame ==
    ASSUME writes' = writes
    PROVE  Issued' = Issued
<1>1. \A w : Trusted(w)' = Trusted(w)
  BY DEF Trusted
<1> QED
  BY <1>1 DEF Issued

\* A row inserted for a write takes effect, or is overtaken by a later write of the
\* key that is shown; the row of a trusted write that got the lock takes effect.
LEMMA RowTakesEffect ==
    ASSUME TypeOK, TypeOK', NEW w \in DOMAIN writes, w \notin Range(table),
           writes' = writes, table' = Append(table, w)
    PROVE  /\ Store!Effect(w) \/ Store!NoEffect(w)
           /\ Trusted(w) /\ (\A v \in Range(table) : v < w) => Store!Effect(w)
<1>1. PICK key \in Keys : key = writes[w].key
  BY RowFacts
<1>2. /\ \A k \in Keys : k # key => Current(k)' = Current(k) /\ Floor(k)' = Floor(k)
      /\ \/ /\ Current(key)' = w
            /\ \A v \in Range(table) : writes[v].key = key => writes[v].rev <= writes[w].rev
         \/ /\ Current(key)' = Current(key) /\ Current(key) # 0
            /\ writes[w].rev < writes[Current(key)].rev
      /\ Floor(key)' = IF Trusted(w) /\ w > Floor(key) THEN w ELSE Floor(key)
  <2>1. /\ \A k \in Keys : k # writes[w].key =>
              Current(k)' = Current(k) /\ Floor(k)' = Floor(k)
        /\ \/ /\ Current(writes[w].key)' = w
              /\ \A v \in Range(table) : writes[v].key = writes[w].key
                    => writes[v].rev <= writes[w].rev
           \/ /\ Current(writes[w].key)' = Current(writes[w].key)
              /\ Current(writes[w].key) # 0
              /\ writes[w].rev < writes[Current(writes[w].key)].rev
        /\ Floor(writes[w].key)' =
              IF Trusted(w) /\ w > Floor(writes[w].key) THEN w ELSE Floor(writes[w].key)
    BY InsertEffect
  <2>2. /\ Current(key)' = Current(writes[w].key)' /\ Current(key) = Current(writes[w].key)
        /\ Floor(key)' = Floor(writes[w].key)' /\ Floor(key) = Floor(writes[w].key)
    BY <1>1 DEF Current, Floor
  <2> QED
    BY <1>1, <2>1, <2>2
<1>3. w \in Nat /\ w > 0 /\ Floor(key) \in Nat /\ writes[w].rev \in Nat
  BY <1>1, FloorFacts, RowFacts, StoreAssumption
<1>4. \A v \in Range(table) : v \in Nat /\ v \in DOMAIN writes /\ writes[v].rev \in Nat
  BY RowFacts, StoreAssumption
<1>5. /\ w \in DOMAIN Issued
      /\ Issued[w].key = key /\ Issued[w].trusted = Trusted(w)
  BY <1>1, IssuedIsOK DEF IssuedOK
<1>6. CASE /\ Current(key)' = w
           /\ \A v \in Range(table) : writes[v].key = key => writes[v].rev <= writes[w].rev
  <2>1. w > Floor(key)
    <3>1. CASE Solid(key) = {}
      BY <1>1, <1>3, <3>1, FloorFacts
    <3>2. CASE Solid(key) # {}
      <4>1. /\ Floor(key) \in Range(table) /\ writes[Floor(key)].key = key
            /\ Trusted(Floor(key))
        BY <1>1, <3>2, FloorFacts DEF Solid
      <4>2. ~ (w < Floor(key))
        <5> SUFFICES ASSUME w < Floor(key)
                     PROVE  FALSE
          OBVIOUS
        <5>1. w \in 1..(Floor(key) - 1)
          BY <1>3
        <5>2. writes[w].rev < writes[Floor(key)].rev
          BY <1>1, <4>1, <5>1 DEF Trusted
        <5> QED
          BY <1>3, <1>4, <1>6, <4>1, <5>2
      <4> QED
        BY <1>3, <4>1, <4>2
    <3> QED
      BY <3>1, <3>2
  <2>2. Shown' = [Shown EXCEPT ![key] = w]
    <3>1. \A k \in Keys : Current(k)' = IF k = key THEN w ELSE Current(k)
      BY <1>2, <1>6
    <3> QED
      BY <3>1 DEF Shown
  <2>3. Floors' = IF Trusted(w) THEN [Floors EXCEPT ![key] = w] ELSE Floors
    <3>1. \A k \in Keys : Floor(k)' = IF k = key /\ Trusted(w) THEN w ELSE Floor(k)
      BY <1>2, <2>1
    <3> QED
      BY <3>1 DEF Floors
  <2>4. Floors[key] = Floor(key)
    BY <1>1 DEF Floors
  <2> QED
    BY <1>5, <2>1, <2>2, <2>3, <2>4
    DEF Store!Effect, Store!KeyOf, Issued, Shown, Floors
<1>7. CASE /\ Current(key)' = Current(key) /\ Current(key) # 0
           /\ writes[w].rev < writes[Current(key)].rev
  <2>1. /\ Current(key) \in Range(table) /\ writes[Current(key)].key = key
    BY <1>1, <1>7, CurrentWrite
  <2>2. Trusted(w) => Current(key) > w
    <3> SUFFICES ASSUME Trusted(w), ~ (Current(key) > w)
                 PROVE  FALSE
      OBVIOUS
    <3>1. Current(key) \in 1..(w - 1)
      BY <1>3, <1>4, <2>1, RowFacts
    <3>2. writes[Current(key)].rev < writes[w].rev
      BY <1>1, <2>1, <3>1 DEF Trusted
    <3> QED
      BY <1>3, <1>4, <1>7, <2>1, <3>2
  <2>3. Shown' = Shown
    <3>1. \A k \in Keys : Current(k)' = Current(k)
      BY <1>2, <1>7
    <3> QED
      BY <3>1 DEF Shown
  <2>4. Floors' = IF Trusted(w) /\ w > Floor(key) THEN [Floors EXCEPT ![key] = w] ELSE Floors
    <3>1. \A k \in Keys :
             Floor(k)' = IF k = key /\ Trusted(w) /\ w > Floor(k) THEN w ELSE Floor(k)
      BY <1>2
    <3> QED
      BY <3>1 DEF Floors
  <2>5. Floors[key] = Floor(key) /\ Shown[key] = Current(key)
    BY <1>1 DEF Floors, Shown
  <2>6. Store!NoEffect(w)
    BY <1>5, <2>2, <2>3, <2>4, <2>5
    DEF Store!NoEffect, Store!KeyOf, Issued, Shown, Floors
  <2>7. ~ (Trusted(w) /\ \A v \in Range(table) : v < w)
    BY <1>3, <1>4, <2>1, <2>2
  <2> QED
    BY <2>6, <2>7
<1> QED
  BY <1>2, <1>6, <1>7

\* A step of the versioned table is a step of the store, or none.
LEMMA StepImplements ==
    ASSUME TypeOK, QueueInv, TypeOK', [Next]_vars
    PROVE  [Store!Next]_(Store!vars)
<1>1. ASSUME NEW k \in Keys, NEW t \in 0..MaxTime, Upsert(k, t)
      PROVE  Store!Next
  BY <1>1, UpsertIssues DEF Store!Next
<1>2. CASE InsertDone
  <2>1. PICK w : w = Head(queue).arg
    OBVIOUS
  <2>2. /\ queue # <<>> /\ Head(queue).op = "write" /\ table' = Append(table, w)
        /\ UNCHANGED <<wall, setbacks, writes, late, answer>>
        /\ acked' = acked \cup {w}
    BY <1>2, <2>1 DEF InsertDone
  <2>3. /\ w \in DOMAIN writes /\ w \notin Range(table)
        /\ \A v \in Range(table) : v < w
    BY <2>1, <2>2, HeadFacts
  <2>4. w \notin acked
    BY <2>3 DEF TypeOK
  <2>5. Store!Effect(w) \/ (~ Trusted(w) /\ Store!NoEffect(w))
    BY <2>2, <2>3, RowTakesEffect
  <2>6. Issued[w].trusted = Trusted(w) /\ w \in DOMAIN Issued /\ Issued' = Issued
    BY <2>2, <2>3, IssuedIsOK, IssuedSame DEF IssuedOK
  <2>7. Store!Acknowledge(w)
    BY <2>2, <2>4, <2>5, <2>6 DEF Store!Acknowledge, Issued
  <2> QED
    BY <2>6, <2>7 DEF Store!Next, Store!Writes, Issued
<1>3. CASE SelectDone
  <2>1. PICK K \in SUBSET Keys : K = Head(queue).arg
    BY <1>3, HeadFacts DEF SelectDone, Call
  <2>2. /\ answer' = [k \in K |-> Current(k)]
        /\ UNCHANGED <<wall, setbacks, writes, table, late, acked>>
    BY <1>3, <2>1 DEF SelectDone
  <2>3. answer' = [k \in K |-> Shown[k]]
    BY <2>2 DEF Shown
  <2>4. \A k : Current(k)' = Current(k) /\ Floor(k)' = Floor(k)
    BY <2>2 DEF Current, Floor, Trusted, Range
  <2>5. Shown' = Shown /\ Floors' = Floors /\ Issued' = Issued
    BY <2>2, <2>4, IssuedSame DEF Shown, Floors
  <2>6. Store!Read(K)
    BY <2>2, <2>3, <2>5 DEF Store!Read, Issued, Shown, Floors
  <2> QED
    BY <2>6 DEF Store!Next
<1>4. ASSUME NEW w \in late, Land(w)
      PROVE  Store!Next
  <2>1. /\ table' = Append(table, w)
        /\ UNCHANGED <<wall, setbacks, writes, queue, acked, answer>>
    BY <1>4 DEF Land
  <2>2. w \in DOMAIN writes /\ w \notin Range(table) /\ w \notin acked
    BY DEF TypeOK
  <2>3. Store!Effect(w) \/ Store!NoEffect(w)
    BY <2>1, <2>2, RowTakesEffect
  <2>4. w \in DOMAIN Issued /\ Issued' = Issued
    BY <2>1, <2>2, IssuedIsOK, IssuedSame DEF IssuedOK
  <2>5. Store!Land(w)
    BY <2>1, <2>2, <2>3, <2>4 DEF Store!Land, Issued
  <2> QED
    BY <2>4, <2>5 DEF Store!Next, Store!Writes, Issued
<1>5. CASE (\E K \in SUBSET Keys : Get(K)) \/ CallRaises \/ Crash \/ UNCHANGED vars
  <2>1. UNCHANGED <<writes, table, acked, answer>>
    BY <1>5 DEF Get, CallRaises, Crash, vars
  <2>2. \A k : Current(k)' = Current(k) /\ Floor(k)' = Floor(k)
    BY <2>1 DEF Current, Floor, Trusted, Range
  <2>3. Shown' = Shown /\ Floors' = Floors /\ Issued' = Issued
    BY <2>1, <2>2, IssuedSame DEF Shown, Floors
  <2> QED
    BY <2>1, <2>3 DEF Store!vars, Issued, Shown, Floors
<1>6. (\E k \in Keys : Get({k})) \/ Get(Keys) => \E K \in SUBSET Keys : Get(K)
  <2>1. \A k \in Keys : {k} \in SUBSET Keys
    OBVIOUS
  <2>2. Keys \in SUBSET Keys
    OBVIOUS
  <2> QED
    BY <2>1, <2>2
<1> QED
  BY <1>1, <1>2, <1>3, <1>4, <1>5, <1>6 DEF Next

\* The versioned table starts as the empty store.
LEMMA InitImplements == Init => Store!Init
<1> SUFFICES ASSUME Init
             PROVE  Store!Init
  OBVIOUS
<1>1. writes = <<>> /\ table = <<>> /\ acked = {} /\ answer = [k \in Keys |-> 0]
  BY DEF Init
<1>2. DOMAIN writes = {} /\ DOMAIN table = {} /\ Range(table) = {}
  BY <1>1 DEF Range
<1>3. \A k : Current(k) = 0 /\ Floor(k) = 0
  BY <1>2 DEF Current, Floor
<1>4. Shown = [k \in Keys |-> 0] /\ Floors = [k \in Keys |-> 0]
  BY <1>3 DEF Shown, Floors
<1>5. Issued = <<>>
  BY <1>2 DEF Issued
<1> QED
  BY <1>1, <1>4, <1>5 DEF Store!Init, Issued, Shown, Floors

\* For any keys, writes and set-backs of the clock the versioned rows implement the
\* store that returns the latest value: no write overtakes a trusted one called
\* after it, through the line for the lock, errors, late inserts and crashes.
THEOREM VersionedRowsImplement == Spec => Implements
<1>1. Init => Store!Init
  BY InitImplements
<1>2. TypeOK /\ QueueInv /\ TypeOK' /\ [Next]_vars => [Store!Next]_(Store!vars)
  BY StepImplements
<1> QED
  BY <1>1, <1>2, Invariant, PTL DEF Spec, Implements, Store!Spec

\* A trusted write that returned is read until one called later replaces it.
THEOREM AcknowledgedAreKept == Spec => []AcknowledgedIsKept
<1>1. TypeOK => AcknowledgedIsKept
  <2> SUFFICES ASSUME TypeOK
               PROVE  AcknowledgedIsKept
    OBVIOUS
  <2> SUFFICES ASSUME NEW w \in acked, Trusted(w)
               PROVE  Current(writes[w].key) >= w
    <3>1. \A w \in acked : w \in DOMAIN writes /\ writes[w].key \in Keys
      BY RowFacts DEF TypeOK
    <3> QED
      BY <3>1 DEF AcknowledgedIsKept, Store!AcknowledgedIsKept, Store!KeyOf
  <2>1. w \in Range(table) /\ w \in DOMAIN writes /\ w \in Nat
    BY RowFacts DEF TypeOK
  <2>2. PICK key \in Keys : key = writes[w].key
    BY <2>1, RowFacts
  <2>3. PICK c : c = Current(key)
    OBVIOUS
  <2>4. c \in Range(table) /\ c # 0
    BY <2>1, <2>2, <2>3, CurrentShown
  <2>5. writes[c].key = key /\ writes[w].rev <= writes[c].rev
    BY <2>1, <2>2, <2>3, <2>4, CurrentWrite
  <2>6. c \in Nat /\ c > 0 /\ writes[c].rev \in Nat /\ writes[w].rev \in Nat
    BY <2>1, <2>4, RowFacts, StoreAssumption
  <2>7. ~ (c < w)
    <3> SUFFICES ASSUME c < w
                 PROVE  FALSE
      OBVIOUS
    <3>1. c \in 1..(w - 1)
      BY <2>1, <2>6
    <3>2. writes[c].rev < writes[w].rev
      BY <2>2, <2>5, <3>1 DEF Trusted
    <3> QED
      BY <2>5, <2>6, <3>2
  <2> QED
    BY <2>1, <2>2, <2>3, <2>6, <2>7
<1> QED
  BY <1>1, TypeCorrect, PTL
=============================================================================

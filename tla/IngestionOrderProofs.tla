------------------------ MODULE IngestionOrderProofs ------------------------
(***************************************************************************)
(* What the order of one collector's attempts makes of the projections.    *)
(* When no attempt overtakes an earlier one on the way to the backend, the *)
(* locks keep the attempts of a kind in order at every storage call, so    *)
(* that revisions are taken in the order of the submissions; and when each *)
(* mission has one reporter, that is the order of the mission's states.    *)
(* The safety properties of the run "reporter" follow, for any number of   *)
(* collectors, missions, submissions, attempts, failures and crashes.      *)
(***************************************************************************)
EXTENDS IngestionProofs

\* A mission is reported by one collector in its own name.
OneReporter ==
    \A a, b \in Bodies :
        /\ a.kind = "mission_update" /\ b.kind = "mission_update"
        /\ a.mission = b.mission
        => a.owner = b.owner

\* q is an earlier attempt than r of the same collector.
Before(q, r) ==
    /\ q.collector = r.collector
    /\ q.sub < r.sub \/ (q.sub = r.sub /\ q.att < r.att)

\* The two wait for the same locks.
SameKind(q, r) == Body(q).kind = Body(r).kind

\* How far a request is; one that was not sent before a later one never will be.
Rank == [wire |-> 1, validate |-> 2, insert |-> 3, project |-> 4, upsert |-> 5,
         done |-> 6, unsent |-> 6]
Sent(r) == pc[r] # "unsent"
At(r) == StoreOf(Body(r).kind, pc[r])

\* What was sent is of the current submission or an earlier one, and no later
\* attempt than the current one.
SendInv ==
    \A r \in Requests : Sent(r) =>
        \/ r.sub < Len(bodies[r.collector])
        \/ /\ r.sub = Len(bodies[r.collector])
           /\ attempt[r.collector] = 0 \/ r.att <= attempt[r.collector]

\* What is known of a request in each stage.
LaneInv ==
    \A r \in Requests :
        /\ pc[r] \in Suspended => Body(r).owner = r.collector
        /\ pc[r] = "validate" => Body(r).kind # "generic"
        /\ pc[r] = "upsert" => Body(r).kind # "generic"
        /\ reply[r] # "none" => pc[r] = "done"

\* No attempt overtakes an earlier one of its collector and kind, and an update
\* that was refused left none behind that is still to be validated.
FlowInv ==
    \A q, r \in Requests :
        Sent(q) /\ Sent(r) /\ Before(q, r) /\ SameKind(q, r) =>
            /\ pc[r] \in Suspended => Rank[pc[q]] >= Rank[pc[r]]
            /\ reply[r] = "409" => Rank[pc[q]] >= Rank["insert"]

\* The queues hold the suspended requests, each in its place, and those of one
\* collector, kind and stage in the order of the attempts.
QueueInv ==
    \A s \in Stores :
        /\ \A i \in 1..Len(queue[s]) : pc[queue[s][i]] \in Suspended /\ At(queue[s][i]) = s
        /\ \A r \in Requests : pc[r] \in Suspended /\ At(r) = s
                                  => \E i \in 1..Len(queue[s]) : queue[s][i] = r
        /\ \A i, j \in 1..Len(queue[s]) : i < j =>
              /\ queue[s][i] # queue[s][j]
              /\ /\ pc[queue[s][i]] = pc[queue[s][j]]
                 /\ SameKind(queue[s][i], queue[s][j])
                 /\ queue[s][i].collector = queue[s][j].collector
                 => Before(queue[s][i], queue[s][j])

\* Every row that is in a table or may still get there.
Rows ==
    (({missions[m] : m \in Missions} \cup {inventories[c] : c \in Collectors}) \ {None})
    \cup {row[r] : r \in {q \in Requests : pc[q] = "upsert"}}
    \cup {d.row : d \in {e \in doubt : e.table = "rows"}}

\* A row says what its request reported.
Tells(b, w) ==
    \/ b.kind = "mission_update" /\ w \in MissionRow /\ w.state = b.state
    \/ b.kind = "host_inventory" /\ w \in InventoryRow /\ w.reported_at = w.by.sub

\* A row was made when all earlier attempts had theirs, or never will have one.
RowInv ==
    \A w \in Rows :
        /\ w.rev <= clock
        /\ pc[w.by] \in {"upsert", "done"}
        /\ Body(w.by).owner = w.by.collector
        /\ Tells(Body(w.by), w)
        /\ \A q \in Requests : Sent(q) /\ Before(q, w.by) /\ SameKind(q, w.by)
                                  => Rank[pc[q]] >= Rank["upsert"]

\* The rows of a collector's reports have their revisions in the order of these.
RevInv ==
    \A v, w \in Rows :
        /\ v.by.collector = w.by.collector /\ SameKind(v.by, w.by) /\ v.rev <= w.rev
        => v.by = w.by \/ Before(v.by, w.by)

\* The rows in the tables are in their place.
TableInv ==
    /\ \A m \in Missions : missions[m] # None =>
          /\ Body(missions[m].by).kind = "mission_update"
          /\ Body(missions[m].by).mission = m
    /\ \A c \in Collectors : inventories[c] # None =>
          /\ Body(inventories[c].by).kind = "host_inventory"
          /\ inventories[c].by.collector = c

OrderInv ==
    SendInv /\ LaneInv /\ FlowInv /\ QueueInv /\ RowInv /\ RevInv /\ TableInv
-----------------------------------------------------------------------------
\* Attempts of a collector are totally ordered.
LEMMA BeforeOrder ==
    ASSUME NEW q \in Requests, NEW r \in Requests, q.collector = r.collector
    PROVE  /\ q = r \/ Before(q, r) \/ Before(r, q)
           /\ ~ (Before(q, r) /\ Before(r, q))
           /\ ~ Before(q, q)
<1>1. /\ q = [collector |-> q.collector, sub |-> q.sub, att |-> q.att]
      /\ r = [collector |-> r.collector, sub |-> r.sub, att |-> r.att]
      /\ q.sub \in Nat /\ r.sub \in Nat /\ q.att \in Nat /\ r.att \in Nat
  BY IngestionAssumption DEF Requests
<1>2. q.sub = r.sub /\ q.att = r.att => q = r
  BY <1>1
<1> QED
  BY <1>1, <1>2 DEF Before

\* The earlier of two attempts is of the same submission or an earlier one.
LEMMA BeforeSub ==
    ASSUME NEW q \in Requests, NEW r \in Requests, Before(q, r)
    PROVE  q.sub \in Nat /\ r.sub \in Nat /\ q.sub <= r.sub
BY RequestFields DEF Before

\* The stages a request suspends in, in order.
LEMMA Ranks ==
    /\ \A p \in Stages : Rank[p] \in Nat /\ (Rank[p] >= Rank["upsert"] <=> p \in {"upsert", "done", "unsent"})
    /\ \A p \in Suspended : p \in Stages /\ Rank[p] > Rank["wire"] /\ Rank[p] < Rank["done"]
    /\ Rank["wire"] = 1 /\ Rank["validate"] = 2 /\ Rank["insert"] = 3
    /\ Rank["project"] = 4 /\ Rank["upsert"] = 5 /\ Rank["done"] = 6
BY DEF Rank, Stages, Suspended

\* What was sent is of a submission that was made.
LEMMA SentKnown ==
    ASSUME IndInv, NEW r \in Requests, Sent(r)
    PROVE  Known(r)
BY DEF IndInv, SentInv, Sent

\* Every row has a request and a revision.
LEMMA RowsTyped ==
    ASSUME IndInv, NEW w \in Rows
    PROVE  w \in MissionRow \cup InventoryRow /\ w.by \in Requests /\ w.rev \in Nat
<1>1. w \in MissionRow \cup InventoryRow
  <2>1. CASE \E m \in Missions : w = missions[m] /\ w # None
    BY <2>1 DEF IndInv, TypeOK
  <2>2. CASE \E c \in Collectors : w = inventories[c] /\ w # None
    BY <2>2 DEF IndInv, TypeOK
  <2>3. CASE \E r \in Requests : pc[r] = "upsert" /\ w = row[r]
    BY <2>3 DEF IndInv, StageInv, RowFits
  <2>4. CASE \E d \in doubt : d.table = "rows" /\ w = d.row
    BY <2>4 DEF IndInv, DoubtInv, RowFits
  <2> QED
    BY <2>1, <2>2, <2>3, <2>4 DEF Rows
<1> QED
  BY <1>1 DEF MissionRow, InventoryRow

\* While r holds a lock, no earlier attempt of its kind is at the same call.
LEMMA FirstServed ==
    ASSUME IndInv, QueueInv, NEW r \in Requests, NEW s \in Suspended, Executing(r, s),
           NEW q \in Requests, Before(q, r), SameKind(q, r)
    PROVE  pc[q] # s
<1> SUFFICES ASSUME pc[q] = s PROVE FALSE
  OBVIOUS
<1> DEFINE a == StoreOf(Body(r).kind, s)
<1>1. /\ a \in Stores /\ pc[r] = s /\ a = At(q)
      /\ queue[a] # <<>> /\ Head(queue[a]) = r /\ queue[a] \in Seq(Requests)
  BY StoreOfType DEF Executing, At, SameKind, IndInv, TypeOK
<1> HIDE DEF a
<1>2. PICK i \in 1..Len(queue[a]) : queue[a][i] = q
  BY <1>1 DEF QueueInv
<1>3. queue[a][1] = r /\ Len(queue[a]) \in Nat /\ 1 \in 1..Len(queue[a])
  BY <1>1
<1>4. i # 1
  BY <1>2, <1>3, BeforeOrder
<1>5. Before(r, q)
  BY <1>1, <1>2, <1>3, <1>4 DEF QueueInv, SameKind, Before
<1> QED
  BY <1>5, BeforeOrder DEF Before
-----------------------------------------------------------------------------
(* One request goes on. *)

\* No one is overtaken when a request goes on to a call all earlier ones are at or
\* past, or is answered.
LEMMA FlowStep ==
    ASSUME IndInv, FlowInv, NEW r \in Requests, NEW t \in Stages \ {"unsent"}, Sent(r),
           pc' = [pc EXCEPT ![r] = t], bodies' = bodies, Rank[t] > Rank[pc[r]],
           t \in Suspended => \A q \in Requests :
              Sent(q) /\ Before(q, r) /\ SameKind(q, r) => Rank[pc[q]] >= Rank[t],
           \A q \in Requests \ {r} : reply'[q] = reply[q],
           reply'[r] = "409" => \A q \in Requests :
              Sent(q) /\ Before(q, r) /\ SameKind(q, r) => Rank[pc[q]] >= Rank["insert"]
    PROVE  FlowInv'
<1>1. /\ pc \in [Requests -> Stages] /\ pc'[r] = t
      /\ \A q \in Requests \ {r} : pc'[q] = pc[q]
  BY DEF IndInv, TypeOK
<1>2. \A q \in Requests : /\ pc[q] \in Stages /\ Rank[pc[q]] \in Nat
                          /\ Rank[pc'[q]] \in Nat /\ Rank[pc'[q]] >= Rank[pc[q]]
                          /\ Sent(q)' <=> Sent(q)
  BY <1>1, Ranks DEF Sent
<1> SUFFICES ASSUME NEW p \in Requests, NEW q \in Requests, Sent(p)', Sent(q)', Before(p, q),
                    SameKind(p, q)'
             PROVE  /\ pc'[q] \in Suspended => Rank[pc'[p]] >= Rank[pc'[q]]
                    /\ reply'[q] = "409" => Rank[pc'[p]] >= Rank["insert"]
  BY DEF FlowInv, Before
<1>3. Sent(p) /\ Sent(q) /\ SameKind(p, q)
  BY <1>2 DEF SameKind, Body
<1>4. CASE q = r
  <2>1. p # r
    BY <1>4, BeforeOrder
  <2> QED
    BY <1>1, <1>3, <1>4, <2>1
<1>5. CASE q # r
  <2>1. pc'[q] = pc[q] /\ reply'[q] = reply[q]
    BY <1>1, <1>5
  <2>2. /\ pc[q] \in Suspended => Rank[pc[p]] >= Rank[pc[q]]
        /\ reply[q] = "409" => Rank[pc[p]] >= Rank["insert"]
    BY <1>3 DEF FlowInv
  <2>3. Rank[pc[q]] \in Nat /\ Rank["insert"] \in Nat /\ Rank[pc[p]] \in Nat
        /\ Rank[pc'[p]] \in Nat /\ Rank[pc'[p]] >= Rank[pc[p]]
    BY <1>2, Ranks
  <2> QED
    BY <2>1, <2>2, <2>3
<1> QED
  BY <1>4, <1>5

\* r leaves the heads of the queues where off is 1, among them its own, and joins
\* the end of the queue for its call in stage t, if there is one.
Shifted(off, r, t) ==
    /\ off \in [Stores -> {0, 1}]
    /\ \A s \in Stores : off[s] = 1 => Len(queue[s]) >= 1 /\ queue[s][1] = r
    /\ pc[r] \in Suspended => off[At(r)] = 1
    /\ \A s \in Stores :
          /\ \A k \in 1..(Len(queue[s]) - off[s]) : queue'[s][k] = queue[s][k + off[s]]
          /\ t \in Suspended /\ s = StoreOf(Body(r).kind, t) =>
                /\ Len(queue'[s]) = Len(queue[s]) - off[s] + 1
                /\ queue'[s][Len(queue'[s])] = r
          /\ ~ (t \in Suspended /\ s = StoreOf(Body(r).kind, t)) =>
                Len(queue'[s]) = Len(queue[s]) - off[s]

\* The queues stay in order when a request leaves the head of one, or joins the end
\* of another after the earlier ones at its call.
LEMMA QueueStep ==
    ASSUME IndInv, queue' \in [Stores -> Seq(Requests)], QueueInv,
           NEW r \in Requests, NEW t \in Stages,
           pc' = [pc EXCEPT ![r] = t], bodies' = bodies,
           NEW off, Shifted(off, r, t),
           t \in Suspended => \A q \in Requests \ {r} :
              pc[q] = t /\ SameKind(q, r) /\ q.collector = r.collector => Before(q, r)
    PROVE  QueueInv'
<1> DEFINE To(q) == StoreOf(Body(q).kind, pc'[q])
<1>1. /\ pc \in [Requests -> Stages] /\ pc'[r] = t
      /\ \A q \in Requests \ {r} : pc'[q] = pc[q] /\ To(q) = At(q)
      /\ To(r) = StoreOf(Body(r).kind, t)
  BY DEF IndInv, TypeOK, At
<1> SUFFICES ASSUME NEW s \in Stores
             PROVE  /\ \A i \in 1..Len(queue'[s]) :
                          pc'[queue'[s][i]] \in Suspended /\ To(queue'[s][i]) = s
                    /\ \A q \in Requests : pc'[q] \in Suspended /\ To(q) = s
                                              => \E i \in 1..Len(queue'[s]) : queue'[s][i] = q
                    /\ \A i, j \in 1..Len(queue'[s]) : i < j =>
                          /\ queue'[s][i] # queue'[s][j]
                          /\ /\ pc'[queue'[s][i]] = pc'[queue'[s][j]]
                             /\ SameKind(queue'[s][i], queue'[s][j])
                             /\ queue'[s][i].collector = queue'[s][j].collector
                             => Before(queue'[s][i], queue'[s][j])
  <2>1. \A q : At(q)' = To(q)
    BY DEF At, Body
  <2>2. \A p, q : SameKind(p, q)' <=> SameKind(p, q)
    BY DEF SameKind, Body
  <2> HIDE DEF To
  <2> QED
    BY <2>1, <2>2 DEF QueueInv, Before
<1> HIDE DEF To
<1> USE DEF Shifted
<1> DEFINE n == Len(queue[s]) - off[s]
           joins == t \in Suspended /\ s = StoreOf(Body(r).kind, t)
<1>2. /\ queue[s] \in Seq(Requests) /\ Len(queue[s]) \in Nat /\ off[s] \in {0, 1}
      /\ queue'[s] \in Seq(Requests) /\ Len(queue'[s]) \in Nat
      /\ n \in Nat
      /\ \A i \in 1..Len(queue[s]) : queue[s][i] \in Requests
      /\ \A i \in 1..Len(queue'[s]) : queue'[s][i] \in Requests
  <2>1. queue[s] \in Seq(Requests) /\ queue'[s] \in Seq(Requests)
    BY DEF IndInv, TypeOK
  <2>2. off[s] \in {0, 1} /\ (off[s] = 1 => Len(queue[s]) >= 1)
    OBVIOUS
  <2> HIDE DEF Shifted
  <2> QED
    BY <2>1, <2>2
\* The others keep their places.
<1>3. \A i \in 1..Len(queue[s]) : queue[s][i] = r => i = 1 /\ off[s] = 1
  <2> SUFFICES ASSUME NEW i \in 1..Len(queue[s]), queue[s][i] = r PROVE i = 1 /\ off[s] = 1
    OBVIOUS
  <2>1. pc[r] \in Suspended /\ At(r) = s
    BY DEF QueueInv
  <2>2. off[s] = 1 /\ Len(queue[s]) >= 1 /\ queue[s][1] = r
    BY <2>1
  <2>3. i > 1 => queue[s][1] # queue[s][i]
    BY <1>2, <2>2 DEF QueueInv
  <2> QED
    BY <1>2, <2>2, <2>3
<1>4. \A k \in 1..n : /\ k + off[s] \in 1..Len(queue[s]) /\ queue'[s][k] = queue[s][k + off[s]]
                      /\ queue'[s][k] \in Requests \ {r}
  <2> SUFFICES ASSUME NEW k \in 1..n
               PROVE  /\ k + off[s] \in 1..Len(queue[s]) /\ queue'[s][k] = queue[s][k + off[s]]
                      /\ queue'[s][k] \in Requests \ {r}
    OBVIOUS
  <2>1. k + off[s] \in 1..Len(queue[s]) /\ ~ (k + off[s] = 1 /\ off[s] = 1)
    BY <1>2
  <2>2. queue'[s][k] = queue[s][k + off[s]]
    OBVIOUS
  <2> QED
    BY <1>2, <1>3, <2>1, <2>2
<1>5. \/ Len(queue'[s]) = n
      \/ joins /\ Len(queue'[s]) = n + 1 /\ queue'[s][n + 1] = r
  OBVIOUS
<1>6. joins => Len(queue'[s]) = n + 1 /\ queue'[s][n + 1] = r
  OBVIOUS
<1> HIDE DEF n
<1>7. ASSUME NEW i \in 1..Len(queue'[s])
      PROVE  pc'[queue'[s][i]] \in Suspended /\ To(queue'[s][i]) = s
  <2>1. CASE i \in 1..n
    <3> DEFINE q == queue[s][i + off[s]]
    <3>1. q \in Requests \ {r} /\ queue'[s][i] = q /\ pc[q] \in Suspended /\ At(q) = s
      BY <1>4, <2>1 DEF QueueInv
    <3> HIDE DEF q
    <3> QED
      BY <1>1, <3>1
  <2>2. CASE i = n + 1
    BY <1>1, <1>2, <1>5, <2>2
  <2> QED
    BY <1>2, <1>5, <2>1, <2>2
<1>8. ASSUME NEW q \in Requests, pc'[q] \in Suspended, To(q) = s
      PROVE  \E i \in 1..Len(queue'[s]) : queue'[s][i] = q
  <2>1. CASE q = r
    <3>1. joins
      BY <1>1, <1>8, <2>1
    <3> QED
      BY <1>2, <1>6, <2>1, <3>1
  <2>2. CASE q # r
    <3>1. pc[q] \in Suspended /\ At(q) = s
      BY <1>1, <1>8, <2>2
    <3>2. PICK i \in 1..Len(queue[s]) : queue[s][i] = q
      BY <3>1 DEF QueueInv
    <3>3. off[s] = 1 => i # 1
      BY <2>2, <3>2
    <3>4. i - off[s] \in 1..n
      BY <1>2, <3>3 DEF n
    <3>5. PICK k \in 1..n : k = i - off[s]
      BY <3>4
    <3>6. k + off[s] = i
      BY <1>2, <3>5
    <3>7. queue'[s][k] = q
      BY <1>4, <3>2, <3>6
    <3>8. k \in 1..Len(queue'[s])
      BY <1>2, <1>5
    <3> QED
      BY <3>7, <3>8
  <2> QED
    BY <2>1, <2>2
<1>9. ASSUME NEW i \in 1..Len(queue'[s]), NEW j \in 1..Len(queue'[s]), i < j
      PROVE  /\ queue'[s][i] # queue'[s][j]
             /\ /\ pc'[queue'[s][i]] = pc'[queue'[s][j]]
                /\ SameKind(queue'[s][i], queue'[s][j])
                /\ queue'[s][i].collector = queue'[s][j].collector
                => Before(queue'[s][i], queue'[s][j])
  <2>1. i \in 1..n
    BY <1>2, <1>5, <1>9
  <2> DEFINE p == queue[s][i + off[s]]
  <2>2. p \in Requests \ {r} /\ queue'[s][i] = p /\ pc'[p] = pc[p]
    BY <1>1, <1>4, <2>1
  <2>3. CASE j \in 1..n
    <3> DEFINE q == queue[s][j + off[s]]
    <3>1. q \in Requests \ {r} /\ queue'[s][j] = q /\ pc'[q] = pc[q]
      BY <1>1, <1>4, <2>3
    <3>2. /\ i + off[s] \in 1..Len(queue[s]) /\ j + off[s] \in 1..Len(queue[s])
          /\ i + off[s] < j + off[s]
      BY <1>2, <1>4, <1>9, <2>1, <2>3
    <3>3. /\ p # q
          /\ pc[p] = pc[q] /\ SameKind(p, q) /\ p.collector = q.collector => Before(p, q)
      <4> SUFFICES ASSUME NEW x \in 1..Len(queue[s]), NEW y \in 1..Len(queue[s]), x < y
                   PROVE  /\ queue[s][x] # queue[s][y]
                          /\ /\ pc[queue[s][x]] = pc[queue[s][y]]
                             /\ SameKind(queue[s][x], queue[s][y])
                             /\ queue[s][x].collector = queue[s][y].collector
                             => Before(queue[s][x], queue[s][y])
        BY <3>2
      <4> QED
        BY DEF QueueInv
    <3> HIDE DEF p, q
    <3> QED
      BY <1>1, <2>2, <3>1, <3>3
  <2>4. CASE j = n + 1
    <3>1. queue'[s][j] = r /\ t \in Suspended
      BY <1>2, <1>5, <2>4
    <3> HIDE DEF p
    <3> QED
      BY <1>1, <2>2, <3>1
  <2> QED
    BY <1>2, <1>5, <2>3, <2>4
<1> QED
  BY <1>7, <1>8, <1>9

\* Taking the head of a queue shifts the others.
LEMMA TailPlaces ==
    ASSUME NEW S, NEW q \in Seq(S), q # <<>>
    PROVE  /\ Tail(q) \in Seq(S) /\ Len(Tail(q)) = Len(q) - 1 /\ Len(q) >= 1
           /\ Head(q) = q[1]
           /\ \A k \in 1..(Len(q) - 1) : Tail(q)[k] = q[k + 1]
OBVIOUS

\* Joining a queue leaves the others where they are.
LEMMA AppendPlaces ==
    ASSUME NEW S, NEW q \in Seq(S), NEW e \in S
    PROVE  /\ Append(q, e) \in Seq(S) /\ Len(Append(q, e)) = Len(q) + 1
           /\ Append(q, e)[Len(q) + 1] = e
           /\ \A k \in 1..Len(q) : Append(q, e)[k] = q[k]
OBVIOUS

\* The queues after r has left the head of its own.
LEMMA LeavePlaces ==
    ASSUME TypeOK, NEW r \in Requests, NEW s \in Suspended, Executing(r, s)
    PROVE  \E off \in [Stores -> {0, 1}] :
              /\ \A x \in Stores : off[x] = 1 => Len(queue[x]) >= 1 /\ queue[x][1] = r
              /\ off[At(r)] = 1
              /\ \A x \in Stores :
                    /\ Len(Released(r)[x]) = Len(queue[x]) - off[x]
                    /\ \A k \in 1..(Len(queue[x]) - off[x]) :
                          Released(r)[x][k] = queue[x][k + off[x]]
<1>1. /\ At(r) \in Stores /\ queue[At(r)] \in Seq(Requests)
      /\ queue[At(r)] # <<>> /\ Head(queue[At(r)]) = r
      /\ queue \in [Stores -> Seq(Requests)]
  BY StoreOfType DEF At, Executing, TypeOK
<1>2. Released(r) = [queue EXCEPT ![At(r)] = Tail(@)]
  BY DEF Released, At
<1>3. /\ Len(Tail(queue[At(r)])) = Len(queue[At(r)]) - 1 /\ Len(queue[At(r)]) >= 1
      /\ r = queue[At(r)][1]
      /\ \A k \in 1..(Len(queue[At(r)]) - 1) : Tail(queue[At(r)])[k] = queue[At(r)][k + 1]
  BY <1>1, TailPlaces
<1> DEFINE off == [x \in Stores |-> IF x = At(r) THEN 1 ELSE 0]
<1>o. /\ off \in [Stores -> {0, 1}] /\ off[At(r)] = 1
      /\ \A x \in Stores : x # At(r) => off[x] = 0
  BY <1>1
<1> HIDE DEF off
<1>4. ASSUME NEW x \in Stores
      PROVE  /\ Len(Released(r)[x]) = Len(queue[x]) - off[x]
             /\ \A k \in 1..(Len(queue[x]) - off[x]) : Released(r)[x][k] = queue[x][k + off[x]]
             /\ off[x] = 1 => Len(queue[x]) >= 1 /\ queue[x][1] = r
  <2>1. CASE x = At(r)
    <3>1. Released(r)[x] = Tail(queue[x])
      BY <1>1, <1>2, <2>1
    <3> QED
      BY <1>3, <1>o, <2>1, <3>1
  <2>2. CASE x # At(r)
    <3>1. off[x] = 0 /\ Released(r)[x] = queue[x] /\ Len(queue[x]) \in Nat
      BY <1>1, <1>2, <1>o, <2>2
    <3>2. \A k \in 1..(Len(queue[x]) - off[x]) : k + off[x] = k
      BY <3>1
    <3> QED
      BY <3>1, <3>2
  <2> QED
    BY <2>1, <2>2
<1> QED
  BY <1>o, <1>4

\* The order of the requests survives the answer to one of them.
LEMMA AnswerOrder ==
    ASSUME IndInv, IndInv', OrderInv, NEW r \in Requests, NEW s \in Suspended,
           NEW status, Executing(r, s), Answer(r, status),
           bodies' = bodies, attempt' = attempt, status = "409" => s = "validate"
    PROVE  SendInv' /\ LaneInv' /\ FlowInv' /\ QueueInv'
<1>1. /\ TypeOK /\ pc[r] = s /\ pc' = [pc EXCEPT ![r] = "done"]
      /\ reply' = [reply EXCEPT ![r] = status] /\ queue' = Released(r)
      /\ "done" \in Stages \ {"unsent"} /\ "done" \notin Suspended
      /\ queue' \in [Stores -> Seq(Requests)]
  BY DEF IndInv, TypeOK, Answer, Executing, Stages, Suspended
<1>2. /\ \A q \in Requests \ {r} : pc'[q] = pc[q] /\ reply'[q] = reply[q]
      /\ pc'[r] = "done" /\ reply'[r] = status
      /\ Sent(r) /\ \A q \in Requests : (Sent(q)' <=> Sent(q)) /\ pc[q] \in Stages
  BY <1>1 DEF TypeOK, Sent, Suspended
<1>3. SendInv'
  BY <1>2 DEF OrderInv, SendInv
<1>4. LaneInv'
  BY <1>1, <1>2 DEF OrderInv, LaneInv, Body
<1>5. FlowInv'
  <2>1. ASSUME status = "409", NEW q \in Requests, Sent(q), Before(q, r), SameKind(q, r)
        PROVE  Rank[pc[q]] >= Rank["insert"]
    <3>1. Rank[pc[q]] >= Rank["validate"] /\ pc[q] # "validate"
      BY <1>1, <1>2, <2>1, FirstServed DEF OrderInv, FlowInv
    <3> QED
      BY <1>2, <3>1 DEF Rank, Stages, Suspended
  <2>2. Rank["done"] > Rank[pc[r]]
    BY <1>1, Ranks
  <2> QED
    BY <1>1, <1>2, <2>1, <2>2, FlowStep DEF OrderInv
<1>6. QueueInv'
  <2>1. PICK off \in [Stores -> {0, 1}] :
        /\ \A x \in Stores : off[x] = 1 => Len(queue[x]) >= 1 /\ queue[x][1] = r
        /\ off[At(r)] = 1
        /\ \A x \in Stores :
              /\ Len(queue'[x]) = Len(queue[x]) - off[x]
              /\ \A k \in 1..(Len(queue[x]) - off[x]) : queue'[x][k] = queue[x][k + off[x]]
    BY <1>1, LeavePlaces
  <2>2. Shifted(off, r, "done")
    BY <1>1, <2>1 DEF Shifted
  <2> QED
    BY <1>1, <2>2, QueueStep DEF OrderInv
<1> QED
  BY <1>3, <1>4, <1>5, <1>6

\* The order of the requests survives one that moves on to its next call.
LEMMA MoveOrder ==
    ASSUME IndInv, IndInv', OrderInv, NEW r \in Requests, NEW s \in Suspended,
           NEW t \in Suspended, Executing(r, s), MoveTo(r, t),
           bodies' = bodies, attempt' = attempt, Rank[t] > Rank[s],
           t \in {"validate", "upsert"} => Body(r).kind # "generic",
           \A q \in Requests : SameKind(q, r) /\ Rank[pc[q]] > Rank[s] => Rank[pc[q]] >= Rank[t]
    PROVE  SendInv' /\ LaneInv' /\ FlowInv' /\ QueueInv'
<1> DEFINE b == StoreOf(Body(r).kind, t)
<1>1. /\ TypeOK /\ pc[r] = s /\ pc' = [pc EXCEPT ![r] = t] /\ reply' = reply
      /\ queue' = [Released(r) EXCEPT ![b] = Append(@, r)]
      /\ t \in Stages \ {"unsent"} /\ b \in Stores
      /\ queue' \in [Stores -> Seq(Requests)]
  BY StoreOfType DEF IndInv, TypeOK, MoveTo, Executing, Stages, Suspended
<1>2. /\ \A q \in Requests \ {r} : pc'[q] = pc[q]
      /\ pc'[r] = t
      /\ Sent(r) /\ \A q \in Requests : (Sent(q)' <=> Sent(q)) /\ pc[q] \in Stages
  BY <1>1 DEF TypeOK, Sent, Suspended
<1>3. SendInv'
  BY <1>2 DEF OrderInv, SendInv
<1>4. LaneInv'
  BY <1>1, <1>2 DEF OrderInv, LaneInv, Body, Suspended
<1>5. ASSUME NEW q \in Requests, Sent(q), Before(q, r), SameKind(q, r)
      PROVE  Rank[pc[q]] >= Rank[t]
  <2>1. Rank[pc[q]] >= Rank[s] /\ pc[q] # s
    BY <1>1, <1>2, <1>5, FirstServed DEF OrderInv, FlowInv
  <2>2. Rank[pc[q]] > Rank[s]
    BY <1>2, <1>5, <2>1 DEF Rank, Stages, Suspended, Sent
  <2> QED
    BY <1>5, <2>2
<1>6. FlowInv'
  <2>1. Rank[t] > Rank[pc[r]] /\ reply'[r] # "409"
    BY <1>1, <1>2 DEF OrderInv, LaneInv, Suspended
  <2> QED
    BY <1>1, <1>2, <1>5, <2>1, FlowStep DEF OrderInv
<1>7. QueueInv'
  <2>1. PICK off \in [Stores -> {0, 1}] :
        /\ \A x \in Stores : off[x] = 1 => Len(queue[x]) >= 1 /\ queue[x][1] = r
        /\ off[At(r)] = 1
        /\ \A x \in Stores :
              /\ Len(Released(r)[x]) = Len(queue[x]) - off[x]
              /\ \A k \in 1..(Len(queue[x]) - off[x]) : Released(r)[x][k] = queue[x][k + off[x]]
    BY <1>1, LeavePlaces
  <2>2. Released(r) \in [Stores -> Seq(Requests)]
    BY <1>1, ReleasedType
  <2> HIDE DEF b
  <2>3. ASSUME NEW x \in Stores
        PROVE  /\ \A k \in 1..(Len(queue[x]) - off[x]) : queue'[x][k] = queue[x][k + off[x]]
               /\ x = b => /\ Len(queue'[x]) = Len(queue[x]) - off[x] + 1
                           /\ queue'[x][Len(queue'[x])] = r
               /\ x # b => Len(queue'[x]) = Len(queue[x]) - off[x]
    <3>1. CASE x = b
      <4>1. queue'[x] = Append(Released(r)[x], r) /\ Released(r)[x] \in Seq(Requests)
        BY <1>1, <2>2, <3>1
      <4>2. /\ Len(queue'[x]) = Len(Released(r)[x]) + 1
            /\ queue'[x][Len(Released(r)[x]) + 1] = r
            /\ \A k \in 1..Len(Released(r)[x]) : queue'[x][k] = Released(r)[x][k]
        BY <4>1, AppendPlaces
      <4> QED
        BY <2>1, <3>1, <4>2
    <3>2. CASE x # b
      <4>1. queue'[x] = Released(r)[x]
        BY <1>1, <2>2, <3>2
      <4> QED
        BY <2>1, <3>2, <4>1
    <3> QED
      BY <3>1, <3>2
  <2>4. ASSUME NEW q \in Requests \ {r}, pc[q] = t, SameKind(q, r), q.collector = r.collector
        PROVE  Before(q, r)
    <3>1. SUFFICES ~ Before(r, q)
      BY <2>4, BeforeOrder
    <3>2. SUFFICES ASSUME Before(r, q) PROVE FALSE
      OBVIOUS
    <3>3. Sent(q) /\ SameKind(r, q)
      BY <2>4 DEF Sent, Suspended, SameKind
    <3>4. Rank[pc[r]] >= Rank[pc[q]]
      BY <1>2, <2>4, <3>2, <3>3 DEF OrderInv, FlowInv
    <3> QED
      BY <1>1, <2>4, <3>4 DEF Rank, Suspended
  <2>5. Shifted(off, r, t)
    BY <2>1, <2>3 DEF Shifted, b
  <2> QED
    BY <1>1, <2>4, <2>5, QueueStep DEF OrderInv
<1> QED
  BY <1>3, <1>4, <1>6, <1>7

-----------------------------------------------------------------------------
(* The rows. *)

\* Requests never fall back, and what is sent comes after all that was sent.
Onward ==
    /\ clock' >= clock
    /\ \A q \in Requests : Sent(q) =>
          Sent(q)' /\ Rank[pc'[q]] >= Rank[pc[q]] /\ Body(q)' = Body(q)
    /\ \A q, r \in Requests : ~ Sent(q) /\ Sent(q)' /\ Sent(r) => ~ Before(q, r)

\* The tables only take rows that are there already, each in its place, and only
\* those with a revision as high as that of the row they replace.
TableMoves ==
    /\ \A m \in Missions :
          \/ missions'[m] = missions[m]
          \/ /\ missions'[m] \in Rows
             /\ Body(missions'[m].by).kind = "mission_update"
             /\ Body(missions'[m].by).mission = m
             /\ missions[m] # None => missions'[m].rev >= missions[m].rev
    /\ \A c \in Collectors :
          \/ inventories'[c] = inventories[c]
          \/ /\ inventories'[c] \in Rows
             /\ Body(inventories'[c].by).kind = "host_inventory"
             /\ inventories'[c].by.collector = c
             /\ inventories[c] # None => inventories'[c].rev >= inventories[c].rev

\* A request that goes on is a step onward.
LEMMA RequestOnward ==
    ASSUME IndInv, NEW r \in Requests, Sent(r), NEW t \in Stages \ {"unsent"},
           pc' = [pc EXCEPT ![r] = t], Rank[t] >= Rank[pc[r]], bodies' = bodies,
           clock' >= clock
    PROVE  Onward
<1>1. /\ pc \in [Requests -> Stages] /\ pc'[r] = t /\ \A q \in Requests \ {r} : pc'[q] = pc[q]
      /\ \A q \in Requests : Rank[pc[q]] \in Nat
  BY Ranks DEF IndInv, TypeOK
<1> QED
  BY <1>1 DEF Onward, Sent, Body

\* What the tables take is a row.
LEMMA MovedRows ==
    ASSUME IndInv, TableMoves,
           NEW P, {row'[r] : r \in {q \in Requests : pc'[q] = "upsert"}} \subseteq Rows \cup P,
           {d.row : d \in {e \in doubt' : e.table = "rows"}} \subseteq Rows \cup P
    PROVE  Rows' \subseteq Rows \cup P
<1>1. \A m \in Missions : missions'[m] = None \/ missions'[m] \in Rows
  BY DEF TableMoves, Rows
<1>2. \A c \in Collectors : inventories'[c] = None \/ inventories'[c] \in Rows
  BY DEF TableMoves, Rows
<1> QED
  BY <1>1, <1>2 DEF Rows

\* A row's request was sent, and stays.
LEMMA RowSent ==
    ASSUME IndInv, RowInv, NEW w \in Rows
    PROVE  w.by \in Requests /\ Sent(w.by) /\ w.rev \in Nat
BY RowsTyped DEF RowInv, Sent

\* Rows keep what is known of them when nothing falls back.
LEMMA RowsKept ==
    ASSUME IndInv, IndInv', RowInv, RevInv, Onward, Rows' \subseteq Rows
    PROVE  RowInv' /\ RevInv'
<1>1. ASSUME NEW w \in Rows
      PROVE  /\ w.by \in Requests /\ Sent(w.by) /\ Body(w.by)' = Body(w.by)
             /\ pc'[w.by] \in {"upsert", "done"} /\ w.rev <= clock'
  <2>1. /\ w.by \in Requests /\ Sent(w.by) /\ w.rev \in Nat
        /\ w.rev <= clock /\ pc[w.by] \in {"upsert", "done"}
    BY RowSent DEF RowInv
  <2>2. clock \in Nat /\ clock' \in Nat /\ clock' >= clock
    BY DEF IndInv, TypeOK, Onward
  <2>3. Sent(w.by)' /\ Rank[pc'[w.by]] >= Rank[pc[w.by]] /\ Body(w.by)' = Body(w.by)
    BY <2>1 DEF Onward
  <2>4. pc'[w.by] \in Stages \ {"unsent"} /\ pc[w.by] \in Stages
    BY <2>1, <2>3 DEF Sent, IndInv, TypeOK
  <2>5. pc'[w.by] \in {"upsert", "done"}
    BY <2>1, <2>3, <2>4 DEF Rank, Stages, Suspended
  <2> QED
    BY <2>1, <2>2, <2>3, <2>5
<1>2. ASSUME NEW w \in Rows, NEW q \in Requests, Sent(q)', Before(q, w.by), SameKind(q, w.by)'
      PROVE  Rank[pc'[q]] >= Rank["upsert"]
  <2>1. Sent(q)
    BY <1>1, <1>2 DEF Onward
  <2>2. SameKind(q, w.by) /\ Rank[pc'[q]] >= Rank[pc[q]]
    BY <1>1, <1>2, <2>1 DEF SameKind, Onward
  <2>3. Rank[pc[q]] >= Rank["upsert"]
    BY <1>2, <2>1, <2>2 DEF RowInv
  <2>4. Rank[pc[q]] \in Nat /\ Rank[pc'[q]] \in Nat /\ Rank["upsert"] \in Nat
    BY Ranks DEF IndInv, TypeOK
  <2> QED
    BY <2>2, <2>3, <2>4
<1>3. RowInv'
  <2> SUFFICES ASSUME NEW w \in Rows
               PROVE  /\ w.rev <= clock'
                      /\ pc'[w.by] \in {"upsert", "done"}
                      /\ Body(w.by)'.owner = w.by.collector
                      /\ Tells(Body(w.by)', w)
                      /\ \A q \in Requests : Sent(q)' /\ Before(q, w.by) /\ SameKind(q, w.by)'
                                                => Rank[pc'[q]] >= Rank["upsert"]
    BY DEF RowInv, Before
  <2>1. Body(w.by).owner = w.by.collector /\ Tells(Body(w.by), w)
    BY DEF RowInv
  <2> QED
    BY <1>1, <1>2, <2>1
<1>4. RevInv'
  <2> SUFFICES ASSUME NEW v \in Rows, NEW w \in Rows, v.by.collector = w.by.collector,
                      SameKind(v.by, w.by)', v.rev <= w.rev
               PROVE  v.by = w.by \/ Before(v.by, w.by)
    BY DEF RevInv, Before
  <2>1. SameKind(v.by, w.by)
    BY <1>1 DEF SameKind
  <2> QED
    BY <2>1 DEF RevInv
<1> QED
  BY <1>3, <1>4

\* A new row, made when its request has passed all earlier ones of its kind that
\* have not got theirs, is the last.
LEMMA RowAdded ==
    ASSUME IndInv, IndInv', LaneInv, RowInv, RevInv, Onward, bodies' = bodies,
           NEW r \in Requests, NEW w, w.by = r, Rows' \subseteq Rows \cup {w},
           w.rev = clock + 1, clock' = clock + 1,
           pc[r] \in {"insert", "project"}, pc'[r] = "upsert", Tells(Body(r), w),
           \A q \in Requests : Sent(q) /\ Before(q, r) /\ SameKind(q, r)
                                  => Rank[pc'[q]] >= Rank["upsert"]
    PROVE  RowInv' /\ RevInv'
<1>1. /\ \A q \in Requests : (Sent(q)' => Sent(q) \/ \A p \in Requests : Sent(p) => ~ Before(q, p))
      /\ \A p, q \in Requests : SameKind(p, q)' <=> SameKind(p, q)
      /\ Sent(r) /\ Body(r)' = Body(r) /\ Body(r).owner = r.collector
  BY DEF Onward, SameKind, Body, Sent, LaneInv, Suspended
<1>2. ASSUME NEW v \in Rows, v.by.collector = r.collector, SameKind(v.by, r)
      PROVE  Before(v.by, r)
  <2>1. v.by \in Requests /\ pc[v.by] \in {"upsert", "done"}
    BY RowSent DEF RowInv
  <2>2. v.by # r
    BY <2>1
  <2>3. ~ Before(r, v.by)
    <3> SUFFICES ASSUME Before(r, v.by) PROVE FALSE
      OBVIOUS
    <3>1. SameKind(r, v.by)
      BY <1>2 DEF SameKind
    <3>2. Rank[pc[r]] >= Rank["upsert"]
      BY <1>1, <3>1 DEF RowInv
    <3> QED
      BY <3>2 DEF Rank
  <2> QED
    BY <1>2, <2>1, <2>2, <2>3, BeforeOrder
<1>3. ASSUME NEW v \in Rows
      PROVE  /\ v.by \in Requests /\ v.rev \in Nat /\ v.rev <= clock /\ clock \in Nat
             /\ pc'[v.by] \in {"upsert", "done"}
             /\ Body(v.by)'.owner = v.by.collector /\ Tells(Body(v.by)', v)
             /\ \A q \in Requests : Sent(q)' /\ Before(q, v.by) /\ SameKind(q, v.by)'
                                       => Rank[pc'[q]] >= Rank["upsert"]
  <2>1. /\ v.by \in Requests /\ Sent(v.by) /\ v.rev \in Nat /\ clock \in Nat /\ v.rev <= clock
        /\ pc[v.by] \in {"upsert", "done"}
        /\ Body(v.by).owner = v.by.collector /\ Tells(Body(v.by), v)
    BY RowSent DEF RowInv, IndInv, TypeOK
  <2>2. Sent(v.by)' /\ Rank[pc'[v.by]] >= Rank[pc[v.by]] /\ Body(v.by)' = Body(v.by)
    BY <2>1 DEF Onward
  <2>3. pc'[v.by] \in Stages \ {"unsent"}
    BY <2>1, <2>2 DEF Sent, IndInv, TypeOK
  <2>4. pc'[v.by] \in {"upsert", "done"}
    BY <2>1, <2>2, <2>3 DEF Rank, Stages, Suspended
  <2>5. ASSUME NEW q \in Requests, Sent(q)', Before(q, v.by), SameKind(q, v.by)'
        PROVE  Rank[pc'[q]] >= Rank["upsert"]
    <3>1. Sent(q) /\ SameKind(q, v.by)
      BY <1>1, <2>1, <2>5
    <3>2. Rank[pc'[q]] >= Rank[pc[q]] /\ Rank[pc[q]] >= Rank["upsert"]
      BY <2>5, <3>1 DEF RowInv, Onward
    <3>3. Rank[pc[q]] \in Nat /\ Rank[pc'[q]] \in Nat /\ Rank["upsert"] \in Nat
      BY Ranks DEF IndInv, TypeOK
    <3> QED
      BY <3>2, <3>3
  <2> QED
    BY <2>1, <2>2, <2>4, <2>5
<1>4. \A q \in Requests : Sent(q)' /\ Before(q, r) /\ SameKind(q, r)'
                             => Rank[pc'[q]] >= Rank["upsert"]
  BY <1>1
<1>5. clock \in Nat
  BY DEF IndInv, TypeOK
<1>6. RowInv'
  <2> SUFFICES ASSUME NEW v \in Rows \cup {w}
               PROVE  /\ v.rev <= clock'
                      /\ pc'[v.by] \in {"upsert", "done"}
                      /\ Body(v.by)'.owner = v.by.collector
                      /\ Tells(Body(v.by)', v)
                      /\ \A q \in Requests : Sent(q)' /\ Before(q, v.by) /\ SameKind(q, v.by)'
                                                => Rank[pc'[q]] >= Rank["upsert"]
    BY DEF RowInv, Before
  <2>1. CASE v \in Rows
    BY <1>3, <1>5, <2>1
  <2>2. CASE v = w
    BY <1>1, <1>4, <1>5, <2>2
  <2> QED
    BY <2>1, <2>2
<1>7. RevInv'
  <2> SUFFICES ASSUME NEW u \in Rows \cup {w}, NEW v \in Rows \cup {w},
                      u.by.collector = v.by.collector, SameKind(u.by, v.by)', u.rev <= v.rev
               PROVE  u.by = v.by \/ Before(u.by, v.by)
    BY DEF RevInv, Before
  <2>0. SameKind(u.by, v.by)
    BY DEF SameKind, Body
  <2>1. CASE u \in Rows /\ v \in Rows
    BY <2>0, <2>1 DEF RevInv
  <2>2. CASE u \in Rows /\ v = w
    BY <1>2, <2>0, <2>2
  <2>3. CASE u = w /\ v \in Rows
    BY <1>3, <1>5, <2>3
  <2> QED
    BY <2>1, <2>2, <2>3
<1> QED
  BY <1>6, <1>7

\* The tables' rows stay in their place.
LEMMA TablesPlaced ==
    ASSUME IndInv, RowInv, TableInv, Onward, TableMoves
    PROVE  TableInv'
<1>1. ASSUME NEW w \in Rows
      PROVE  bodies'[w.by.collector][w.by.sub] = Body(w.by)
  BY RowSent DEF Onward, Body
<1>2. ASSUME NEW m \in Missions, missions'[m] # None
      PROVE  LET b == bodies'[missions'[m].by.collector][missions'[m].by.sub]
             IN  b.kind = "mission_update" /\ b.mission = m
  <2>1. PICK w \in Rows : w = missions'[m]
    BY <1>2 DEF TableMoves, Rows
  <2>2. Body(w.by).kind = "mission_update" /\ Body(w.by).mission = m
    BY <1>2, <2>1 DEF TableMoves, TableInv
  <2> QED
    BY <1>1, <2>1, <2>2
<1>3. ASSUME NEW c \in Collectors, inventories'[c] # None
      PROVE  LET b == bodies'[inventories'[c].by.collector][inventories'[c].by.sub]
             IN  b.kind = "host_inventory" /\ inventories'[c].by.collector = c
  <2>1. PICK w \in Rows : w = inventories'[c]
    BY <1>3 DEF TableMoves, Rows
  <2>2. Body(w.by).kind = "host_inventory" /\ w.by.collector = c
    BY <1>3, <2>1 DEF TableMoves, TableInv
  <2> QED
    BY <1>1, <2>1, <2>2
<1> QED
  BY <1>2, <1>3 DEF TableInv, Body

-----------------------------------------------------------------------------
(* The steps of the backend. *)

\* A row that reaches its table moves it.
LEMMA InsertMoves ==
    ASSUME IndInv, NEW r \in Requests, Known(r), NEW w \in Rows,
           RowFits(Body(r), r, w), InsertRow(r, w)
    PROVE  TableMoves
<1>1. /\ w.by = r /\ r.collector \in Collectors /\ Body(r).mission \in Missions
      /\ missions \in [Missions -> MissionRow \cup {None}]
      /\ inventories \in [Collectors -> InventoryRow \cup {None}]
  BY RequestFields, BodyKnown DEF RowFits, IndInv, TypeOK
<1>2. CASE Body(r).kind = "mission_update"
  <2> DEFINE m == Body(r).mission
  <2>1. missions' = [missions EXCEPT ![m] = Replace(@, w)] /\ inventories' = inventories
    BY <1>2 DEF InsertRow
  <2>2. \A n \in Missions \ {m} : missions'[n] = missions[n]
    BY <1>1, <2>1
  <2>3. missions'[m] = Replace(missions[m], w)
    BY <1>1, <2>1
  <2>4. \/ missions'[m] = missions[m]
        \/ missions'[m] = w /\ (missions[m] # None => w.rev >= missions[m].rev)
    BY <2>3 DEF Replace
  <2>5. ASSUME NEW n \in Missions
        PROVE  \/ missions'[n] = missions[n]
               \/ /\ missions'[n] \in Rows
                  /\ Body(missions'[n].by).kind = "mission_update"
                  /\ Body(missions'[n].by).mission = n
                  /\ missions[n] # None => missions'[n].rev >= missions[n].rev
    BY <1>1, <1>2, <2>2, <2>4
  <2> QED
    BY <2>1, <2>5 DEF TableMoves
<1>3. CASE Body(r).kind = "host_inventory"
  <2> DEFINE c == r.collector
  <2>1. inventories' = [inventories EXCEPT ![c] = Replace(@, w)] /\ missions' = missions
    BY <1>3 DEF InsertRow
  <2>2. \A e \in Collectors \ {c} : inventories'[e] = inventories[e]
    BY <1>1, <2>1
  <2>3. inventories'[c] = Replace(inventories[c], w)
    BY <1>1, <2>1
  <2>4. \/ inventories'[c] = inventories[c]
        \/ inventories'[c] = w /\ (inventories[c] # None => w.rev >= inventories[c].rev)
    BY <2>3 DEF Replace
  <2>5. ASSUME NEW e \in Collectors
        PROVE  \/ inventories'[e] = inventories[e]
               \/ /\ inventories'[e] \in Rows
                  /\ Body(inventories'[e].by).kind = "host_inventory"
                  /\ inventories'[e].by.collector = e
                  /\ inventories[e] # None => inventories'[e].rev >= inventories[e].rev
    BY <1>1, <1>3, <2>2, <2>4
  <2> QED
    BY <2>1, <2>5 DEF TableMoves
<1> QED
  BY <1>2, <1>3 DEF RowFits

\* Tables that are not touched move nowhere.
LEMMA TablesRest ==
    ASSUME missions' = missions, inventories' = inventories
    PROVE  TableMoves
BY DEF TableMoves

\* The order survives an answer, if what it leaves in doubt is a row already.
LEMMA AnswerKeepsOrder ==
    ASSUME IndInv, IndInv', OrderInv, NEW r \in Requests, NEW s \in Suspended,
           NEW status, Executing(r, s), Answer(r, status),
           bodies' = bodies, attempt' = attempt, clock' = clock,
           status = "409" => s = "validate", TableMoves,
           {d.row : d \in {e \in doubt' : e.table = "rows"}} \subseteq Rows
    PROVE  OrderInv'
<1>1. SendInv' /\ LaneInv' /\ FlowInv' /\ QueueInv'
  BY AnswerOrder
<1>2. /\ pc[r] = s /\ pc' = [pc EXCEPT ![r] = "done"] /\ row' = [row EXCEPT ![r] = None]
      /\ pc \in [Requests -> Stages] /\ row \in [Requests -> MissionRow \cup InventoryRow \cup {None}]
      /\ clock \in Nat /\ "done" \in Stages \ {"unsent"} /\ Sent(r)
      /\ Rank["done"] >= Rank[pc[r]]
  BY Ranks DEF Answer, Executing, IndInv, TypeOK, Stages, Suspended, Sent
<1>3. Onward
  <2>1. clock' >= clock
    BY <1>2
  <2> QED
    BY <1>2, <2>1, RequestOnward
<1>4. \A q \in Requests : pc'[q] = "upsert" => q # r /\ pc[q] = "upsert" /\ row'[q] = row[q]
  BY <1>2
<1>5. {row'[q] : q \in {p \in Requests : pc'[p] = "upsert"}} \subseteq Rows
  BY <1>4 DEF Rows
<1>6. Rows' \subseteq Rows
  BY <1>5, MovedRows
<1> QED
  BY <1>1, <1>3, <1>6, RowsKept, TablesPlaced DEF OrderInv

\* The order survives a move to a call that writes no row.
LEMMA MoveKeepsOrder ==
    ASSUME IndInv, IndInv', OrderInv, NEW r \in Requests, NEW s \in Suspended,
           NEW t \in Suspended, Executing(r, s), MoveTo(r, t),
           bodies' = bodies, attempt' = attempt, clock' = clock, row' = row, doubt' = doubt,
           missions' = missions, inventories' = inventories,
           Rank[t] > Rank[s], t \notin {"validate", "upsert"},
           \A q \in Requests : SameKind(q, r) /\ Rank[pc[q]] > Rank[s] => Rank[pc[q]] >= Rank[t]
    PROVE  OrderInv'
<1>1. SendInv' /\ LaneInv' /\ FlowInv' /\ QueueInv'
  BY MoveOrder
<1>2. /\ pc[r] = s /\ pc' = [pc EXCEPT ![r] = t]
      /\ pc \in [Requests -> Stages] /\ clock \in Nat /\ t \in Stages \ {"unsent"} /\ Sent(r)
      /\ Rank[s] \in Nat /\ Rank[t] \in Nat
  BY Ranks DEF MoveTo, Executing, IndInv, TypeOK, Stages, Suspended, Sent
<1>3. Onward
  <2>1. clock' >= clock /\ Rank[t] >= Rank[pc[r]]
    BY <1>2
  <2> QED
    BY <1>2, <2>1, RequestOnward
<1>4. \A q \in Requests : pc'[q] = "upsert" => pc[q] = "upsert"
  BY <1>2
<1>5. {row'[q] : q \in {p \in Requests : pc'[p] = "upsert"}} \subseteq Rows
  BY <1>4 DEF Rows
<1>6. TableMoves
  BY TablesRest
<1>7. {d.row : d \in {e \in doubt' : e.table = "rows"}} \subseteq Rows
  BY DEF Rows
<1>8. Rows' \subseteq Rows
  BY <1>5, <1>6, <1>7, MovedRows
<1> QED
  BY <1>1, <1>3, <1>6, <1>8, RowsKept, TablesPlaced DEF OrderInv

\* The order survives a request that takes its revision.
LEMMA RowKeepsOrder ==
    ASSUME IndInv, IndInv', OrderInv, NEW r \in Requests, NEW s \in {"insert", "project"},
           Executing(r, s), MoveTo(r, "upsert"), NEW w, row' = [row EXCEPT ![r] = w],
           bodies' = bodies, attempt' = attempt, clock' = clock + 1, doubt' = doubt,
           missions' = missions, inventories' = inventories,
           w.by = r, w.rev = clock + 1, Tells(Body(r), w),
           \A q \in Requests : SameKind(q, r) /\ Rank[pc[q]] > Rank[s]
                                  => Rank[pc[q]] >= Rank["upsert"]
    PROVE  OrderInv'
<1>1. s \in Suspended /\ "upsert" \in Suspended /\ Rank["upsert"] > Rank[s]
      /\ Body(r).kind # "generic"
  BY DEF Suspended, Rank, Tells
<1>2. SendInv' /\ LaneInv' /\ FlowInv' /\ QueueInv'
  BY <1>1, MoveOrder
<1>3. /\ pc[r] = s /\ pc' = [pc EXCEPT ![r] = "upsert"]
      /\ pc \in [Requests -> Stages] /\ clock \in Nat /\ "upsert" \in Stages \ {"unsent"} /\ Sent(r)
      /\ row \in [Requests -> MissionRow \cup InventoryRow \cup {None}]
      /\ Rank[s] \in Nat /\ Rank["upsert"] \in Nat
  BY <1>1, Ranks DEF MoveTo, Executing, IndInv, TypeOK, Stages, Suspended, Sent
<1>4. Onward
  <2>1. clock' >= clock /\ Rank["upsert"] >= Rank[pc[r]]
    BY <1>1, <1>3
  <2> QED
    BY <1>3, <2>1, RequestOnward
<1>5. \A q \in Requests \ {r} : pc'[q] = pc[q] /\ row'[q] = row[q]
  BY <1>3
<1>6. {row'[q] : q \in {p \in Requests : pc'[p] = "upsert"}} \subseteq Rows \cup {w}
  BY <1>3, <1>5 DEF Rows
<1>7. TableMoves
  BY TablesRest
<1>8. {d.row : d \in {e \in doubt' : e.table = "rows"}} \subseteq Rows \cup {w}
  BY DEF Rows
<1>9. Rows' \subseteq Rows \cup {w}
  BY <1>6, <1>7, <1>8, MovedRows
<1>10. ASSUME NEW q \in Requests, Sent(q), Before(q, r), SameKind(q, r)
       PROVE  Rank[pc'[q]] >= Rank["upsert"]
  <2>1. Rank[pc[q]] >= Rank[s] /\ pc[q] # s
    BY <1>1, <1>3, <1>10, FirstServed DEF OrderInv, FlowInv
  <2>2. pc[q] \in Stages \ {"unsent"}
    BY <1>3, <1>10 DEF Sent
  <2>3. Rank[pc[q]] > Rank[s]
    BY <2>1, <2>2 DEF Rank, Stages, Suspended
  <2>4. q # r
    BY <1>10, BeforeOrder
  <2> QED
    BY <1>5, <1>10, <2>3, <2>4
<1>11. pc'[r] = "upsert"
  BY <1>3
<1>12. RowInv' /\ RevInv'
  BY <1>3, <1>4, <1>9, <1>10, <1>11, RowAdded DEF OrderInv
<1>13. TableInv'
  BY <1>4, <1>7, TablesPlaced DEF OrderInv
<1> QED
  BY <1>2, <1>12, <1>13 DEF OrderInv

\* validate returns, with either verdict, or raises.
LEMMA ValidateKeepsOrder ==
    ASSUME IndInv, IndInv', OrderInv, NEW r \in Requests, Validate(r) \/ ValidateFails(r)
    PROVE  OrderInv' /\ TableMoves
<1>1. /\ Executing(r, "validate") /\ "validate" \in Suspended /\ "insert" \in Suspended
      /\ bodies' = bodies /\ attempt' = attempt /\ clock' = clock
      /\ missions' = missions /\ inventories' = inventories /\ doubt' = doubt
  BY DEF Validate, ValidateFails, Suspended, clientVars, tables
<1>2. TableMoves
  BY <1>1, TablesRest
<1>3. CASE MoveTo(r, "insert") /\ row' = row
  <2>1. Rank["insert"] > Rank["validate"] /\ "insert" \notin {"validate", "upsert"}
    BY Ranks
  <2>2. \A q \in Requests : Rank[pc[q]] > Rank["validate"] => Rank[pc[q]] >= Rank["insert"]
    BY Ranks DEF IndInv, TypeOK
  <2>3. OrderInv'
    BY <1>1, <1>3, <2>1, <2>2, MoveKeepsOrder
  <2> QED
    BY <1>2, <2>3
<1>4. CASE \E status : Answer(r, status)
  <2>1. PICK status : Answer(r, status)
    BY <1>4
  <2>2. {d.row : d \in {e \in doubt' : e.table = "rows"}} \subseteq Rows
    BY <1>1 DEF Rows
  <2>3. OrderInv'
    BY <1>1, <1>2, <2>1, <2>2, AnswerKeepsOrder
  <2> QED
    BY <1>2, <2>3
<1> QED
  BY <1>3, <1>4 DEF Validate, ValidateFails

\* The other calls raise: what is in doubt afterwards was a row before.
LEMMA FailureKeepsOrder ==
    ASSUME IndInv, IndInv', OrderInv, NEW r \in Requests,
           InsertFails(r) \/ ProjectFails(r) \/ UpsertFails(r)
    PROVE  OrderInv' /\ TableMoves
<1>1. PICK s \in {"insert", "project", "upsert"} :
         /\ Executing(r, s) /\ Answer(r, "503")
         /\ \/ doubt' \subseteq doubt \cup {EventInsert(r)}
            \/ s = "upsert" /\ doubt' \subseteq doubt \cup {RowInsert(r)}
  <2>1. CASE InsertFails(r)
    BY <2>1 DEF InsertFails
  <2>2. CASE ProjectFails(r)
    BY <2>2 DEF ProjectFails
  <2>3. CASE UpsertFails(r)
    BY <2>3 DEF UpsertFails
  <2> QED
    BY <2>1, <2>2, <2>3
<1>2. /\ s \in Suspended /\ pc[r] = s
      /\ bodies' = bodies /\ attempt' = attempt /\ clock' = clock
      /\ missions' = missions /\ inventories' = inventories
  BY <1>1 DEF InsertFails, ProjectFails, UpsertFails, Suspended, clientVars, tables, Executing
<1>3. TableMoves
  BY <1>2, TablesRest
<1>4. \A d \in doubt' : d.table = "rows" => d \in doubt \/ (d.row = row[r] /\ pc[r] = "upsert")
  BY <1>1, <1>2 DEF EventInsert, RowInsert
<1>5. {d.row : d \in {e \in doubt' : e.table = "rows"}} \subseteq Rows
  BY <1>4 DEF Rows
<1>6. OrderInv'
  BY <1>1, <1>2, <1>3, <1>5, AnswerKeepsOrder
<1> QED
  BY <1>3, <1>6

\* insert_event succeeds: an update goes on to apply, an inventory takes its
\* revision, the others are answered.
LEMMA InsertEventKeepsOrder ==
    ASSUME IndInv, IndInv', OrderInv, NEW r \in Requests, InsertEvent(r)
    PROVE  OrderInv' /\ TableMoves
<1>1. /\ Executing(r, "insert") /\ "insert" \in Suspended /\ "project" \in Suspended
      /\ bodies' = bodies /\ attempt' = attempt
      /\ missions' = missions /\ inventories' = inventories /\ doubt' = doubt
  BY DEF InsertEvent, Suspended, clientVars
<1>2. TableMoves
  BY <1>1, TablesRest
<1>3. \A q \in Requests : pc[q] \in Stages
  BY DEF IndInv, TypeOK
<1>4. CASE Body(r).kind = "mission_update"
  <2>1. MoveTo(r, "project") /\ clock' = clock /\ row' = row
    BY <1>4 DEF InsertEvent
  <2>2. Rank["project"] > Rank["insert"] /\ "project" \notin {"validate", "upsert"}
    BY Ranks
  <2>3. \A q \in Requests : Rank[pc[q]] > Rank["insert"] => Rank[pc[q]] >= Rank["project"]
    BY <1>3, Ranks
  <2>4. OrderInv'
    BY <1>1, <2>1, <2>2, <2>3, MoveKeepsOrder
  <2> QED
    BY <1>2, <2>4
<1>5. CASE Body(r).kind = "host_inventory"
  <2> DEFINE w == [rev |-> clock + 1, by |-> r, reported_at |-> Stamp(r)]
  <2>1. MoveTo(r, "upsert") /\ clock' = clock + 1 /\ row' = [row EXCEPT ![r] = w]
    BY <1>5 DEF InsertEvent
  <2>2. w.by = r /\ w.rev = clock + 1 /\ w.reported_at = r.sub
    BY DEF Stamp
  <2>3. w \in InventoryRow
    BY RequestFields DEF InventoryRow, IndInv, TypeOK, Stamp
  <2>4. Tells(Body(r), w)
    BY <1>5, <2>2, <2>3 DEF Tells
  <2>5. ASSUME NEW q \in Requests, SameKind(q, r), Rank[pc[q]] > Rank["insert"]
        PROVE  Rank[pc[q]] >= Rank["upsert"]
    <3>1. pc[q] # "project"
      BY <1>5, <2>5 DEF SameKind, IndInv, StageInv
    <3> QED
      BY <1>3, <2>5, <3>1 DEF Rank, Stages, Suspended
  <2> HIDE DEF w
  <2>6. OrderInv'
    BY <1>1, <2>1, <2>2, <2>4, <2>5, RowKeepsOrder
  <2> QED
    BY <1>2, <2>6
<1>6. CASE Body(r).kind \notin {"mission_update", "host_inventory"}
  <2>1. Answer(r, "202") /\ clock' = clock
    BY <1>6 DEF InsertEvent
  <2>2. {d.row : d \in {e \in doubt' : e.table = "rows"}} \subseteq Rows
    BY <1>1 DEF Rows
  <2>3. OrderInv'
    BY <1>1, <1>2, <2>1, <2>2, AnswerKeepsOrder
  <2> QED
    BY <1>2, <2>3
<1> QED
  BY <1>4, <1>5, <1>6

\* apply has read the mission: it takes its revision.
LEMMA ProjectKeepsOrder ==
    ASSUME IndInv, IndInv', OrderInv, NEW r \in Requests, Project(r)
    PROVE  OrderInv' /\ TableMoves
<1> DEFINE w == MissionRowFor(r)
<1>1. /\ Executing(r, "project") /\ MoveTo(r, "upsert") /\ row' = [row EXCEPT ![r] = w]
      /\ bodies' = bodies /\ attempt' = attempt /\ clock' = clock + 1
      /\ missions' = missions /\ inventories' = inventories /\ doubt' = doubt
  BY DEF Project, clientVars, tables
<1>2. TableMoves
  BY <1>1, TablesRest
<1>3. w.by = r /\ w.rev = clock + 1 /\ w.state = Body(r).state
  BY DEF MissionRowFor, ProjectedRecord
<1>4. Body(r).kind = "mission_update" /\ r \in Requests /\ pc'[r] = "upsert" /\ row'[r] = w
  BY <1>1 DEF IndInv, StageInv, Executing, MoveTo, TypeOK
<1>5. w \in MissionRow
  <2>1. RowFits(Body(r)', r, w)
    BY <1>4 DEF IndInv, StageInv
  <2>2. Body(r)' = Body(r)
    BY <1>1 DEF Body
  <2> QED
    BY <1>4, <2>1, <2>2 DEF RowFits
<1>6. Tells(Body(r), w)
  BY <1>3, <1>4, <1>5 DEF Tells
<1>7. \A q \in Requests : Rank[pc[q]] > Rank["project"] => Rank[pc[q]] >= Rank["upsert"]
  BY Ranks DEF IndInv, TypeOK
<1> HIDE DEF w
<1>8. OrderInv'
  BY <1>1, <1>3, <1>6, <1>7, RowKeepsOrder
<1> QED
  BY <1>2, <1>8

\* The upsert succeeds.
LEMMA UpsertKeepsOrder ==
    ASSUME IndInv, IndInv', OrderInv, NEW r \in Requests, Upsert(r)
    PROVE  OrderInv' /\ TableMoves
<1>1. /\ Executing(r, "upsert") /\ "upsert" \in Suspended /\ pc[r] = "upsert"
      /\ Answer(r, "202") /\ InsertRow(r, row[r])
      /\ bodies' = bodies /\ attempt' = attempt /\ clock' = clock /\ doubt' = doubt
  BY DEF Upsert, Suspended, clientVars, Executing
<1>2. Known(r) /\ row[r] \in Rows /\ RowFits(Body(r), r, row[r])
  BY <1>1, ServedKnown DEF IndInv, StageInv, Rows
<1>3. TableMoves
  BY <1>1, <1>2, InsertMoves
<1>4. {d.row : d \in {e \in doubt' : e.table = "rows"}} \subseteq Rows
  BY <1>1 DEF Rows
<1>5. OrderInv'
  BY <1>1, <1>3, <1>4, AnswerKeepsOrder
<1> QED
  BY <1>3, <1>5

\* Where no request moves, only the rows are to be looked at.
LEMMA RestKeepsOrder ==
    ASSUME IndInv, IndInv', OrderInv, bodies' = bodies, pc' = pc, reply' = reply,
           queue' = queue, row' = row, clock' = clock, doubt' \subseteq doubt, TableMoves
    PROVE  LaneInv' /\ FlowInv' /\ QueueInv' /\ RowInv' /\ RevInv' /\ TableInv'
<1>1. LaneInv' /\ FlowInv'
  BY DEF OrderInv, LaneInv, FlowInv, Body, Sent, SameKind, Before
<1>2. QueueInv'
  <2>1. \A q : At(q)' = At(q)
    BY DEF At, Body
  <2>2. \A p, q : SameKind(p, q)' <=> SameKind(p, q)
    BY DEF SameKind, Body
  <2> QED
    BY <2>1, <2>2 DEF OrderInv, QueueInv, Before
<1>3. Onward
  BY Ranks DEF Onward, Sent, Body, IndInv, TypeOK
<1>4. Rows' \subseteq Rows
  <2>1. {row'[r] : r \in {q \in Requests : pc'[q] = "upsert"}} \subseteq Rows \cup {}
    BY DEF Rows
  <2>2. {d.row : d \in {e \in doubt' : e.table = "rows"}} \subseteq Rows \cup {}
    BY DEF Rows
  <2>3. Rows' \subseteq Rows \cup {}
    BY <2>1, <2>2, MovedRows
  <2> QED
    BY <2>3
<1> QED
  BY <1>1, <1>2, <1>3, <1>4, RowsKept, TablesPlaced DEF OrderInv

\* An insert in doubt lands.
LEMMA LandKeepsOrder ==
    ASSUME IndInv, IndInv', OrderInv, NEW d \in doubt, Land(d)
    PROVE  OrderInv' /\ TableMoves
<1>1. /\ bodies' = bodies /\ attempt' = attempt /\ pc' = pc /\ reply' = reply
      /\ queue' = queue /\ row' = row /\ clock' = clock /\ doubt' \subseteq doubt
  BY DEF Land, clientVars
<1>2. TableMoves
  <2>1. CASE d.table = "events"
    BY <2>1, TablesRest DEF Land
  <2>2. CASE d.table # "events"
    <3>1. d.by \in Requests /\ Known(d.by) /\ d.table = "rows" /\ InsertRow(d.by, d.row)
      BY <2>2 DEF Land, IndInv, TypeOK, DoubtType, DoubtInv
    <3>2. RowFits(Body(d.by), d.by, d.row) /\ d.row \in Rows
      BY <3>1 DEF IndInv, DoubtInv, Rows
    <3> QED
      BY <3>1, <3>2, InsertMoves
  <2> QED
    BY <2>1, <2>2
<1>3. SendInv'
  BY <1>1 DEF OrderInv, SendInv, Sent
<1> QED
  BY <1>1, <1>2, <1>3, RestKeepsOrder DEF OrderInv


\* The process dies: what was served is given up, and the inserts under way were
\* rows before.
LEMMA CrashKeepsOrder ==
    ASSUME IndInv, IndInv', OrderInv, Crash
    PROVE  OrderInv' /\ TableMoves
<1>1. /\ bodies' = bodies /\ attempt' = attempt /\ clock' = clock
      /\ missions' = missions /\ inventories' = inventories
      /\ doubt' \subseteq doubt \cup RunningInserts
      /\ queue' = [s \in Stores |-> <<>>]
      /\ clock \in Nat
  BY DEF Crash, clientVars, tables, IndInv, TypeOK
<1>2. \A q \in Requests :
         /\ pc[q] \in Stages
         /\ pc[q] \in Suspended => pc'[q] = "done" /\ reply'[q] = "dropped"
         /\ pc[q] \notin Suspended => pc'[q] = pc[q] /\ reply'[q] = reply[q]
  BY DEF Crash, IndInv, TypeOK
<1>3. \A q \in Requests :
         /\ pc'[q] \notin Suspended /\ (Sent(q)' <=> Sent(q))
         /\ Rank[pc'[q]] \in Nat /\ Rank[pc[q]] \in Nat /\ Rank[pc'[q]] >= Rank[pc[q]]
         /\ reply'[q] # "none" => pc'[q] = "done"
         /\ reply'[q] = "409" => reply[q] = "409"
  <2> SUFFICES ASSUME NEW q \in Requests
               PROVE  /\ pc'[q] \notin Suspended /\ (Sent(q)' <=> Sent(q))
                      /\ Rank[pc'[q]] \in Nat /\ Rank[pc[q]] \in Nat /\ Rank[pc'[q]] >= Rank[pc[q]]
                      /\ reply'[q] # "none" => pc'[q] = "done"
                      /\ reply'[q] = "409" => reply[q] = "409"
    OBVIOUS
  <2>1. CASE pc[q] \in Suspended
    BY <1>2, <2>1 DEF Rank, Sent, Suspended
  <2>2. CASE pc[q] \notin Suspended
    BY <1>2, <2>2, Ranks DEF Sent, OrderInv, LaneInv
  <2> QED
    BY <2>1, <2>2
<1>4. TableMoves
  BY <1>1, TablesRest
<1>5. Onward
  BY <1>1, <1>3 DEF Onward, Body
<1>6. SendInv'
  BY <1>1, <1>3 DEF OrderInv, SendInv
<1>7. LaneInv'
  BY <1>3, "upsert" \in Suspended, "validate" \in Suspended DEF LaneInv, Suspended
<1>8. FlowInv'
  <2> SUFFICES ASSUME NEW p \in Requests, NEW q \in Requests, Sent(p)', Sent(q)', Before(p, q),
                      SameKind(p, q)', reply'[q] = "409"
               PROVE  Rank[pc'[p]] >= Rank["insert"]
    BY <1>3 DEF FlowInv, Before
  <2>1. SameKind(p, q) /\ Sent(p) /\ Sent(q) /\ reply[q] = "409"
    BY <1>1, <1>3 DEF SameKind, Body
  <2>2. Rank[pc[p]] >= Rank["insert"]
    BY <2>1 DEF OrderInv, FlowInv
  <2> QED
    BY <1>3, <2>2, Ranks
<1>9. QueueInv'
  BY <1>1, <1>3 DEF QueueInv
<1>10. {d.row : d \in {e \in doubt' : e.table = "rows"}} \subseteq Rows
  <2>1. \A d \in RunningInserts : d.table = "rows" =>
            \E q \in Requests : pc[q] = "upsert" /\ d.row = row[q]
    BY DEF RunningInserts, EventInsert, RowInsert
  <2>2. \A d \in doubt' : d.table = "rows" => d \in doubt \/ d \in RunningInserts
    BY <1>1
  <2> QED
    BY <2>1, <2>2 DEF Rows
<1>11. {row'[q] : q \in {p \in Requests : pc'[p] = "upsert"}} \subseteq Rows
  BY <1>3 DEF Suspended
<1>12. Rows' \subseteq Rows
  BY <1>4, <1>10, <1>11, MovedRows
<1> QED
  BY <1>4, <1>5, <1>6, <1>7, <1>8, <1>9, <1>12, RowsKept, TablesPlaced DEF OrderInv

\* Where the rows stay and no request falls back, they stay in order.
LEMMA RowsRest ==
    ASSUME IndInv, IndInv', OrderInv, Onward, row' = row, doubt' = doubt,
           missions' = missions, inventories' = inventories,
           \A q \in Requests : pc'[q] = "upsert" => pc[q] = "upsert"
    PROVE  RowInv' /\ RevInv' /\ TableInv' /\ TableMoves
<1>1. TableMoves
  BY TablesRest
<1>2. {row'[q] : q \in {p \in Requests : pc'[p] = "upsert"}} \subseteq Rows
  BY DEF Rows
<1>3. {d.row : d \in {e \in doubt' : e.table = "rows"}} \subseteq Rows
  BY DEF Rows
<1>4. Rows' \subseteq Rows
  BY <1>1, <1>2, <1>3, MovedRows
<1> QED
  BY <1>1, <1>4, RowsKept, TablesPlaced DEF OrderInv

\* An attempt ends before it is served: it is lost, or refused on arrival.
LEMMA EndKeepsOrder ==
    ASSUME IndInv, IndInv', OrderInv, NEW r \in Requests, pc[r] = "wire", NEW status,
           status # "409", pc' = [pc EXCEPT ![r] = "done"],
           reply' = [reply EXCEPT ![r] = status], queue' = queue,
           bodies' = bodies, attempt' = attempt, row' = row, doubt' = doubt,
           missions' = missions, inventories' = inventories, clock' = clock
    PROVE  OrderInv' /\ TableMoves
<1>1. /\ pc \in [Requests -> Stages] /\ reply \in [Requests -> Replies] /\ clock \in Nat
      /\ pc'[r] = "done" /\ reply'[r] = status
      /\ \A q \in Requests \ {r} : pc'[q] = pc[q] /\ reply'[q] = reply[q]
      /\ "done" \in Stages \ {"unsent"} /\ "done" \notin Suspended /\ "wire" \notin Suspended
      /\ Sent(r) /\ Rank["done"] > Rank[pc[r]] /\ Rank["done"] >= Rank[pc[r]]
  BY Ranks DEF IndInv, TypeOK, Stages, Suspended, Sent
<1>2. SendInv'
  BY <1>1 DEF OrderInv, SendInv, Sent
<1>3. LaneInv'
  BY <1>1 DEF OrderInv, LaneInv, Body
<1>4. FlowInv'
  BY <1>1, FlowStep DEF OrderInv
<1>5. QueueInv'
  <2>1. \A q \in Requests : (pc'[q] \in Suspended <=> pc[q] \in Suspended)
                            /\ (pc[q] \in Suspended => pc'[q] = pc[q])
    BY <1>1
  <2>2. \A s \in Stores : \A i \in 1..Len(queue[s]) :
            queue[s][i] \in Requests /\ pc[queue[s][i]] \in Suspended /\ At(queue[s][i]) = s
    BY DEF OrderInv, QueueInv, IndInv, TypeOK
  <2>3. \A q \in Requests : pc'[q] \in Suspended => At(q)' = At(q)
    BY <2>1 DEF At, Body
  <2>4. \A p, q \in Requests : SameKind(p, q)' <=> SameKind(p, q)
    BY DEF SameKind, Body
  <2> QED
    BY <2>1, <2>2, <2>3, <2>4 DEF OrderInv, QueueInv, Before
<1>6. Onward
  <2>1. clock' >= clock
    BY <1>1
  <2> QED
    BY <1>1, <2>1, RequestOnward
<1>7. \A q \in Requests : pc'[q] = "upsert" => pc[q] = "upsert"
  BY <1>1
<1>8. RowInv' /\ RevInv' /\ TableInv' /\ TableMoves
  BY <1>6, <1>7, RowsRest
<1> QED
  BY <1>2, <1>3, <1>4, <1>5, <1>8 DEF OrderInv

\* A request arrives when no earlier one of its collector is still on the way: it
\* joins its first queue behind those of its kind.
LEMMA ArriveKeepsOrder ==
    ASSUME ~ LateArrival, IndInv, IndInv', OrderInv, NEW r \in Requests, Arrive(r)
    PROVE  OrderInv' /\ TableMoves
<1>1. /\ pc[r] = "wire"
      /\ bodies' = bodies /\ attempt' = attempt /\ row' = row /\ doubt' = doubt
      /\ missions' = missions /\ inventories' = inventories /\ clock' = clock
  BY DEF Arrive, clientVars, tables
<1>2. CASE Precheck(r) # "pass"
  <2>1. Precheck(r) # "409"
    BY DEF Precheck
  <2>2. /\ pc' = [pc EXCEPT ![r] = "done"] /\ reply' = [reply EXCEPT ![r] = Precheck(r)]
        /\ queue' = queue
    BY <1>2 DEF Arrive
  <2> QED
    BY <1>1, <2>1, <2>2, EndKeepsOrder
<1>3. CASE Precheck(r) = "pass"
  <2> DEFINE k == Body(r).kind
             b == StoreOf(k, FirstStage(k))
  <2>1. PICK t : t = FirstStage(k)
    OBVIOUS
  <2>2. /\ pc' = [pc EXCEPT ![r] = t] /\ queue' = [queue EXCEPT ![b] = Append(@, r)]
        /\ reply' = reply
        /\ Body(r).owner = r.collector
        /\ (t = "insert" /\ k = "generic") \/ (t = "validate" /\ k # "generic")
    BY <1>3, <2>1 DEF Arrive, FirstStage, Precheck
  <2>3. /\ pc \in [Requests -> Stages] /\ clock \in Nat /\ queue \in [Stores -> Seq(Requests)]
        /\ t \in Suspended /\ t \in Stages \ {"unsent"} /\ "wire" \notin Suspended
        /\ Rank[t] > Rank[pc[r]] /\ Rank[t] >= Rank[pc[r]] /\ Sent(r) /\ reply[r] # "409"
        /\ pc'[r] = t /\ \A q \in Requests \ {r} : pc'[q] = pc[q]
        /\ b \in Stores /\ b = StoreOf(k, t)
    <3>1. t \in Suspended /\ t \in Stages \ {"unsent"} /\ "wire" \notin Suspended
      BY <2>2 DEF Stages, Suspended
    <3>2. Rank[t] > Rank[pc[r]] /\ Rank[t] >= Rank[pc[r]]
      BY <1>1, <2>2, Ranks
    <3>3. Sent(r) /\ reply[r] # "409"
      BY <1>1 DEF Sent, OrderInv, LaneInv
    <3>4. pc'[r] = t /\ \A q \in Requests \ {r} : pc'[q] = pc[q]
      BY <2>2, <3>1 DEF IndInv, TypeOK
    <3>5. b \in Stores /\ b = StoreOf(k, t)
      BY <2>1, StoreOfType
    <3> QED
      BY <3>1, <3>2, <3>3, <3>4, <3>5 DEF IndInv, TypeOK
  <2>4. SendInv'
    BY <2>3, <1>1 DEF OrderInv, SendInv, Sent
  <2>5. LaneInv'
    BY <1>1, <2>2, <2>3 DEF OrderInv, LaneInv, Body, Suspended
  <2>6. ASSUME NEW q \in Requests, Sent(q), Before(q, r), SameKind(q, r)
        PROVE  Rank[pc[q]] >= Rank[t]
    <3>1. pc[q] # "wire"
      <4>1. q.sub \in Nat /\ r.sub \in Nat /\ q.att \in Nat /\ r.att \in Nat
        BY IngestionAssumption DEF Requests
      <4> QED
        BY <4>1, <2>6 DEF Arrive, Before
    <3>2. pc[q] \in Stages \ {"unsent", "wire"}
      BY <2>3, <2>6, <3>1 DEF Sent
    <3>3. t = "insert" => pc[q] # "validate"
      BY <2>2, <2>6 DEF OrderInv, LaneInv, SameKind
    <3> QED
      BY <2>2, <3>2, <3>3 DEF Rank, Stages, Suspended
  <2>7. FlowInv'
    BY <1>1, <2>2, <2>3, <2>6, FlowStep DEF OrderInv
  <2>8. QueueInv'
    <3>1. ASSUME NEW q \in Requests \ {r}, pc[q] = t, SameKind(q, r), q.collector = r.collector
          PROVE  Before(q, r)
      <4>1. SUFFICES ASSUME Before(r, q) PROVE FALSE
        BY <3>1, BeforeOrder
      <4>2. Sent(q) /\ SameKind(r, q)
        BY <2>3, <3>1 DEF Sent, SameKind
      <4>3. Rank[pc[r]] >= Rank[pc[q]]
        BY <2>3, <3>1, <4>1, <4>2 DEF OrderInv, FlowInv
      <4> QED
        BY <2>3, <3>1, <4>3, Ranks
    <3> DEFINE off == [x \in Stores |-> 0]
    <3>2. /\ off \in [Stores -> {0, 1}] /\ \A x \in Stores : off[x] = 0
          /\ queue' \in [Stores -> Seq(Requests)]
      BY DEF IndInv, TypeOK
    <3> HIDE DEF off, b
    <3>3. ASSUME NEW x \in Stores
          PROVE  /\ \A i \in 1..(Len(queue[x]) - off[x]) : queue'[x][i] = queue[x][i + off[x]]
                 /\ x = b => /\ Len(queue'[x]) = Len(queue[x]) - off[x] + 1
                             /\ queue'[x][Len(queue'[x])] = r
                 /\ x # b => Len(queue'[x]) = Len(queue[x]) - off[x]
      <4>0. off[x] = 0 /\ Len(queue[x]) \in Nat /\ queue[x] \in Seq(Requests)
        BY <2>3, <3>2
      <4>n. Len(queue[x]) - off[x] = Len(queue[x]) /\ \A i \in Int : i + off[x] = i
        BY <4>0
      <4>1. CASE x = b
        <5>1. queue'[x] = Append(queue[x], r)
          BY <2>2, <2>3, <4>1
        <5>2. /\ Len(queue'[x]) = Len(queue[x]) + 1
              /\ queue'[x][Len(queue[x]) + 1] = r
              /\ \A i \in 1..Len(queue[x]) : queue'[x][i] = queue[x][i]
          BY <4>0, <5>1, AppendPlaces
        <5> QED
          BY <4>0, <4>n, <4>1, <5>2
      <4>2. CASE x # b
        <5>1. queue'[x] = queue[x]
          BY <2>2, <2>3, <4>2
        <5> QED
          BY <4>0, <4>n, <4>2, <5>1
      <4> QED
        BY <4>1, <4>2
    <3>4. Shifted(off, r, t)
      <4>1. \A x \in Stores : ~ (off[x] = 1)
        BY <3>2
      <4>2. pc[r] \notin Suspended
        BY <1>1, <2>3
      <4> QED
        BY <2>3, <3>2, <3>3, <4>1, <4>2 DEF Shifted
    <3> QED
      BY <1>1, <2>2, <2>3, <3>1, <3>2, <3>4, QueueStep DEF OrderInv
  <2>9. Onward
    <3>1. clock' >= clock
      BY <1>1, <2>3
    <3> QED
      BY <1>1, <2>2, <2>3, <3>1, RequestOnward
  <2>10. \A q \in Requests : pc'[q] = "upsert" => pc[q] = "upsert"
    BY <2>2, <2>3
  <2>11. RowInv' /\ RevInv' /\ TableInv' /\ TableMoves
    BY <1>1, <2>9, <2>10, RowsRest
  <2> QED
    BY <2>4, <2>5, <2>7, <2>8, <2>11 DEF OrderInv
<1> QED
  BY <1>2, <1>3

\* An attempt its client has given up on is lost.
LEMMA LoseKeepsOrder ==
    ASSUME IndInv, IndInv', OrderInv, NEW r \in Requests, Lose(r)
    PROVE  OrderInv' /\ TableMoves
BY EndKeepsOrder DEF Lose, clientVars, tables


\* What a client sends comes after all it has sent; nothing else moves.
LEMMA SendKeepsOrder ==
    ASSUME IndInv, IndInv', OrderInv, NEW r \in Requests, ~ Sent(r), SendInv',
           \A q \in Requests : Sent(q) => ~ Before(r, q),
           \A q \in Requests : Known(q) => Body(q)' = Body(q),
           pc' = [pc EXCEPT ![r] = "wire"], reply' = reply, queue' = queue, row' = row,
           missions' = missions, inventories' = inventories, doubt' = doubt, clock' = clock
    PROVE  OrderInv' /\ TableMoves
<1>1. /\ pc \in [Requests -> Stages] /\ clock \in Nat
      /\ pc'[r] = "wire" /\ pc[r] = "unsent"
      /\ \A q \in Requests \ {r} : pc'[q] = pc[q]
      /\ "wire" \notin Suspended /\ "unsent" \notin Suspended
  BY DEF IndInv, TypeOK, Sent, Suspended
<1>2. reply[r] = "none"
  BY <1>1 DEF OrderInv, LaneInv
<1>3. \A q \in Requests : Sent(q) =>
         q # r /\ pc'[q] = pc[q] /\ Sent(q)' /\ Body(q)' = Body(q) /\ pc[q] \in Stages
  BY <1>1, SentKnown DEF Sent
<1>4. \A q \in Requests : Sent(q)' => q = r \/ Sent(q)
  BY <1>1 DEF Sent
<1>5. \A q \in Requests : pc'[q] \in Suspended \cup {"upsert"} => Sent(q) /\ q # r
  BY <1>1, <1>4 DEF Sent, Suspended
<1>6. LaneInv'
  <2> SUFFICES ASSUME NEW q \in Requests
               PROVE  /\ pc'[q] \in Suspended => Body(q)'.owner = q.collector
                      /\ pc'[q] = "validate" => Body(q)'.kind # "generic"
                      /\ pc'[q] = "upsert" => Body(q)'.kind # "generic"
                      /\ reply'[q] # "none" => pc'[q] = "done"
    BY DEF LaneInv
  <2>1. CASE q = r
    BY <1>1, <1>2, <2>1 DEF Suspended
  <2>2. CASE q # r
    BY <1>1, <1>3, <1>5, <2>2 DEF OrderInv, LaneInv, Suspended
  <2> QED
    BY <2>1, <2>2
<1>7. FlowInv'
  <2> SUFFICES ASSUME NEW p \in Requests, NEW q \in Requests, Sent(p)', Sent(q)', Before(p, q),
                      SameKind(p, q)'
               PROVE  /\ pc'[q] \in Suspended => Rank[pc'[p]] >= Rank[pc'[q]]
                      /\ reply'[q] = "409" => Rank[pc'[p]] >= Rank["insert"]
    BY DEF FlowInv, Before
  <2>1. CASE q = r
    BY <1>1, <1>2, <2>1
  <2>2. CASE q # r
    <3>1. Sent(q) /\ Sent(p) /\ p # r
      BY <1>4, <2>2
    <3>2. SameKind(p, q)
      BY <1>3, <3>1 DEF SameKind
    <3> QED
      BY <1>3, <3>1, <3>2 DEF OrderInv, FlowInv
  <2> QED
    BY <2>1, <2>2
<1>8. QueueInv'
  <2>1. \A s \in Stores : \A i \in 1..Len(queue[s]) :
            queue[s][i] \in Requests /\ pc[queue[s][i]] \in Suspended /\ At(queue[s][i]) = s
    BY DEF OrderInv, QueueInv, IndInv, TypeOK
  <2>2. \A q \in Requests : pc[q] \in Suspended =>
            pc'[q] = pc[q] /\ Body(q)' = Body(q) /\ At(q)' = At(q)
    BY <1>1, <1>3 DEF At, Sent, Suspended
  <2>3. \A q \in Requests : pc'[q] \in Suspended => pc[q] \in Suspended
    BY <1>1
  <2>4. \A p, q \in Requests : pc[p] \in Suspended /\ pc[q] \in Suspended =>
            (SameKind(p, q)' <=> SameKind(p, q))
    BY <2>2 DEF SameKind
  <2> QED
    BY <2>1, <2>2, <2>3, <2>4 DEF OrderInv, QueueInv, Before
<1>9. Onward
  <2>1. \A q \in Requests : Sent(q) => Rank[pc'[q]] >= Rank[pc[q]]
    BY <1>3, Ranks
  <2>2. \A p, q \in Requests : ~ Sent(p) /\ Sent(p)' /\ Sent(q) => ~ Before(p, q)
    BY <1>4
  <2>3. clock' >= clock
    BY <1>1
  <2> QED
    BY <1>3, <2>1, <2>2, <2>3 DEF Onward
<1>10. \A q \in Requests : pc'[q] = "upsert" => pc[q] = "upsert"
  BY <1>1
<1>11. RowInv' /\ RevInv' /\ TableInv' /\ TableMoves
  BY <1>9, <1>10, RowsRest
<1> QED
  BY <1>6, <1>7, <1>8, <1>11 DEF OrderInv

\* The first attempt of a new submission.
LEMMA SubmitKeepsOrder ==
    ASSUME IndInv, IndInv', OrderInv, NEW c \in Collectors, NEW b \in Bodies, Submit(c, b)
    PROVE  OrderInv' /\ TableMoves
<1>0. PICK n : n = Len(bodies[c])
  OBVIOUS
<1>r. PICK r : r = [collector |-> c, sub |-> n + 1, att |-> 1]
  OBVIOUS
<1>1. /\ bodies' = [bodies EXCEPT ![c] = Append(@, b)]
      /\ attempt' = [attempt EXCEPT ![c] = 1] /\ n < MaxSubmissions
      /\ pc' = [pc EXCEPT ![r] = "wire"]
      /\ reply' = reply /\ queue' = queue /\ row' = row /\ clock' = clock
      /\ missions' = missions /\ inventories' = inventories /\ doubt' = doubt
  BY <1>0, <1>r DEF Submit, tables
<1>2. TypeOK /\ bodies[c] \in Seq(Bodies) /\ n \in Nat
  BY <1>0 DEF IndInv, TypeOK
<1>3. r \in Requests /\ r.collector = c /\ r.sub = n + 1 /\ r.att = 1
  BY <1>1, <1>2, <1>r, IngestionAssumption DEF Requests
<1>4. /\ \A e \in Collectors : Len(bodies'[e]) = IF e = c THEN n + 1 ELSE Len(bodies[e])
      /\ \A e \in Collectors : \A i \in 1..Len(bodies[e]) : bodies'[e][i] = bodies[e][i]
  BY <1>0, <1>1, <1>2 DEF TypeOK
<1>5. \A q \in Requests : q.collector \in Collectors /\ q.sub \in Nat /\ q.sub >= 1
                          /\ Len(bodies[q.collector]) \in Nat
  BY <1>2, RequestFields DEF TypeOK
<1>6. \A q \in Requests : Known(q) => Body(q)' = Body(q)
  BY <1>4, <1>5 DEF Known, Body
<1>7. \A q \in Requests : Sent(q) /\ q.collector = c => q.sub <= n
  BY <1>0, SentKnown DEF Known
<1>8. ~ Sent(r)
  BY <1>2, <1>3, <1>7
<1>9. \A q \in Requests : Sent(q) => ~ Before(r, q)
  BY <1>2, <1>3, <1>5, <1>7 DEF Before
<1>10. SendInv'
  <2> SUFFICES ASSUME NEW q \in Requests, Sent(q)'
               PROVE  \/ q.sub < Len(bodies'[q.collector])
                      \/ /\ q.sub = Len(bodies'[q.collector])
                         /\ attempt'[q.collector] = 0 \/ q.att <= attempt'[q.collector]
    BY DEF SendInv
  <2>1. CASE q = r
    BY <1>1, <1>2, <1>3, <1>4, <1>5, <2>1 DEF TypeOK
  <2>2. CASE q # r /\ q.collector = c
    <3>1. Sent(q)
      BY <1>1, <1>2, <2>2 DEF Sent, TypeOK
    <3> QED
      BY <1>2, <1>4, <1>5, <1>7, <2>2, <3>1
  <2>3. CASE q.collector # c
    <3>1. Sent(q) /\ attempt'[q.collector] = attempt[q.collector]
      BY <1>1, <1>2, <1>3, <1>5, <2>3 DEF Sent, TypeOK
    <3> QED
      BY <1>4, <1>5, <2>3, <3>1 DEF OrderInv, SendInv
  <2> QED
    BY <2>1, <2>2, <2>3
<1> QED
  BY <1>1, <1>3, <1>6, <1>8, <1>9, <1>10, SendKeepsOrder

\* The client gets its answer, times out or stops: it sends again or goes idle.
LEMMA ClientKeepsOrder ==
    ASSUME IndInv, IndInv', OrderInv, NEW c \in Collectors, GetAnswer(c) \/ TimeOut(c) \/ Abort(c)
    PROVE  OrderInv' /\ TableMoves
<1>0. PICK r : r = [Current(c) EXCEPT !.att = @ + 1]
  OBVIOUS
<1>1. /\ attempt[c] # 0 /\ bodies' = bodies
      /\ reply' = reply /\ queue' = queue /\ row' = row /\ clock' = clock
      /\ missions' = missions /\ inventories' = inventories /\ doubt' = doubt
  BY DEF GetAnswer, TimeOut, Abort, tables
<1>2. TypeOK /\ Len(bodies[c]) \in Nat /\ Len(bodies[c]) # 0 /\ Len(bodies[c]) <= MaxSubmissions
      /\ attempt[c] \in Nat
  BY <1>1, IngestionAssumption DEF IndInv, SentInv, TypeOK
<1>3. \/ attempt' = [attempt EXCEPT ![c] = 0] /\ pc' = pc
      \/ /\ attempt[c] < MaxAttempts /\ attempt' = [attempt EXCEPT ![c] = @ + 1]
         /\ pc' = [pc EXCEPT ![r] = "wire"]
  BY <1>0 DEF GetAnswer, TimeOut, Abort, RetryOrGiveUp
<1>4. CASE attempt' = [attempt EXCEPT ![c] = 0] /\ pc' = pc
  <2>1. SendInv'
    <3> SUFFICES ASSUME NEW q \in Requests, Sent(q)
                 PROVE  \/ q.sub < Len(bodies[q.collector])
                        \/ /\ q.sub = Len(bodies[q.collector])
                           /\ attempt'[q.collector] = 0 \/ q.att <= attempt'[q.collector]
      BY <1>1, <1>4 DEF SendInv, Sent
    <3>1. attempt'[q.collector] = 0 \/ attempt'[q.collector] = attempt[q.collector]
      BY <1>2, <1>4, RequestFields DEF TypeOK
    <3> QED
      BY <3>1 DEF OrderInv, SendInv
  <2>2. TableMoves
    BY <1>1, TablesRest
  <2> QED
    BY <1>1, <1>4, <2>1, <2>2, RestKeepsOrder DEF OrderInv
<1>5. CASE /\ attempt[c] < MaxAttempts /\ attempt' = [attempt EXCEPT ![c] = @ + 1]
           /\ pc' = [pc EXCEPT ![r] = "wire"]
  <2>1. r = [collector |-> c, sub |-> Len(bodies[c]), att |-> attempt[c] + 1]
    BY <1>0 DEF Current
  <2>2. r \in Requests /\ r.collector = c /\ r.sub = Len(bodies[c]) /\ r.att = attempt[c] + 1
    <3>1. attempt[c] + 1 \in 1..MaxAttempts /\ Len(bodies[c]) \in 1..MaxSubmissions
      BY <1>2, <1>5, IngestionAssumption DEF TypeOK
    <3> QED
      BY <2>1, <3>1 DEF Requests
  <2>3. \A q \in Requests : q.att \in Nat /\ q.sub \in Nat
    BY IngestionAssumption DEF Requests
  <2>4. \A q \in Requests : Sent(q) /\ q.collector = c =>
            q.sub < r.sub \/ (q.sub = r.sub /\ q.att < r.att)
    BY <1>1, <1>2, <2>2, <2>3 DEF OrderInv, SendInv
  <2>5. ~ Sent(r)
    BY <2>2, <2>3, <2>4
  <2>6. \A q \in Requests : Sent(q) => ~ Before(r, q)
    BY <2>2, <2>3, <2>4 DEF Before
  <2>7. SendInv'
    <3> SUFFICES ASSUME NEW q \in Requests, Sent(q)'
                 PROVE  \/ q.sub < Len(bodies[q.collector])
                        \/ /\ q.sub = Len(bodies[q.collector])
                           /\ attempt'[q.collector] = 0 \/ q.att <= attempt'[q.collector]
      BY <1>1 DEF SendInv
    <3>1. attempt'[c] = attempt[c] + 1
      BY <1>2, <1>5 DEF TypeOK
    <3>2. CASE q = r
      BY <1>2, <2>2, <3>1, <3>2
    <3>3. CASE q # r /\ q.collector = c
      <4>1. Sent(q)
        BY <1>2, <1>5, <3>3 DEF Sent, TypeOK
      <4> QED
        BY <1>1, <1>2, <2>2, <2>3, <2>4, <3>1, <3>3, <4>1
    <3>4. CASE q.collector # c
      <4>1. Sent(q) /\ attempt'[q.collector] = attempt[q.collector]
        BY <1>2, <1>5, <2>2, <3>4, RequestFields DEF Sent, TypeOK
      <4> QED
        BY <4>1 DEF OrderInv, SendInv
    <3> QED
      BY <3>2, <3>3, <3>4
  <2>8. \A q \in Requests : Known(q) => Body(q)' = Body(q)
    BY <1>1 DEF Body
  <2> QED
    BY <1>1, <1>5, <2>2, <2>5, <2>6, <2>7, <2>8, SendKeepsOrder
<1> QED
  BY <1>3, <1>4, <1>5

\* Every step keeps the order, and moves the tables only that way.
LEMMA OrderStep ==
    ASSUME ~ LateArrival, IndInv, IndInv', OrderInv, [Next]_vars
    PROVE  OrderInv' /\ TableMoves
<1>1. CASE UNCHANGED vars
  <2>1. TableMoves
    BY <1>1, TablesRest DEF vars
  <2>2. SendInv'
    BY <1>1 DEF vars, OrderInv, SendInv, Sent
  <2> QED
    BY <1>1, <2>1, <2>2, RestKeepsOrder DEF vars, OrderInv
<1>2. ASSUME NEW r \in Requests, Serve(r)
      PROVE  OrderInv' /\ TableMoves
  BY <1>2, ValidateKeepsOrder, FailureKeepsOrder, InsertEventKeepsOrder, ProjectKeepsOrder,
     UpsertKeepsOrder DEF Serve
<1>3. ASSUME NEW r \in Requests, Arrive(r) \/ Lose(r)
      PROVE  OrderInv' /\ TableMoves
  BY <1>3, ArriveKeepsOrder, LoseKeepsOrder
<1>4. ASSUME NEW c \in Collectors, GetAnswer(c) \/ TimeOut(c) \/ Abort(c)
      PROVE  OrderInv' /\ TableMoves
  BY <1>4, ClientKeepsOrder
<1>5. ASSUME NEW c \in Collectors, NEW b \in Bodies, Submit(c, b)
      PROVE  OrderInv' /\ TableMoves
  BY <1>5, SubmitKeepsOrder
<1>6. ASSUME NEW d \in doubt, Land(d)
      PROVE  OrderInv' /\ TableMoves
  BY <1>6, LandKeepsOrder
<1>7. CASE Crash
  BY <1>7, CrashKeepsOrder
<1> QED
  BY <1>1, <1>2, <1>3, <1>4, <1>5, <1>6, <1>7 DEF Next

\* Nothing has been sent yet.
LEMMA OrderInit ==
    ASSUME Init
    PROVE  OrderInv
<1>1. \A r \in Requests : pc[r] = "unsent" /\ reply[r] = "none" /\ ~ Sent(r)
  BY DEF Init, Sent
<1>2. Rows = {}
  BY <1>1 DEF Init, Rows
<1>3. "unsent" \notin Suspended
  BY DEF Suspended
<1>4. SendInv /\ LaneInv /\ FlowInv
  BY <1>1, <1>3 DEF SendInv, LaneInv, FlowInv
<1>5. QueueInv
  BY <1>1, <1>3 DEF Init, QueueInv
<1>6. RowInv /\ RevInv
  BY <1>2 DEF RowInv, RevInv
<1>7. TableInv
  BY DEF Init, TableInv
<1> QED
  BY <1>4, <1>5, <1>6, <1>7 DEF OrderInv


-----------------------------------------------------------------------------
(* What the order means for the projections. *)

\* A collector's updates of a mission never go back.
BodiesInv ==
    \A c \in Collectors : \A i, j \in 1..Len(bodies[c]) :
        /\ i <= j
        /\ bodies[c][i].kind = "mission_update" /\ bodies[c][j].kind = "mission_update"
        /\ bodies[c][i].mission = bodies[c][j].mission
        /\ bodies[c][i].state \in MissionStates /\ bodies[c][j].state \in MissionStates
        => StateIndex[bodies[c][j].state] >= StateIndex[bodies[c][i].state]

\* validate let r through.
Passed(r) == pc[r] \in {"insert", "project", "upsert"} \/ reply[r] \in {"202", "503"}

\* The transition asked for is legal, or the mission is further already.
LegalOrBehind(b, current) ==
    /\ b.state \in MissionStates
    /\ \/ Progress(current) > StateIndex[b.state]
       \/ IsValidTransition(StateOf(current), b.state, b.backfill)

\* An update that validate let through stays legal until the mission is further.
LegalInv ==
    \A r \in Requests : Passed(r) /\ Body(r).kind = "mission_update" =>
        LegalOrBehind(Body(r), missions[Body(r).mission])

\* States have positions, from 0 to 5, and a row is ahead of no row.
LEMMA Positions ==
    /\ \A s \in MissionStates : StateIndex[s] \in 0..5 /\ (StateIndex[s] = 0 <=> s = "Created")
    /\ Progress(None) = -1
    /\ \A w \in MissionRow : /\ w # None /\ w.state \in MissionStates /\ w.state # None
                             /\ StateOf(w) = w.state /\ Progress(w) = StateIndex[w.state]
<1>1. \A s \in MissionStates : StateIndex[s] \in 0..5 /\ (StateIndex[s] = 0 <=> s = "Created")
  BY DEF MissionStates, StateIndex
<1>2. Progress(None) = -1
  BY DEF Progress, Position, StateOf
<1>3. ASSUME NEW w \in MissionRow
      PROVE  /\ w # None /\ w.state \in MissionStates /\ w.state # None
             /\ StateOf(w) = w.state /\ Progress(w) = StateIndex[w.state]
  <2>1. w # None /\ w.state # None /\ w.state \in MissionStates
    BY NoneAssumption DEF MissionRow
  <2> QED
    BY <2>1 DEF StateOf, Progress, Position
<1> QED
  BY <1>1, <1>2, <1>3

\* A legal transition stays legal while the mission goes on, until it is further.
LEMMA LegalOnward ==
    ASSUME NEW b, NEW v \in MissionRow \cup {None}, NEW w \in MissionRow \cup {None},
           LegalOrBehind(b, v), Progress(w) >= Progress(v)
    PROVE  LegalOrBehind(b, w)
<1> DEFINE k == StateIndex[b.state]
<1>1. b.state \in MissionStates /\ k \in 0..5 /\ (k = 0 <=> b.state = "Created")
  BY Positions DEF LegalOrBehind
<1>2. \A x \in MissionRow \cup {None} : Progress(x) \in -1..5 /\ (Progress(x) = -1 <=> x = None)
  BY Positions
<1>3. CASE Progress(v) > k
  BY <1>1, <1>2, <1>3 DEF LegalOrBehind
<1>4. CASE ~ (Progress(w) > k) /\ ~ (Progress(v) > k)
  <2>1. IsValidTransition(StateOf(v), b.state, b.backfill)
    BY <1>4 DEF LegalOrBehind
  <2>2. CASE w = None
    <3>1. v = None
      BY <1>2, <2>2
    <3> QED
      BY <1>1, <2>1, <2>2, <3>1 DEF LegalOrBehind
  <2>3. CASE w # None /\ v = None
    <3>1. b.backfill \/ k = 0
      BY <1>1, <2>1, <2>3 DEF IsValidTransition, StateOf
    <3>2. Progress(w) \in 0..5 /\ Progress(w) <= k /\ Progress(w) = StateIndex[StateOf(w)]
          /\ StateOf(w) # None
      BY <1>1, <1>2, <1>4, <2>3, Positions
    <3>3. k - StateIndex[StateOf(w)] >= 0 /\ (k = 0 => k - StateIndex[StateOf(w)] = 0)
      BY <1>1, <3>2
    <3>4. IsValidTransition(StateOf(w), b.state, b.backfill)
      BY <1>1, <3>1, <3>2, <3>3 DEF IsValidTransition
    <3> QED
      BY <1>1, <3>4 DEF LegalOrBehind
  <2>4. CASE w # None /\ v # None
    <3>1. /\ Progress(v) \in 0..5 /\ Progress(v) = StateIndex[StateOf(v)] /\ StateOf(v) # None
          /\ Progress(w) \in 0..5 /\ Progress(w) = StateIndex[StateOf(w)] /\ StateOf(w) # None
          /\ Progress(w) <= k
      BY <1>1, <1>2, <1>4, <2>4, Positions
    <3>2. IF b.backfill THEN k - Progress(v) >= 0 ELSE k - Progress(v) \in {0, 1}
      BY <2>1, <3>1 DEF IsValidTransition
    <3>3. IF b.backfill THEN k - Progress(w) >= 0 ELSE k - Progress(w) \in {0, 1}
      BY <1>1, <3>1, <3>2
    <3>4. IsValidTransition(StateOf(w), b.state, b.backfill)
      BY <1>1, <3>1, <3>3 DEF IsValidTransition
    <3> QED
      BY <1>1, <3>4 DEF LegalOrBehind
  <2> QED
    BY <2>2, <2>3, <2>4
<1> QED
  BY <1>1, <1>3, <1>4 DEF LegalOrBehind

\* What a later submission reports of a mission is not behind an earlier one.
LEMMA LaterNotBehind ==
    ASSUME IndInv, BodiesInv, NEW q \in Requests, NEW r \in Requests, Known(q), Known(r),
           q.collector = r.collector, q.sub <= r.sub,
           Body(q).kind = "mission_update", Body(r).kind = "mission_update",
           Body(q).mission = Body(r).mission,
           Body(q).state \in MissionStates, Body(r).state \in MissionStates
    PROVE  StateIndex[Body(r).state] >= StateIndex[Body(q).state]
<1>1. /\ r.collector \in Collectors /\ Len(bodies[r.collector]) \in Nat
      /\ q.sub \in 1..Len(bodies[r.collector]) /\ r.sub \in 1..Len(bodies[r.collector])
  BY RequestFields DEF Known, IndInv, TypeOK
<1> QED
  BY <1>1 DEF BodiesInv, Body

\* A row of the missions table is of a known request that reported it.
LEMMA MissionRowOf ==
    ASSUME IndInv, RowInv, NEW w \in Rows, Body(w.by).kind = "mission_update"
    PROVE  /\ w \in MissionRow /\ w.by \in Requests /\ Known(w.by) /\ Body(w.by) \in Bodies
           /\ w.state = Body(w.by).state /\ w.rev \in Nat
           /\ Body(w.by).owner = w.by.collector
<1>1. w.by \in Requests /\ Known(w.by) /\ w.rev \in Nat
  BY RowSent, SentKnown
<1>2. w \in MissionRow /\ w.state = Body(w.by).state /\ Body(w.by).owner = w.by.collector
  BY DEF RowInv, Tells
<1>3. Body(w.by) \in Bodies
  BY <1>1, BodyKnown DEF IndInv
<1> QED
  BY <1>1, <1>2, <1>3

\* The states of a mission are in the order of the rows' revisions.
LEMMA RowsProgress ==
    ASSUME OneReporter, IndInv, OrderInv, BodiesInv, NEW v \in Rows, NEW w \in Rows,
           Body(v.by).kind = "mission_update", Body(w.by).kind = "mission_update",
           Body(v.by).mission = Body(w.by).mission, v.rev <= w.rev
    PROVE  StateIndex[v.state] <= StateIndex[w.state]
<1>1. /\ v \in MissionRow /\ v.by \in Requests /\ Known(v.by) /\ Body(v.by) \in Bodies
      /\ v.state = Body(v.by).state /\ Body(v.by).owner = v.by.collector
      /\ w \in MissionRow /\ w.by \in Requests /\ Known(w.by) /\ Body(w.by) \in Bodies
      /\ w.state = Body(w.by).state /\ Body(w.by).owner = w.by.collector
  BY MissionRowOf DEF OrderInv
<1>2. v.by.collector = w.by.collector
  BY <1>1 DEF OneReporter
<1>3. SameKind(v.by, w.by)
  BY DEF SameKind
<1>4. v.by = w.by \/ Before(v.by, w.by)
  BY <1>2, <1>3 DEF OrderInv, RevInv
<1>5. v.by.sub <= w.by.sub
  BY <1>1, <1>4, BeforeSub, RequestFields
<1>6. v.state \in MissionStates /\ w.state \in MissionStates
  BY <1>1 DEF MissionRow
<1>7. StateIndex[Body(w.by).state] >= StateIndex[Body(v.by).state]
  BY <1>1, <1>2, <1>5, <1>6, LaterNotBehind
<1>8. StateIndex[v.state] \in 0..5 /\ StateIndex[w.state] \in 0..5
  BY <1>6, Positions
<1> QED
  BY <1>1, <1>7, <1>8

\* Until an update takes its revision, its mission is not further than it reports.
LEMMA NotAhead ==
    ASSUME OneReporter, IndInv, OrderInv, BodiesInv, NEW r \in Requests,
           pc[r] \in {"validate", "insert", "project"},
           Body(r).kind = "mission_update", Body(r).state \in MissionStates
    PROVE  Progress(missions[Body(r).mission]) <= StateIndex[Body(r).state]
<1> DEFINE m == Body(r).mission
           v == missions[m]
<1>1. /\ Known(r) /\ Sent(r) /\ Body(r) \in Bodies /\ m \in Missions
      /\ Body(r).owner = r.collector
      /\ v \in MissionRow \cup {None}
      /\ StateIndex[Body(r).state] \in 0..5
  BY SentKnown, BodyKnown, Positions DEF Sent, OrderInv, LaneInv, Suspended, IndInv, TypeOK
<1>2. CASE v = None
  BY <1>1, <1>2, Positions
<1>3. CASE v # None
  <2>1. v \in Rows /\ Body(v.by).kind = "mission_update" /\ Body(v.by).mission = m
    BY <1>1, <1>3 DEF Rows, OrderInv, TableInv
  <2> HIDE DEF v
  <2>2. /\ v \in MissionRow /\ v.by \in Requests /\ Known(v.by) /\ Body(v.by) \in Bodies
        /\ v.state = Body(v.by).state /\ Body(v.by).owner = v.by.collector
    BY <2>1, MissionRowOf DEF OrderInv
  <2>3. v.by.collector = r.collector
    BY <1>1, <2>1, <2>2 DEF OneReporter
  <2>4. SameKind(r, v.by)
    BY <2>1 DEF SameKind
  <2>5. pc[v.by] \in {"upsert", "done"}
    BY <2>1 DEF OrderInv, RowInv
  <2>6. ~ Before(r, v.by)
    <3>1. SUFFICES ASSUME Before(r, v.by) PROVE FALSE
      OBVIOUS
    <3>2. Rank[pc[r]] >= Rank["upsert"]
      BY <1>1, <2>1, <2>4, <3>1 DEF OrderInv, RowInv
    <3> QED
      BY <3>2 DEF Rank
  <2>7. Before(v.by, r)
    BY <2>2, <2>3, <2>5, <2>6, BeforeOrder
  <2>8. v.by.sub <= r.sub
    BY <2>2, <2>7, BeforeSub
  <2>9. v.state \in MissionStates
    BY <2>2 DEF MissionRow
  <2>10. StateIndex[Body(r).state] >= StateIndex[Body(v.by).state]
    BY <1>1, <2>1, <2>2, <2>3, <2>8, <2>9, LaterNotBehind
  <2>11. Progress(v) = StateIndex[v.state] /\ StateIndex[v.state] \in 0..5
    BY <2>2, <2>9, Positions
  <2>12. Progress(v) <= StateIndex[Body(r).state]
    BY <1>1, <2>2, <2>10, <2>11
  <2> QED
    BY <2>12 DEF v
<1> QED
  BY <1>2, <1>3

-----------------------------------------------------------------------------
(* The steps. *)

\* No step takes a mission back.
LEMMA MissionStep ==
    ASSUME OneReporter, IndInv, IndInv', OrderInv, BodiesInv, TableMoves, NEW m \in Missions
    PROVE  Progress(missions'[m]) >= Progress(missions[m])
<1> DEFINE v == missions[m]
           w == missions'[m]
<1>1. v \in MissionRow \cup {None} /\ w \in MissionRow \cup {None}
  BY DEF IndInv, TypeOK
<1>2. Progress(v) \in -1..5 /\ Progress(w) \in -1..5 /\ (w = None <=> Progress(w) = -1)
  BY <1>1, Positions
<1>3. CASE w = v
  BY <1>2, <1>3
<1>4. CASE w # v /\ v = None
  BY <1>2, <1>4, Positions
<1>5. CASE w # v /\ v # None
  <2>1. /\ w \in Rows /\ Body(w.by).kind = "mission_update" /\ Body(w.by).mission = m
        /\ w.rev >= v.rev
    BY <1>5 DEF TableMoves
  <2>2. v \in Rows /\ Body(v.by).kind = "mission_update" /\ Body(v.by).mission = m
    BY <1>5 DEF Rows, OrderInv, TableInv
  <2> HIDE DEF v, w
  <2>3. v.rev \in Nat /\ w.rev \in Nat /\ v \in MissionRow /\ w \in MissionRow
    BY <2>1, <2>2, MissionRowOf DEF OrderInv
  <2>4. v.rev <= w.rev
    BY <2>1, <2>3
  <2>5. StateIndex[v.state] <= StateIndex[w.state]
    BY <2>1, <2>2, <2>4, RowsProgress
  <2>6. Progress(v) = StateIndex[v.state] /\ Progress(w) = StateIndex[w.state]
    BY <2>3, Positions
  <2>7. Progress(w) >= Progress(v)
    BY <1>2, <2>5, <2>6
  <2> QED
    BY <2>7 DEF v, w
<1> QED
  BY <1>3, <1>4, <1>5

\* No step takes an inventory back.
LEMMA InventoryStep ==
    ASSUME IndInv, IndInv', OrderInv, TableMoves, NEW c \in Collectors, inventories[c] # None
    PROVE  inventories'[c] # None /\ inventories'[c].reported_at >= inventories[c].reported_at
<1> DEFINE v == inventories[c]
           w == inventories'[c]
<1>1. /\ v \in Rows /\ Body(v.by).kind = "host_inventory" /\ v.by.collector = c
      /\ v \in InventoryRow
  BY DEF Rows, OrderInv, TableInv, IndInv, TypeOK
<1>2. CASE w = v
  BY <1>1, <1>2, NoneAssumption DEF InventoryRow
<1>3. CASE w # v
  <2>1. /\ w \in Rows /\ Body(w.by).kind = "host_inventory" /\ w.by.collector = c
        /\ w.rev >= v.rev
    BY <1>1, <1>3 DEF TableMoves
  <2> HIDE DEF v, w
  <2>2. v.by \in Requests /\ w.by \in Requests /\ v.rev \in Nat /\ w.rev \in Nat
    BY <1>1, <2>1, RowSent DEF OrderInv
  <2>3. SameKind(v.by, w.by) /\ v.rev <= w.rev
    BY <1>1, <2>1, <2>2 DEF SameKind
  <2>4. v.by = w.by \/ Before(v.by, w.by)
    BY <1>1, <2>1, <2>3 DEF OrderInv, RevInv
  <2>5. v.by.sub \in Nat /\ w.by.sub \in Nat /\ v.by.sub <= w.by.sub
    BY <2>2, <2>4, BeforeSub, RequestFields
  <2>6. v.reported_at = v.by.sub /\ w.reported_at = w.by.sub /\ w \in InventoryRow
    BY <1>1, <2>1 DEF OrderInv, RowInv, Tells
  <2>7. w # None /\ w.reported_at >= v.reported_at
    BY <2>5, <2>6, NoneAssumption
  <2> QED
    BY <2>7 DEF v, w
<1> QED
  BY <1>2, <1>3

\* What was submitted stays.
LEMMA BodiesStay ==
    ASSUME IndInv, [Next]_vars
    PROVE  \/ bodies' = bodies
           \/ \E c \in Collectors, b \in Bodies : Submit(c, b)
<1>1. ASSUME NEW r \in Requests, Arrive(r) \/ Serve(r) \/ Lose(r)
      PROVE  bodies' = bodies
  BY <1>1 DEF Arrive, Lose, Serve, Validate, ValidateFails, InsertEvent, InsertFails, Project,
              ProjectFails, Upsert, UpsertFails, clientVars
<1>2. ASSUME NEW c \in Collectors, GetAnswer(c) \/ TimeOut(c) \/ Abort(c)
      PROVE  bodies' = bodies
  BY <1>2 DEF GetAnswer, TimeOut, Abort
<1>3. ASSUME NEW d \in doubt, Land(d)
      PROVE  bodies' = bodies
  BY <1>3 DEF Land, clientVars
<1> QED
  BY <1>1, <1>2, <1>3 DEF Next, vars, Crash, clientVars

\* A submission adds one body at the end.
LEMMA SubmitAdds ==
    ASSUME IndInv, NEW c \in Collectors, NEW b \in Bodies, Submit(c, b)
    PROVE  /\ \A e \in Collectors \ {c} : bodies'[e] = bodies[e]
           /\ Len(bodies[c]) \in Nat /\ Len(bodies'[c]) = Len(bodies[c]) + 1
           /\ bodies'[c][Len(bodies[c]) + 1] = b
           /\ \A i \in 1..Len(bodies[c]) : bodies'[c][i] = bodies[c][i]
<1>1. /\ bodies \in [Collectors -> Seq(Bodies)] /\ bodies[c] \in Seq(Bodies)
      /\ bodies' = [bodies EXCEPT ![c] = Append(@, b)]
  BY DEF Submit, IndInv, TypeOK
<1>2. bodies'[c] = Append(bodies[c], b)
  BY <1>1
<1>3. \A e \in Collectors \ {c} : bodies'[e] = bodies[e]
  BY <1>1
<1> QED
  BY <1>1, <1>2, <1>3, AppendPlaces

\* A known request keeps its body.
LEMMA BodyStays ==
    ASSUME IndInv, [Next]_vars, NEW r \in Requests, Known(r)
    PROVE  Body(r)' = Body(r)
<1>1. CASE bodies' = bodies
  BY <1>1 DEF Body
<1>2. ASSUME NEW c \in Collectors, NEW b \in Bodies, Submit(c, b)
      PROVE  Body(r)' = Body(r)
  <2>1. r.collector \in Collectors /\ r.sub \in 1..Len(bodies[r.collector])
    BY RequestFields DEF Known, IndInv, TypeOK
  <2>2. CASE r.collector = c
    BY <1>2, <2>1, <2>2, SubmitAdds DEF Body
  <2>3. CASE r.collector # c
    BY <1>2, <2>1, <2>3, SubmitAdds DEF Body
  <2> QED
    BY <2>2, <2>3
<1> QED
  BY <1>1, <1>2, BodiesStay

\* Submissions come in the order of the missions' states.
LEMMA BodiesStep ==
    ASSUME IndInv, BodiesInv, [Next]_vars
    PROVE  BodiesInv'
<1>1. CASE bodies' = bodies
  BY <1>1 DEF BodiesInv
<1>2. ASSUME NEW c \in Collectors, NEW b \in Bodies, Submit(c, b)
      PROVE  BodiesInv'
  <2> DEFINE n == Len(bodies[c])
  <2>1. /\ \A e \in Collectors \ {c} : bodies'[e] = bodies[e]
        /\ n \in Nat /\ Len(bodies'[c]) = n + 1 /\ bodies'[c][n + 1] = b
        /\ \A i \in 1..n : bodies'[c][i] = bodies[c][i]
    BY <1>2, SubmitAdds
  <2> SUFFICES ASSUME NEW e \in Collectors, NEW i \in 1..Len(bodies'[e]),
                      NEW j \in 1..Len(bodies'[e]), i <= j,
                      bodies'[e][i].kind = "mission_update",
                      bodies'[e][j].kind = "mission_update",
                      bodies'[e][i].mission = bodies'[e][j].mission,
                      bodies'[e][i].state \in MissionStates, bodies'[e][j].state \in MissionStates
               PROVE  StateIndex[bodies'[e][j].state] >= StateIndex[bodies'[e][i].state]
    BY DEF BodiesInv
  <2>2. CASE e # c
    BY <2>1, <2>2 DEF BodiesInv
  <2>3. CASE e = c /\ j <= n
    <3>1. i \in 1..n /\ j \in 1..n /\ bodies'[c][i] = bodies[c][i] /\ bodies'[c][j] = bodies[c][j]
      BY <2>1, <2>3
    <3> QED
      BY <2>3, <3>1 DEF BodiesInv
  <2>4. CASE e = c /\ j = n + 1 /\ i = n + 1
    BY <2>4, Positions
  <2>5. CASE e = c /\ j = n + 1 /\ i <= n
    <3>1. i \in 1..n /\ bodies'[c][i] = bodies[c][i] /\ bodies'[c][j] = b
      BY <2>1, <2>5
    <3> QED
      BY <1>2, <2>5, <3>1 DEF Submit, InOrder
  <2> QED
    BY <2>1, <2>2, <2>3, <2>4, <2>5
<1> QED
  BY <1>1, <1>2, BodiesStay

\* Who moves a request or answers it.
LEMMA Moved ==
    ASSUME IndInv, [Next]_vars, NEW r \in Requests, pc'[r] # pc[r] \/ reply'[r] # reply[r]
    PROVE  \/ Serve(r)
           \/ Arrive(r)
           \/ pc'[r] = "wire" /\ reply'[r] = reply[r]
           \/ pc'[r] = "done" /\ reply'[r] = "dropped"
<1>1. pc \in [Requests -> Stages] /\ reply \in [Requests -> Replies]
  BY DEF IndInv, TypeOK
<1>2. ASSUME NEW q \in Requests, Serve(q)
      PROVE  Serve(r)
  <2>1. (\E status : Answer(q, status)) \/ (\E t : MoveTo(q, t))
    BY <1>2 DEF Serve, Validate, ValidateFails, InsertEvent, InsertFails, Project,
                ProjectFails, Upsert, UpsertFails
  <2>2. q = r
    BY <1>1, <2>1 DEF Answer, MoveTo
  <2> QED
    BY <1>2, <2>2
<1>3. ASSUME NEW q \in Requests, Arrive(q)
      PROVE  Arrive(r)
  <2>1. q = r
    BY <1>1, <1>3 DEF Arrive
  <2> QED
    BY <1>3, <2>1
<1>4. ASSUME NEW q \in Requests, Lose(q)
      PROVE  pc'[r] = "done" /\ reply'[r] = "dropped"
  BY <1>1, <1>4 DEF Lose
<1>5. ASSUME NEW c \in Collectors, GetAnswer(c) \/ TimeOut(c) \/ Abort(c)
      PROVE  pc'[r] = "wire" /\ reply'[r] = reply[r]
  BY <1>1, <1>5 DEF GetAnswer, TimeOut, Abort, RetryOrGiveUp
<1>6. ASSUME NEW c \in Collectors, NEW b \in Bodies, Submit(c, b)
      PROVE  pc'[r] = "wire" /\ reply'[r] = reply[r]
  BY <1>1, <1>6 DEF Submit
<1>7. ASSUME NEW d \in doubt, Land(d)
      PROVE  FALSE
  BY <1>7 DEF Land
<1>8. CASE Crash
  BY <1>1, <1>8 DEF Crash
<1>9. CASE UNCHANGED vars
  BY <1>9 DEF vars
<1> QED
  BY <1>2, <1>3, <1>4, <1>5, <1>6, <1>7, <1>8, <1>9 DEF Next

\* Who gets past validate: an update only by a legal transition.
LEMMA Passing ==
    ASSUME IndInv, [Next]_vars, NEW r \in Requests, ~ Passed(r), Passed(r)'
    PROVE  /\ pc[r] \in {"wire", "validate"} /\ missions' = missions /\ bodies' = bodies
           /\ Body(r).kind = "mission_update" =>
                LegalOrBehind(Body(r), missions[Body(r).mission])
<1>1. pc \in [Requests -> Stages] /\ reply \in [Requests -> Replies]
  BY DEF IndInv, TypeOK
<1>2. Serve(r) \/ Arrive(r)
  BY Moved DEF Passed
<1>3. CASE Arrive(r)
  <2>1. pc[r] = "wire" /\ missions' = missions /\ bodies' = bodies
    BY <1>3 DEF Arrive, tables, clientVars
  <2>2. Body(r).kind = "generic"
    BY <1>1, <1>3 DEF Arrive, Passed, Precheck, FirstStage
  <2> QED
    BY <2>1, <2>2
<1>4. CASE Serve(r)
  <2>1. pc[r] \notin {"insert", "project", "upsert"}
    BY DEF Passed
  <2>2. Validate(r) \/ ValidateFails(r)
    BY <1>4, <2>1 DEF Serve, InsertEvent, InsertFails, Project, ProjectFails, Upsert,
                      UpsertFails, Executing
  <2>3. ~ ValidateFails(r)
    BY <1>1 DEF ValidateFails, Answer, Passed
  <2>4. pc[r] = "validate" /\ missions' = missions /\ bodies' = bodies
    BY <2>2, <2>3 DEF Validate, Executing, tables, clientVars
  <2>5. Verdict(r) = "pass"
    BY <1>1, <2>2, <2>3 DEF Validate, Answer, Passed, Verdict
  <2> QED
    BY <2>4, <2>5 DEF Verdict, LegalOrBehind, IsValidTransition
<1> QED
  BY <1>2, <1>3, <1>4

\* Who is answered 202, and who 409.
LEMMA Answered ==
    ASSUME IndInv, [Next]_vars, NEW r \in Requests, reply'[r] # reply[r]
    PROVE  /\ reply'[r] \in {"202", "409"} => Sent(r)
           /\ reply'[r] = "202" => \/ Upsert(r)
                                   \/ Body(r).kind \notin {"mission_update", "host_inventory"}
           /\ reply'[r] = "409" => /\ pc[r] = "validate" /\ Body(r).kind = "mission_update"
                                   /\ ~ IsValidTransition(StateOf(missions[Body(r).mission]),
                                                          Body(r).state, Body(r).backfill)
<1>1. pc \in [Requests -> Stages] /\ reply \in [Requests -> Replies]
  BY DEF IndInv, TypeOK
<1>2. Serve(r) \/ Arrive(r) \/ reply'[r] = "dropped"
  BY Moved
<1>s. /\ Serve(r) \/ Arrive(r) => Sent(r)
      /\ Validate(r) \/ InsertEvent(r) \/ Upsert(r) => Sent(r)
  BY DEF Serve, Validate, ValidateFails, InsertEvent, InsertFails, Project, ProjectFails,
         Upsert, UpsertFails, Arrive, Executing, Sent
<1>3. CASE Arrive(r)
  BY <1>1, <1>s, <1>3 DEF Arrive, Precheck
<1>4. CASE Validate(r)
  BY <1>1, <1>s, <1>4 DEF Validate, Answer, MoveTo, Verdict, Executing
<1>5. CASE InsertEvent(r)
  BY <1>1, <1>s, <1>5 DEF InsertEvent, Answer, MoveTo
<1>6. CASE Project(r)
  BY <1>6 DEF Project, MoveTo
<1>7. CASE Upsert(r)
  BY <1>1, <1>s, <1>7 DEF Upsert, Answer
<1>8. CASE ValidateFails(r) \/ InsertFails(r) \/ ProjectFails(r) \/ UpsertFails(r)
  BY <1>1, <1>8 DEF ValidateFails, InsertFails, ProjectFails, UpsertFails, Answer
<1> QED
  BY <1>2, <1>s, <1>3, <1>4, <1>5, <1>6, <1>7, <1>8 DEF Serve


\* What validate let through stays legal until the mission is further.
LEMMA LegalStep ==
    ASSUME OneReporter, IndInv, IndInv', OrderInv, OrderInv', BodiesInv, LegalInv, TableMoves,
           [Next]_vars
    PROVE  LegalInv'
<1> SUFFICES ASSUME NEW r \in Requests, Passed(r)', Body(r)'.kind = "mission_update"
             PROVE  LegalOrBehind(Body(r)', missions'[Body(r)'.mission])
  BY DEF LegalInv, LegalOrBehind
<1>1. CASE Passed(r)
  <2>1. Known(r)
    BY <1>1, SentKnown DEF Passed, Sent, OrderInv, LaneInv
  <2>2. Body(r)' = Body(r) /\ Body(r).mission \in Missions
    BY <2>1, BodyStays, BodyKnown DEF IndInv
  <2> DEFINE m == Body(r).mission
  <2>3. LegalOrBehind(Body(r), missions[m])
    BY <1>1, <2>2 DEF LegalInv
  <2>4. missions[m] \in MissionRow \cup {None} /\ missions'[m] \in MissionRow \cup {None}
    BY <2>2 DEF IndInv, TypeOK
  <2>5. Progress(missions'[m]) >= Progress(missions[m])
    BY <2>2, MissionStep
  <2>6. LegalOrBehind(Body(r), missions'[m])
    BY <2>3, <2>4, <2>5, LegalOnward
  <2> QED
    BY <2>2, <2>6
<1>2. CASE ~ Passed(r)
  <2>1. /\ missions' = missions /\ bodies' = bodies
        /\ Body(r).kind = "mission_update" =>
             LegalOrBehind(Body(r), missions[Body(r).mission])
    BY <1>2, Passing
  <2>2. Body(r)' = Body(r)
    BY <2>1 DEF Body
  <2> QED
    BY <2>1, <2>2
<1> QED
  BY <1>1, <1>2

\* An accepted update stays visible, and one that is accepted is.
LEMMA AcceptedStep ==
    ASSUME OneReporter, IndInv, IndInv', OrderInv, BodiesInv, LegalInv, AcceptedSticks,
           TableMoves, [Next]_vars
    PROVE  AcceptedSticks'
<1> SUFFICES ASSUME NEW r \in Requests, reply'[r] = "202"
             PROVE  /\ Body(r)'.kind = "mission_update" =>
                         Progress(missions'[Body(r)'.mission]) >= StateIndex[Body(r)'.state]
                    /\ Body(r)'.kind = "host_inventory" =>
                         /\ inventories'[r.collector] # None
                         /\ inventories'[r.collector].reported_at >= Stamp(r)
  BY DEF AcceptedSticks, Stamp
<1>1. Known(r)
  <2>1. CASE reply[r] = "202"
    BY <2>1, SentKnown DEF Sent, OrderInv, LaneInv
  <2>2. CASE reply[r] # "202"
    BY <2>2, Answered, SentKnown
  <2> QED
    BY <2>1, <2>2
<1>2. /\ Body(r)' = Body(r) /\ Body(r).mission \in Missions /\ r.collector \in Collectors
      /\ r.sub \in Nat
  BY <1>1, BodyStays, BodyKnown, RequestFields DEF IndInv
<1> DEFINE m == Body(r).mission
           c == r.collector
<1>3. CASE reply[r] = "202"
  <2>1. ASSUME Body(r).kind = "mission_update"
        PROVE  Progress(missions'[m]) >= StateIndex[Body(r).state]
    <3>1. Progress(missions[m]) >= StateIndex[Body(r).state]
      BY <1>3, <2>1 DEF AcceptedSticks
    <3>2. Progress(missions'[m]) >= Progress(missions[m])
      BY <1>2, MissionStep
    <3>3. Progress(missions[m]) \in -1..5 /\ Progress(missions'[m]) \in -1..5
      <4>1. missions[m] \in MissionRow \cup {None} /\ missions'[m] \in MissionRow \cup {None}
        BY <1>2 DEF IndInv, TypeOK
      <4> QED
        BY <4>1, Positions
    <3>4. Body(r).state \in MissionStates
      BY <1>3, <2>1 DEF LegalInv, Passed, LegalOrBehind
    <3> QED
      BY <3>1, <3>2, <3>3, <3>4, Positions
  <2>2. ASSUME Body(r).kind = "host_inventory"
        PROVE  inventories'[c] # None /\ inventories'[c].reported_at >= Stamp(r)
    <3>1. inventories[c] # None /\ inventories[c].reported_at >= Stamp(r)
      BY <1>3, <2>2 DEF AcceptedSticks
    <3>2. inventories'[c] # None /\ inventories'[c].reported_at >= inventories[c].reported_at
      BY <1>2, <3>1, InventoryStep
    <3>3. inventories[c].reported_at \in Nat /\ inventories'[c].reported_at \in Nat
      BY <1>2, <3>1, <3>2 DEF IndInv, TypeOK, InventoryRow
    <3> QED
      BY <1>2, <3>1, <3>2, <3>3 DEF Stamp
  <2> QED
    BY <1>2, <2>1, <2>2
<1>4. CASE reply[r] # "202" /\ Upsert(r)
  <2> DEFINE w == row[r]
  <2>1. pc[r] = "upsert" /\ w \in Rows /\ RowFits(Body(r), r, w) /\ InsertRow(r, w)
    BY <1>4 DEF Upsert, Executing, Rows, IndInv, StageInv
  <2>2. w.by = r
    BY <2>1 DEF RowFits
  <2> HIDE DEF w
  <2>3. ASSUME Body(r).kind = "mission_update"
        PROVE  Progress(missions'[m]) >= StateIndex[Body(r).state]
    <3> DEFINE v == missions[m]
    <3>1. /\ w \in MissionRow /\ w.state = Body(r).state /\ w.rev \in Nat
          /\ v \in MissionRow \cup {None}
      BY <1>2, <2>1, <2>2, <2>3, MissionRowOf DEF OrderInv, IndInv, TypeOK
    <3>2. missions'[m] = Replace(v, w)
      BY <1>2, <2>1, <2>3 DEF InsertRow, IndInv, TypeOK
    <3>3. Progress(w) = StateIndex[Body(r).state] /\ StateIndex[Body(r).state] \in 0..5
      BY <3>1, Positions
    <3>4. CASE missions'[m] = w
      BY <3>3, <3>4
    <3>5. CASE v # None /\ ~ (w.rev >= v.rev) /\ missions'[m] = v
      <4>1. v \in Rows /\ Body(v.by).kind = "mission_update" /\ Body(v.by).mission = m
        BY <1>2, <3>5 DEF Rows, OrderInv, TableInv
      <4> HIDE DEF v
      <4>2. v \in MissionRow /\ v.rev \in Nat
        BY <4>1, MissionRowOf DEF OrderInv
      <4>3. w.rev <= v.rev
        BY <3>1, <3>5, <4>2
      <4>4. StateIndex[w.state] <= StateIndex[v.state]
        BY <2>1, <2>2, <2>3, <4>1, <4>3, RowsProgress
      <4>5. Progress(v) = StateIndex[v.state] /\ StateIndex[v.state] \in 0..5
        BY <4>2, Positions
      <4> QED
        BY <3>1, <3>3, <3>5, <4>4, <4>5
    <3> QED
      BY <3>2, <3>4, <3>5 DEF Replace
  <2>4. ASSUME Body(r).kind = "host_inventory"
        PROVE  inventories'[c] # None /\ inventories'[c].reported_at >= Stamp(r)
    <3> DEFINE v == inventories[c]
    <3>1. w \in InventoryRow /\ w.reported_at = r.sub /\ w.rev \in Nat /\ w # None
      BY <2>1, <2>2, <2>4, RowSent, NoneAssumption DEF OrderInv, RowInv, Tells
    <3>2. inventories'[c] = Replace(v, w)
      BY <1>2, <2>1, <2>4 DEF InsertRow, IndInv, TypeOK
    <3>3. CASE inventories'[c] = w
      BY <1>2, <3>1, <3>3 DEF Stamp
    <3>4. CASE v # None /\ ~ (w.rev >= v.rev) /\ inventories'[c] = v
      <4>1. /\ v \in Rows /\ Body(v.by).kind = "host_inventory" /\ v.by.collector = c
        BY <1>2, <3>4 DEF Rows, OrderInv, TableInv
      <4> HIDE DEF v
      <4>2. v.by \in Requests /\ v.rev \in Nat
        BY <4>1, RowSent DEF OrderInv
      <4>3. w.rev <= v.rev /\ SameKind(w.by, v.by)
        BY <2>2, <2>4, <3>1, <3>4, <4>1, <4>2 DEF SameKind
      <4>4. w.by = v.by \/ Before(w.by, v.by)
        BY <2>1, <2>2, <4>1, <4>3 DEF OrderInv, RevInv
      <4>5. r.sub <= v.by.sub /\ v.by.sub \in Nat
        BY <2>2, <4>2, <4>4, BeforeSub, RequestFields
      <4>6. v.reported_at = v.by.sub
        BY <4>1 DEF OrderInv, RowInv, Tells
      <4> QED
        BY <3>4, <4>5, <4>6 DEF Stamp
    <3> QED
      BY <3>2, <3>3, <3>4 DEF Replace
  <2> QED
    BY <1>2, <2>3, <2>4
<1>5. CASE reply[r] # "202" /\ Body(r).kind \notin {"mission_update", "host_inventory"}
  BY <1>2, <1>5
<1> QED
  BY <1>3, <1>4, <1>5, Answered

\* No retry of what was let through is refused.
LEMMA RetryStep ==
    ASSUME OneReporter, IndInv, IndInv', OrderInv, OrderInv', BodiesInv, LegalInv,
           RetryNeverConflicts, [Next]_vars
    PROVE  RetryNeverConflicts'
<1> SUFFICES ASSUME NEW q \in Requests, NEW r \in Requests, q.collector = r.collector,
                    q.sub = r.sub, q.att < r.att, Passed(q)', reply'[r] = "409"
             PROVE  FALSE
  BY DEF RetryNeverConflicts, Passed
<1>1. Before(q, r) /\ Body(q) = Body(r) /\ SameKind(q, r)
  BY DEF Before, Body, SameKind
<1>2. CASE reply[r] = "409"
  <2>1. ~ Passed(q)
    BY <1>2 DEF RetryNeverConflicts, Passed
  <2>2. pc[q] \in {"wire", "validate"}
    BY <2>1, Passing
  <2>3. Sent(q) /\ Sent(r)
    BY <1>2, <2>2 DEF Sent, OrderInv, LaneInv
  <2>4. Rank[pc[q]] >= Rank["insert"]
    BY <1>1, <1>2, <2>3 DEF OrderInv, FlowInv
  <2> QED
    BY <2>2, <2>4, Ranks
<1>3. CASE reply[r] # "409"
  <2> DEFINE m == Body(r).mission
  <2>1. /\ pc[r] = "validate" /\ Body(r).kind = "mission_update"
        /\ ~ IsValidTransition(StateOf(missions[m]), Body(r).state, Body(r).backfill)
    BY <1>3, Answered
  <2>2. LegalOrBehind(Body(r), missions[m])
    BY <1>1, <2>1, Passing DEF LegalInv
  <2>3. Body(r).state \in MissionStates /\ Progress(missions[m]) > StateIndex[Body(r).state]
    BY <2>1, <2>2 DEF LegalOrBehind
  <2>4. Progress(missions[m]) <= StateIndex[Body(r).state]
    BY <2>1, <2>3, NotAhead
  <2>5. Progress(missions[m]) \in -1..5 /\ StateIndex[Body(r).state] \in 0..5
    <3>1. missions[m] \in MissionRow \cup {None}
      BY <2>1, SentKnown, BodyKnown DEF Sent, IndInv, TypeOK
    <3> QED
      BY <2>3, <3>1, Positions
  <2> QED
    BY <2>3, <2>4, <2>5
<1> QED
  BY <1>2, <1>3

\* What is about to be stored is a legal transition.
LEMMA StoredLegal ==
    ASSUME OneReporter, IndInv, OrderInv, BodiesInv, LegalInv, NEW r \in Requests,
           pc[r] = "insert", Body(r).kind = "mission_update"
    PROVE  IsValidTransition(StateOf(missions[Body(r).mission]), Body(r).state, Body(r).backfill)
<1> DEFINE m == Body(r).mission
<1>1. LegalOrBehind(Body(r), missions[m])
  BY DEF LegalInv, Passed
<1>2. Body(r).state \in MissionStates
  BY <1>1 DEF LegalOrBehind
<1>3. Progress(missions[m]) <= StateIndex[Body(r).state]
  BY <1>2, NotAhead
<1>4. missions[m] \in MissionRow \cup {None}
  BY SentKnown, BodyKnown DEF Sent, IndInv, TypeOK
<1>5. Progress(missions[m]) \in -1..5 /\ StateIndex[Body(r).state] \in 0..5
  BY <1>2, <1>4, Positions
<1>6. ~ (Progress(missions[m]) > StateIndex[Body(r).state])
  BY <1>3, <1>5
<1> QED
  BY <1>1, <1>6 DEF LegalOrBehind
-----------------------------------------------------------------------------
(* The theorems. *)

\* The order of the attempts and the rows, as an invariant.
LEMMA OrderAlways ==
    ASSUME ~ LateArrival
    PROVE  Spec => [](IndInv /\ OrderInv)
<1>1. Init => IndInv /\ OrderInv
  BY IndInvInit, OrderInit
<1>2. IndInv /\ OrderInv /\ [Next]_vars => (IndInv /\ OrderInv)'
  BY IndInvStep, OrderStep
<1> QED
  BY <1>1, <1>2, PTL DEF Spec

\* What follows from it for missions with one reporter.
MissionInv ==
    /\ IndInv
    /\ OrderInv
    /\ BodiesInv
    /\ LegalInv
    /\ AcceptedSticks
    /\ RetryNeverConflicts

LEMMA MissionInvAlways ==
    ASSUME ~ LateArrival, OneReporter
    PROVE  Spec => []MissionInv
<1>1. Init => MissionInv
  <2> SUFFICES ASSUME Init PROVE MissionInv
    OBVIOUS
  <2>1. IndInv /\ OrderInv
    BY IndInvInit, OrderInit
  <2>2. \A r \in Requests : pc[r] = "unsent" /\ reply[r] = "none"
    BY DEF Init
  <2>3. BodiesInv
    BY DEF Init, BodiesInv
  <2>4. LegalInv /\ AcceptedSticks /\ RetryNeverConflicts
    BY <2>2 DEF LegalInv, AcceptedSticks, RetryNeverConflicts, Passed
  <2> QED
    BY <2>1, <2>3, <2>4 DEF MissionInv
<1>2. MissionInv /\ [Next]_vars => MissionInv'
  <2> SUFFICES ASSUME MissionInv, [Next]_vars PROVE MissionInv'
    OBVIOUS
  <2>1. /\ IndInv /\ OrderInv /\ BodiesInv /\ LegalInv /\ AcceptedSticks
        /\ RetryNeverConflicts
    BY DEF MissionInv
  <2>2. IndInv'
    BY <2>1, IndInvStep
  <2>3. OrderInv' /\ TableMoves
    BY <2>1, <2>2, OrderStep
  <2>4. BodiesInv'
    BY <2>1, BodiesStep
  <2>5. LegalInv'
    BY <2>1, <2>2, <2>3, LegalStep
  <2>6. AcceptedSticks'
    BY <2>1, <2>2, <2>3, AcceptedStep
  <2>7. RetryNeverConflicts'
    BY <2>1, <2>2, <2>3, RetryStep
  <2> QED
    BY <2>2, <2>3, <2>4, <2>5, <2>6, <2>7 DEF MissionInv
<1> QED
  BY <1>1, <1>2, PTL DEF Spec

\* An accepted update is never lost: once ingest_event has answered 202 the
\* projection shows the reported state or a later one, and the host's inventory
\* that report or a later one, through failures, retries, inserts that land late
\* and crashes, when attempts of a collector reach the backend in the order they
\* were sent and each mission has one reporter.
THEOREM AcceptedNeverLost ==
    ASSUME ~ LateArrival, OneReporter
    PROVE  Spec => []AcceptedSticks
<1>1. MissionInv => AcceptedSticks
  BY DEF MissionInv
<1> QED
  BY <1>1, MissionInvAlways, PTL

\* The handlers are idempotent under retry: no attempt is refused with 409 after an
\* earlier attempt of its submission got past validate, under the same conditions.
THEOREM RetriesNeverConflict ==
    ASSUME ~ LateArrival, OneReporter
    PROVE  Spec => []RetryNeverConflicts
<1>1. MissionInv => RetryNeverConflicts
  BY DEF MissionInv
<1> QED
  BY <1>1, MissionInvAlways, PTL

\* The state shown for a mission never moves back, under the same conditions.
THEOREM MissionsNeverRegress ==
    ASSUME ~ LateArrival, OneReporter
    PROVE  Spec => MissionNeverRegresses
<1>1. MissionInv /\ MissionInv' /\ [Next]_vars =>
         [\A m \in Missions : Progress(missions'[m]) >= Progress(missions[m])]_vars
  <2> SUFFICES ASSUME MissionInv, MissionInv', [Next]_vars, NEW m \in Missions
               PROVE  Progress(missions'[m]) >= Progress(missions[m])
    OBVIOUS
  <2>1. IndInv /\ IndInv' /\ OrderInv /\ BodiesInv
    BY DEF MissionInv
  <2>2. TableMoves
    BY <2>1, OrderStep
  <2> QED
    BY <2>1, <2>2, MissionStep
<1> QED
  BY <1>1, MissionInvAlways, PTL DEF Spec, MissionNeverRegresses

\* An update enters the event stream only while it is a legal transition of the
\* state the mission has then, not only of the one validate saw, under the same
\* conditions.
THEOREM OnlyLegalTransitionsStored ==
    ASSUME ~ LateArrival, OneReporter
    PROVE  Spec => StoredTransitionsLegal
<1>1. MissionInv =>
         [\A r \in Requests :
             /\ pc[r] = "insert" /\ r \in stored' \ stored
             /\ Body(r).kind = "mission_update"
             => IsValidTransition(StateOf(missions[Body(r).mission]),
                                  Body(r).state, Body(r).backfill)]_vars
  BY StoredLegal DEF MissionInv
<1> QED
  BY <1>1, MissionInvAlways, PTL DEF Spec, StoredTransitionsLegal

\* The inventory kept for a host never goes back to an older report, when attempts
\* of a collector reach the backend in the order they were sent.
THEOREM InventoriesNeverGoBack ==
    ASSUME ~ LateArrival
    PROVE  Spec => InventoryNeverGoesBack
<1>1. /\ IndInv /\ OrderInv /\ (IndInv /\ OrderInv)' /\ [Next]_vars =>
         [\A c \in Collectors : inventories[c] # None =>
             /\ inventories'[c] # None
             /\ inventories'[c].reported_at >= inventories[c].reported_at]_vars
  <2> SUFFICES ASSUME IndInv, OrderInv, IndInv', [Next]_vars,
                      NEW c \in Collectors, inventories[c] # None
               PROVE  /\ inventories'[c] # None
                      /\ inventories'[c].reported_at >= inventories[c].reported_at
    OBVIOUS
  <2>1. TableMoves
    BY OrderStep
  <2> QED
    BY <2>1, InventoryStep
<1> QED
  BY <1>1, OrderAlways, PTL DEF Spec, InventoryNeverGoesBack
=============================================================================

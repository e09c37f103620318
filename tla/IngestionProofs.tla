--------------------------- MODULE IngestionProofs ---------------------------
(***************************************************************************)
(* Type correctness of Ingestion, and the two safety invariants that hold  *)
(* for any number of collectors, submissions, attempts and crashes:        *)
(* ProjectionBacked and LifecycleTimestamps.                               *)
(***************************************************************************)
EXTENDS Ingestion, TLAPS

Known(r) == r.sub <= Len(bodies[r.collector])

\* A row that request r with body b may put into its projection table: of the
\* table its event type calls for, and complete.
RowFits(b, r, w) ==
    /\ w.by = r
    /\ \/ b.kind = "mission_update" /\ w \in MissionRow /\ Timestamped(w)
       \/ b.kind = "host_inventory" /\ w \in InventoryRow

\* A request that was sent belongs to a submission that was made.
SentInv ==
    /\ \A r \in Requests : pc[r] # "unsent" => Known(r)
    /\ \A c \in Collectors : attempt[c] # 0 => Len(bodies[c]) # 0

\* What a request carries in each stage.
StageInv ==
    \A r \in Requests :
        /\ pc[r] \in {"insert", "project", "upsert"} /\ Body(r).kind = "mission_update"
              => Body(r).state \in MissionStates
        /\ pc[r] = "project" => Body(r).kind = "mission_update" /\ r \in stored
        /\ pc[r] = "upsert" => RowFits(Body(r), r, row[r]) /\ r \in stored

\* What an insert in doubt carries.
DoubtInv ==
    \A d \in doubt : /\ Known(d.by)
                     /\ d.table = "rows" => RowFits(Body(d.by), d.by, d.row) /\ d.by \in stored

\* The inductive invariant.
IndInv ==
    /\ TypeOK
    /\ SentInv
    /\ StageInv
    /\ DoubtInv
    /\ ProjectionBacked
    /\ LifecycleTimestamps

-----------------------------------------------------------------------------
\* Requests name a collector, a submission and an attempt within the bounds.
LEMMA RequestFields ==
    ASSUME NEW r \in Requests
    PROVE  /\ r.collector \in Collectors
           /\ r.sub \in 1..MaxSubmissions
           /\ r.att \in 1..MaxAttempts
           /\ r.sub \in Nat
BY IngestionAssumption DEF Requests

\* The body of a submission that was made is one of Bodies.
LEMMA BodyKnown ==
    ASSUME TypeOK, NEW r \in Requests, Known(r)
    PROVE  /\ Body(r) \in Bodies
           /\ Body(r).kind \in Kinds
           /\ Body(r).mission \in Missions
<1>1. bodies[r.collector] \in Seq(Bodies)
  BY RequestFields DEF TypeOK
<1>2. r.sub \in 1..Len(bodies[r.collector])
  BY RequestFields, <1>1 DEF Known
<1>3. Body(r) \in Bodies
  BY <1>1, <1>2 DEF Body
<1> QED
  BY <1>3, IngestionAssumption DEF BodyType

\* The storages are the four the queues are kept for.
LEMMA StoreOfType ==
    ASSUME NEW kind, NEW stage
    PROVE  StoreOf(kind, stage) \in Stores
BY DEF StoreOf, Stores

\* Releasing the lock of an executing request leaves queues of requests.
LEMMA ReleasedType ==
    ASSUME TypeOK, NEW r \in Requests, NEW s \in Suspended, Executing(r, s)
    PROVE  Released(r) \in [Stores -> Seq(Requests)]
<1> DEFINE a == StoreOf(Body(r).kind, s)
<1>1. a \in Stores
  BY StoreOfType
<1>2. queue[a] \in Seq(Requests) /\ queue[a] # <<>>
  BY <1>1 DEF TypeOK, Executing
<1>3. Tail(queue[a]) \in Seq(Requests)
  BY <1>2
<1>4. Released(r) = [queue EXCEPT ![a] = Tail(@)]
  BY DEF Released, Executing
<1> QED
  BY <1>1, <1>3, <1>4 DEF TypeOK

\* Releasing one lock and queueing for another keeps the types.
LEMMA MoveToType ==
    ASSUME TypeOK, NEW r \in Requests, NEW s \in Suspended, NEW t \in Stages,
           Executing(r, s), MoveTo(r, t)
    PROVE  /\ pc' \in [Requests -> Stages]
           /\ reply' \in [Requests -> Replies]
           /\ queue' \in [Stores -> Seq(Requests)]
<1> DEFINE b == StoreOf(Body(r).kind, t)
<1>1. b \in Stores
  BY StoreOfType
<1>2. Released(r) \in [Stores -> Seq(Requests)]
  BY ReleasedType
<1>3. Append(Released(r)[b], r) \in Seq(Requests)
  BY <1>1, <1>2
<1>4. queue' = [Released(r) EXCEPT ![b] = Append(@, r)]
  BY DEF MoveTo
<1>5. queue' \in [Stores -> Seq(Requests)]
  BY <1>1, <1>2, <1>3, <1>4
<1> QED
  BY <1>5 DEF MoveTo, TypeOK

\* Releasing a lock with an answer keeps the types.
LEMMA AnswerType ==
    ASSUME TypeOK, NEW r \in Requests, NEW s \in Suspended, NEW status \in Replies,
           Executing(r, s), Answer(r, status)
    PROVE  /\ pc' \in [Requests -> Stages]
           /\ reply' \in [Requests -> Replies]
           /\ queue' \in [Stores -> Seq(Requests)]
           /\ row' \in [Requests -> MissionRow \cup InventoryRow \cup {None}]
<1>1. queue' \in [Stores -> Seq(Requests)]
  BY ReleasedType DEF Answer
<1> QED
  BY <1>1 DEF Answer, TypeOK, Stages
-----------------------------------------------------------------------------
\* A step of the backend that serves request r touches no other request.
LEMMA OneRequest ==
    ASSUME IndInv, bodies' = bodies, stored \subseteq stored',
           NEW r \in Requests,
           \A q \in Requests \ {r} : pc'[q] = pc[q] /\ row'[q] = row[q],
           pc'[r] \in {"insert", "project", "upsert"} /\ Body(r).kind = "mission_update"
              => Body(r).state \in MissionStates,
           pc'[r] = "project" => Body(r).kind = "mission_update" /\ r \in stored',
           pc'[r] = "upsert" => RowFits(Body(r), r, row'[r]) /\ r \in stored'
    PROVE  StageInv'
<1> SUFFICES ASSUME NEW q \in Requests
             PROVE  /\ pc'[q] \in {"insert", "project", "upsert"} /\ Body(q).kind = "mission_update"
                          => Body(q).state \in MissionStates
                    /\ pc'[q] = "project" => Body(q).kind = "mission_update" /\ q \in stored'
                    /\ pc'[q] = "upsert" => RowFits(Body(q), q, row'[q]) /\ q \in stored'
  BY DEF StageInv, Body
<1>1. CASE q = r
  BY <1>1
<1>2. CASE q # r
  BY <1>2 DEF IndInv, StageInv
<1> QED
  BY <1>1, <1>2

\* The tables' invariants survive a step that writes no projection row.
LEMMA TablesKept ==
    ASSUME IndInv, missions' = missions, inventories' = inventories, stored \subseteq stored'
    PROVE  ProjectionBacked' /\ LifecycleTimestamps'
BY DEF IndInv, ProjectionBacked, LifecycleTimestamps

\* Nothing new in doubt.
LEMMA DoubtKept ==
    ASSUME IndInv, bodies' = bodies, stored \subseteq stored', doubt' \subseteq doubt
    PROVE  DoubtInv'
BY DEF IndInv, DoubtInv, Known, Body

\* A request being served belongs to a submission that was made.
LEMMA ServedKnown ==
    ASSUME IndInv, NEW r \in Requests, NEW s \in Suspended, Executing(r, s)
    PROVE  Known(r)
BY DEF IndInv, SentInv, Executing, Suspended

\* Steps that answer request r: what is left to show is what they write.
LEMMA AnswerKeeps ==
    ASSUME IndInv, NEW r \in Requests, NEW s \in Suspended, NEW status \in Replies,
           Executing(r, s), Answer(r, status),
           bodies' = bodies, attempt' = attempt, crashes' = crashes, clock' = clock,
           stored \subseteq stored', stored' \subseteq Requests,
           missions' \in [Missions -> MissionRow \cup {None}],
           inventories' \in [Collectors -> InventoryRow \cup {None}],
           doubt' \subseteq DoubtType,
           DoubtInv', ProjectionBacked', LifecycleTimestamps'
    PROVE  IndInv'
<1>1. TypeOK
  BY DEF IndInv
<1>2. TypeOK'
  BY <1>1, AnswerType DEF TypeOK
<1>3. SentInv'
  BY <1>1, ServedKnown DEF IndInv, SentInv, Answer, TypeOK, Known
<1>4. StageInv'
  <2>1. /\ pc'[r] = "done"
        /\ \A q \in Requests \ {r} : pc'[q] = pc[q] /\ row'[q] = row[q]
    BY <1>1 DEF Answer, TypeOK
  <2> QED
    BY <2>1, OneRequest
<1> QED
  BY <1>2, <1>3, <1>4 DEF IndInv

\* Steps that move request r on to its next storage call.
LEMMA MoveKeeps ==
    ASSUME IndInv, NEW r \in Requests, NEW s \in Suspended, NEW t \in Suspended,
           Executing(r, s), MoveTo(r, t),
           bodies' = bodies, attempt' = attempt, crashes' = crashes, clock' \in Nat,
           missions' = missions, inventories' = inventories, doubt' = doubt,
           stored \subseteq stored', stored' \subseteq Requests,
           NEW w \in MissionRow \cup InventoryRow \cup {None},
           row' = [row EXCEPT ![r] = w],
           Body(r).kind = "mission_update" => Body(r).state \in MissionStates,
           t = "project" => Body(r).kind = "mission_update" /\ r \in stored',
           t = "upsert" => RowFits(Body(r), r, w) /\ r \in stored'
    PROVE  IndInv'
<1>1. TypeOK /\ t \in Stages
  BY DEF IndInv, Stages
<1>2. TypeOK'
  BY <1>1, MoveToType DEF TypeOK
<1>3. SentInv'
  BY <1>1, ServedKnown DEF IndInv, SentInv, MoveTo, TypeOK, Known
<1>4. StageInv'
  <2>1. /\ pc'[r] = t /\ row'[r] = w
        /\ \A q \in Requests \ {r} : pc'[q] = pc[q] /\ row'[q] = row[q]
    BY <1>1 DEF MoveTo, TypeOK
  <2> QED
    BY <2>1, OneRequest
<1>5. ProjectionBacked' /\ LifecycleTimestamps' /\ DoubtInv'
  BY TablesKept, DoubtKept
<1> QED
  BY <1>2, <1>3, <1>4, <1>5 DEF IndInv

-----------------------------------------------------------------------------
\* validate, with either verdict.
LEMMA ValidateKeeps ==
    ASSUME IndInv, NEW r \in Requests, Validate(r)
    PROVE  IndInv'
<1>1. /\ Executing(r, "validate") /\ "validate" \in Suspended /\ "insert" \in Suspended
      /\ bodies' = bodies /\ attempt' = attempt /\ crashes' = crashes /\ clock' = clock
      /\ stored' = stored /\ missions' = missions /\ inventories' = inventories
      /\ doubt' = doubt
  BY DEF Validate, Suspended, clientVars, tables
<1>2. TypeOK
  BY DEF IndInv
<1>3. CASE Verdict(r) = "pass"
  <2>1. MoveTo(r, "insert") /\ row' = [row EXCEPT ![r] = row[r]]
    BY <1>2, <1>3 DEF Validate, TypeOK
  <2>2. Body(r).kind = "mission_update" => Body(r).state \in MissionStates
    BY <1>3 DEF Verdict, IsValidTransition
  <2>3. row[r] \in MissionRow \cup InventoryRow \cup {None} /\ stored \subseteq Requests /\ clock \in Nat
    BY <1>2 DEF TypeOK
  <2> QED
    BY <1>1, <2>1, <2>2, <2>3, MoveKeeps
<1>4. CASE Verdict(r) # "pass"
  <2>1. Answer(r, Verdict(r)) /\ Verdict(r) \in Replies
    BY <1>4 DEF Validate, Verdict, Replies
  <2>2. ProjectionBacked' /\ LifecycleTimestamps' /\ DoubtInv'
    BY <1>1, TablesKept, DoubtKept
  <2> QED
    BY <1>1, <1>2, <2>1, <2>2, AnswerKeeps DEF TypeOK
<1> QED
  BY <1>3, <1>4

\* A read raises in validate or in apply: the tables are not touched.
LEMMA ReadFailsKeeps ==
    ASSUME IndInv, NEW r \in Requests, ValidateFails(r) \/ ProjectFails(r)
    PROVE  IndInv'
<1>1. /\ bodies' = bodies /\ attempt' = attempt /\ crashes' = crashes /\ clock' = clock
      /\ stored' = stored /\ missions' = missions /\ inventories' = inventories
      /\ doubt' = doubt
  BY DEF ValidateFails, ProjectFails, clientVars, tables
<1>2. PICK s \in Suspended, status \in Replies : Executing(r, s) /\ Answer(r, status)
  BY DEF ValidateFails, ProjectFails, Suspended, Replies
<1>3. ProjectionBacked' /\ LifecycleTimestamps' /\ DoubtInv'
  BY <1>1, TablesKept, DoubtKept
<1>4. TypeOK
  BY DEF IndInv
<1> QED
  BY <1>1, <1>2, <1>3, <1>4, AnswerKeeps DEF TypeOK

\* insert_event succeeds, for each kind of event.
LEMMA InsertEventKeeps ==
    ASSUME IndInv, NEW r \in Requests, InsertEvent(r)
    PROVE  IndInv'
<1>1. /\ Executing(r, "insert") /\ {"insert", "project", "upsert"} \subseteq Suspended
      /\ bodies' = bodies /\ attempt' = attempt /\ crashes' = crashes
      /\ stored' = stored \cup {r} /\ missions' = missions /\ inventories' = inventories
      /\ doubt' = doubt
  BY DEF InsertEvent, Suspended, clientVars
<1>2. TypeOK /\ stored' \subseteq Requests /\ stored \subseteq stored' /\ clock \in Nat
  BY <1>1 DEF IndInv, TypeOK
<1>3. Body(r).kind = "mission_update" => Body(r).state \in MissionStates
  BY <1>1 DEF IndInv, StageInv, Executing
<1>4. CASE Body(r).kind = "mission_update"
  <2>1. MoveTo(r, "project") /\ clock' = clock /\ row' = [row EXCEPT ![r] = row[r]]
    BY <1>2, <1>4 DEF InsertEvent, TypeOK
  <2>2. row[r] \in MissionRow \cup InventoryRow \cup {None}
    BY <1>2 DEF TypeOK
  <2> QED
    BY <1>1, <1>2, <1>3, <1>4, <2>1, <2>2, MoveKeeps
<1>5. CASE Body(r).kind = "host_inventory"
  <2> DEFINE w == [rev |-> clock + 1, by |-> r, reported_at |-> Stamp(r)]
  <2>1. MoveTo(r, "upsert") /\ clock' = clock + 1 /\ row' = [row EXCEPT ![r] = w]
    BY <1>5 DEF InsertEvent
  <2>2. w \in InventoryRow /\ w.by = r
    BY <1>2, RequestFields DEF InventoryRow, Stamp
  <2>3. RowFits(Body(r), r, w)
    BY <1>5, <2>2 DEF RowFits
  <2>4. clock' \in Nat /\ r \in stored' /\ w \in MissionRow \cup InventoryRow \cup {None}
    BY <1>1, <1>2, <2>1, <2>2
  <2> HIDE DEF w
  <2> QED
    BY <1>1, <1>2, <1>3, <1>5, <2>1, <2>3, <2>4, MoveKeeps
<1>6. CASE Body(r).kind \notin {"mission_update", "host_inventory"}
  <2>1. Answer(r, "202") /\ clock' = clock /\ "202" \in Replies
    BY <1>6 DEF InsertEvent, Replies
  <2>2. ProjectionBacked' /\ LifecycleTimestamps' /\ DoubtInv'
    BY <1>1, <1>2, TablesKept, DoubtKept
  <2> QED
    BY <1>1, <1>2, <2>1, <2>2, AnswerKeeps DEF TypeOK
<1> QED
  BY <1>4, <1>5, <1>6

\* insert_event raises: at most the event insert is in doubt.
LEMMA InsertFailsKeeps ==
    ASSUME IndInv, NEW r \in Requests, InsertFails(r)
    PROVE  IndInv'
<1>1. /\ Executing(r, "insert") /\ "insert" \in Suspended
      /\ Answer(r, "503") /\ "503" \in Replies
      /\ bodies' = bodies /\ attempt' = attempt /\ crashes' = crashes /\ clock' = clock
      /\ stored' = stored /\ missions' = missions /\ inventories' = inventories
      /\ doubt' \subseteq doubt \cup {EventInsert(r)}
  BY DEF InsertFails, Suspended, Replies, clientVars, tables
<1>2. TypeOK
  BY DEF IndInv
<1>3. doubt' \subseteq DoubtType
  BY <1>1, <1>2 DEF TypeOK, DoubtType, EventInsert
<1>4. DoubtInv'
  <2>1. Known(r)
    BY <1>1, ServedKnown
  <2> QED
    BY <1>1, <2>1 DEF IndInv, DoubtInv, EventInsert, Known, Body
<1>5. ProjectionBacked' /\ LifecycleTimestamps'
  BY <1>1, TablesKept
<1> QED
  BY <1>1, <1>2, <1>3, <1>4, <1>5, AnswerKeeps DEF TypeOK

\* The row apply builds is complete if the row it was built from is.
LEMMA ProjectedRecordOK ==
    ASSUME NEW cur \in MissionRow \cup {None}, cur # None => Timestamped(cur),
           NEW state \in MissionStates, NEW t \in Nat
    PROVE  LET rec == ProjectedRecord(cur, state, t)
           IN  /\ rec.state = state
               /\ rec.created_at \in Nat
               /\ rec.started_at \in Nat \cup {None}
               /\ rec.completed_at \in Nat \cup {None}
               /\ Timestamped(rec)
BY IngestionAssumption DEF ProjectedRecord, Timestamped, MissionRow, MissionStates, StateIndex

\* apply reads the mission again and builds the row it will upsert.
LEMMA ProjectKeeps ==
    ASSUME IndInv, NEW r \in Requests, Project(r)
    PROVE  IndInv'
<1> DEFINE w == MissionRowFor(r)
<1>1. /\ Executing(r, "project") /\ {"project", "upsert"} \subseteq Suspended
      /\ MoveTo(r, "upsert") /\ row' = [row EXCEPT ![r] = w]
      /\ bodies' = bodies /\ attempt' = attempt /\ crashes' = crashes /\ clock' = clock + 1
      /\ stored' = stored /\ missions' = missions /\ inventories' = inventories
      /\ doubt' = doubt
  BY DEF Project, Suspended, clientVars, tables
<1>2. TypeOK /\ stored' \subseteq Requests /\ clock' \in Nat
  BY <1>1 DEF IndInv, TypeOK
<1>3. Body(r).kind = "mission_update" /\ Body(r).state \in MissionStates /\ r \in stored
  BY <1>1 DEF IndInv, StageInv, Executing
<1>4. Body(r).mission \in Missions
  BY <1>1, <1>2, ServedKnown, BodyKnown
<1>5. /\ missions[Body(r).mission] \in MissionRow \cup {None}
      /\ missions[Body(r).mission] # None => Timestamped(missions[Body(r).mission])
  BY <1>2, <1>4 DEF IndInv, TypeOK, LifecycleTimestamps
<1>6. w \in MissionRow /\ w.by = r /\ Timestamped(w)
  <2> DEFINE rec == ProjectedRecord(missions[Body(r).mission], Body(r).state, Stamp(r))
  <2>1. /\ rec.state = Body(r).state
        /\ rec.created_at \in Nat
        /\ rec.started_at \in Nat \cup {None}
        /\ rec.completed_at \in Nat \cup {None}
        /\ Timestamped(rec)
    BY <1>3, <1>5, RequestFields, ProjectedRecordOK DEF Stamp
  <2>2. w = [rev |-> clock + 1, by |-> r, state |-> rec.state,
             created_at |-> rec.created_at, started_at |-> rec.started_at,
             completed_at |-> rec.completed_at]
    BY DEF MissionRowFor
  <2> HIDE DEF rec, w
  <2>3. w \in MissionRow /\ w.by = r
    BY <1>1, <1>2, <1>3, <2>1, <2>2 DEF MissionRow, TypeOK
  <2>4. Timestamped(w)
    BY <2>1, <2>2 DEF Timestamped
  <2> QED
    BY <2>3, <2>4
<1>7. RowFits(Body(r), r, w)
  BY <1>3, <1>6 DEF RowFits
<1> HIDE DEF w
<1> QED
  BY <1>1, <1>2, <1>3, <1>6, <1>7, MoveKeeps

\* A fitting row that reaches its table leaves the tables in order.
LEMMA InsertRowOK ==
    ASSUME IndInv, NEW r \in Requests, Known(r), r \in stored, stored' = stored,
           NEW w, RowFits(Body(r), r, w), InsertRow(r, w)
    PROVE  /\ missions' \in [Missions -> MissionRow \cup {None}]
           /\ inventories' \in [Collectors -> InventoryRow \cup {None}]
           /\ ProjectionBacked' /\ LifecycleTimestamps'
<1>1. TypeOK /\ None \notin Nat /\ r.collector \in Collectors /\ Body(r).mission \in Missions
  BY IngestionAssumption, RequestFields, BodyKnown DEF IndInv
<1>2. CASE Body(r).kind = "mission_update"
  <2> DEFINE m == Body(r).mission
             n == Replace(missions[m], w)
  <2>1. missions' = [missions EXCEPT ![m] = n] /\ inventories' = inventories
    BY <1>2 DEF InsertRow
  <2>2. w \in MissionRow /\ Timestamped(w) /\ w.by = r
    BY <1>2 DEF RowFits
  <2>3. n = w \/ n = missions[m]
    BY DEF Replace
  <2> HIDE DEF n, m
  <2> QED
    BY <1>1, <2>1, <2>2, <2>3 DEF m, IndInv, TypeOK, ProjectionBacked, LifecycleTimestamps
<1>3. CASE Body(r).kind = "host_inventory"
  <2> DEFINE n == Replace(inventories[r.collector], w)
  <2>1. inventories' = [inventories EXCEPT ![r.collector] = n] /\ missions' = missions
    BY <1>3 DEF InsertRow
  <2>2. w \in InventoryRow /\ w.by = r
    BY <1>3 DEF RowFits
  <2>3. n = w \/ n = inventories[r.collector]
    BY DEF Replace
  <2> HIDE DEF n
  <2> QED
    BY <1>1, <2>1, <2>2, <2>3 DEF IndInv, TypeOK, ProjectionBacked, LifecycleTimestamps
<1> QED
  BY <1>2, <1>3 DEF RowFits

\* The upsert succeeds.
LEMMA UpsertKeeps ==
    ASSUME IndInv, NEW r \in Requests, Upsert(r)
    PROVE  IndInv'
<1>1. /\ Executing(r, "upsert") /\ "upsert" \in Suspended
      /\ Answer(r, "202") /\ "202" \in Replies /\ InsertRow(r, row[r])
      /\ bodies' = bodies /\ attempt' = attempt /\ crashes' = crashes /\ clock' = clock
      /\ stored' = stored /\ doubt' = doubt
  BY DEF Upsert, Suspended, Replies, clientVars
<1>2. Known(r) /\ r \in stored /\ RowFits(Body(r), r, row[r])
  BY <1>1, ServedKnown DEF IndInv, StageInv, Executing
<1>3. /\ missions' \in [Missions -> MissionRow \cup {None}]
      /\ inventories' \in [Collectors -> InventoryRow \cup {None}]
      /\ ProjectionBacked' /\ LifecycleTimestamps'
  BY <1>1, <1>2, InsertRowOK
<1>4. DoubtInv'
  BY <1>1, DoubtKept
<1>5. stored \subseteq Requests /\ doubt \subseteq DoubtType
  BY DEF IndInv, TypeOK
<1> QED
  BY <1>1, <1>3, <1>4, <1>5, AnswerKeeps

\* The upsert raises: at most its row is in doubt.
LEMMA UpsertFailsKeeps ==
    ASSUME IndInv, NEW r \in Requests, UpsertFails(r)
    PROVE  IndInv'
<1>1. /\ Executing(r, "upsert") /\ "upsert" \in Suspended
      /\ Answer(r, "503") /\ "503" \in Replies
      /\ bodies' = bodies /\ attempt' = attempt /\ crashes' = crashes /\ clock' = clock
      /\ stored' = stored /\ missions' = missions /\ inventories' = inventories
      /\ doubt' \subseteq doubt \cup {RowInsert(r)}
  BY DEF UpsertFails, Suspended, Replies, clientVars, tables
<1>2. TypeOK
  BY DEF IndInv
<1>3. Known(r) /\ r \in stored /\ RowFits(Body(r), r, row[r])
  BY <1>1, ServedKnown DEF IndInv, StageInv, Executing
<1>4. doubt' \subseteq DoubtType
  BY <1>1, <1>2, <1>3 DEF TypeOK, DoubtType, RowInsert, RowFits
<1>5. DoubtInv'
  BY <1>1, <1>3 DEF IndInv, DoubtInv, RowInsert, Known, Body
<1>6. ProjectionBacked' /\ LifecycleTimestamps'
  BY <1>1, TablesKept
<1> QED
  BY <1>1, <1>2, <1>4, <1>5, <1>6, AnswerKeeps DEF TypeOK

\* An insert in doubt lands.
LEMMA LandKeeps ==
    ASSUME IndInv, NEW d \in doubt, Land(d)
    PROVE  IndInv'
<1>1. /\ bodies' = bodies /\ attempt' = attempt /\ pc' = pc /\ reply' = reply
      /\ queue' = queue /\ row' = row /\ clock' = clock /\ crashes' = crashes
      /\ doubt' \subseteq doubt
  BY DEF Land, clientVars
<1>2. TypeOK /\ d \in DoubtType /\ d.by \in Requests /\ Known(d.by)
  BY DEF IndInv, DoubtInv, TypeOK, DoubtType
<1>3. /\ stored \subseteq stored' /\ stored' \subseteq Requests
      /\ missions' \in [Missions -> MissionRow \cup {None}]
      /\ inventories' \in [Collectors -> InventoryRow \cup {None}]
      /\ ProjectionBacked' /\ LifecycleTimestamps'
  <2>1. CASE d.table = "events"
    <3>1. stored' = stored \cup {d.by} /\ missions' = missions /\ inventories' = inventories
      BY <2>1 DEF Land
    <3> QED
      BY <1>2, <3>1, TablesKept DEF TypeOK
  <2>2. CASE d.table # "events"
    <3>1. stored' = stored /\ InsertRow(d.by, d.row) /\ d.table = "rows"
      BY <1>2, <2>2 DEF Land, DoubtType
    <3>2. d.by \in stored /\ RowFits(Body(d.by), d.by, d.row)
      BY <3>1 DEF IndInv, DoubtInv
    <3> QED
      BY <1>2, <3>1, <3>2, InsertRowOK DEF TypeOK
  <2> QED
    BY <2>1, <2>2
<1>4. TypeOK'
  BY <1>1, <1>2, <1>3 DEF TypeOK
<1>5. SentInv' /\ StageInv'
  BY <1>1, <1>3 DEF IndInv, SentInv, StageInv, Known, Body
<1>6. DoubtInv'
  BY <1>1, <1>3, DoubtKept
<1> QED
  BY <1>3, <1>4, <1>5, <1>6 DEF IndInv

\* The process dies: inserts under way join those in doubt.
LEMMA CrashKeeps ==
    ASSUME IndInv, Crash
    PROVE  IndInv'
<1>1. /\ bodies' = bodies /\ attempt' = attempt /\ clock' = clock
      /\ stored' = stored /\ missions' = missions /\ inventories' = inventories
      /\ doubt' \subseteq doubt \cup RunningInserts
      /\ \A r \in Requests : pc'[r] \notin Suspended /\ (pc'[r] # "unsent" => pc[r] # "unsent")
  BY DEF Crash, clientVars, tables, Suspended
<1>2. TypeOK
  BY DEF IndInv
<1>3. \A d \in RunningInserts :
         d \in DoubtType /\ Known(d.by)
         /\ (d.table = "rows" => RowFits(Body(d.by), d.by, d.row) /\ d.by \in stored)
  <2>1. SUFFICES ASSUME NEW r \in Requests
                 PROVE  /\ pc[r] = "insert" =>
                              LET d == EventInsert(r)
                              IN  d \in DoubtType /\ Known(d.by) /\ d.table # "rows"
                        /\ pc[r] = "upsert" =>
                              LET d == RowInsert(r)
                              IN  /\ d \in DoubtType /\ Known(d.by) /\ d.by \in stored
                                  /\ RowFits(Body(d.by), d.by, d.row)
    BY DEF RunningInserts
  <2>2. pc[r] # "unsent" => Known(r)
    BY DEF IndInv, SentInv
  <2>3. pc[r] = "upsert" => RowFits(Body(r), r, row[r]) /\ r \in stored
    BY DEF IndInv, StageInv
  <2> QED
    BY <2>2, <2>3 DEF EventInsert, RowInsert, DoubtType, RowFits
<1>4. DoubtInv' /\ doubt' \subseteq DoubtType
  BY <1>1, <1>2, <1>3 DEF IndInv, DoubtInv, TypeOK, Known, Body
<1>5. TypeOK'
  BY <1>1, <1>2, <1>4, IngestionAssumption DEF TypeOK, Crash, Stages, Replies
<1>6. SentInv' /\ StageInv'
  BY <1>1 DEF IndInv, SentInv, StageInv, Known, Suspended
<1>7. ProjectionBacked' /\ LifecycleTimestamps'
  BY <1>1, TablesKept
<1> QED
  BY <1>4, <1>5, <1>6, <1>7 DEF IndInv

\* A request arrives, or is lost on the way.
LEMMA ArriveKeeps ==
    ASSUME IndInv, NEW r \in Requests, Arrive(r) \/ Lose(r)
    PROVE  IndInv'
<1>1. /\ pc[r] = "wire"
      /\ bodies' = bodies /\ attempt' = attempt /\ clock' = clock /\ crashes' = crashes
      /\ stored' = stored /\ missions' = missions /\ inventories' = inventories
      /\ doubt' = doubt /\ row' = row
  BY DEF Arrive, Lose, clientVars, tables
<1>2. TypeOK /\ Known(r)
  BY <1>1 DEF IndInv, SentInv
<1>3. PICK t \in {"done", "validate", "insert"} :
         /\ pc' = [pc EXCEPT ![r] = t]
         /\ t = "insert" => Body(r).kind = "generic"
  BY DEF Arrive, Lose, FirstStage
<1>4. queue' \in [Stores -> Seq(Requests)] /\ reply' \in [Requests -> Replies]
  <2>1. CASE UNCHANGED queue
    BY <1>2, <2>1 DEF Arrive, Lose, TypeOK, Replies, Precheck
  <2>2. CASE queue' # queue
    <3> DEFINE a == StoreOf(Body(r).kind, FirstStage(Body(r).kind))
    <3>1. queue' = [queue EXCEPT ![a] = Append(@, r)] /\ reply' = reply
      BY <2>2 DEF Arrive, Lose
    <3>2. a \in Stores /\ queue[a] \in Seq(Requests)
      BY <1>2, StoreOfType DEF TypeOK
    <3> HIDE DEF a
    <3> QED
      BY <1>2, <3>1, <3>2 DEF TypeOK
  <2> QED
    BY <2>1, <2>2
<1>5. TypeOK'
  BY <1>1, <1>2, <1>3, <1>4 DEF TypeOK, Stages, Suspended
<1>6. SentInv'
  BY <1>1, <1>2, <1>3 DEF IndInv, SentInv, TypeOK, Known
<1>7. StageInv'
  <2>1. pc'[r] = t /\ \A q \in Requests \ {r} : pc'[q] = pc[q] /\ row'[q] = row[q]
    BY <1>1, <1>2, <1>3 DEF TypeOK
  <2> QED
    BY <1>1, <1>3, <2>1, OneRequest
<1>8. ProjectionBacked' /\ LifecycleTimestamps' /\ DoubtInv'
  BY <1>1, TablesKept, DoubtKept
<1> QED
  BY <1>5, <1>6, <1>7, <1>8 DEF IndInv

\* A submission adds a body and sends the first attempt; earlier bodies stay.
LEMMA SubmitKeeps ==
    ASSUME IndInv, NEW c \in Collectors, NEW b \in Bodies, Submit(c, b)
    PROVE  IndInv'
<1>0. PICK n : n = Len(bodies[c])
  OBVIOUS
<1>r. PICK r : r = [collector |-> c, sub |-> n + 1, att |-> 1]
  OBVIOUS
<1>1. /\ bodies' = [bodies EXCEPT ![c] = Append(@, b)]
      /\ attempt' = [attempt EXCEPT ![c] = 1] /\ n < MaxSubmissions
      /\ pc' = [pc EXCEPT ![r] = "wire"]
      /\ reply' = reply /\ queue' = queue /\ row' = row /\ clock' = clock /\ crashes' = crashes
      /\ stored' = stored /\ missions' = missions /\ inventories' = inventories
      /\ doubt' = doubt
  BY <1>0, <1>r DEF Submit, tables
<1>2. TypeOK /\ bodies[c] \in Seq(Bodies) /\ n \in Nat
  BY <1>0 DEF IndInv, TypeOK
<1>3. r \in Requests
  BY <1>1, <1>2, <1>r, IngestionAssumption DEF Requests
<1>4. /\ bodies' \in [Collectors -> Seq(Bodies)]
      /\ \A e \in Collectors : Len(bodies'[e]) = IF e = c THEN n + 1 ELSE Len(bodies[e])
      /\ \A e \in Collectors : \A i \in 1..Len(bodies[e]) : bodies'[e][i] = bodies[e][i]
  BY <1>0, <1>1, <1>2 DEF TypeOK
<1>5. ASSUME NEW q \in Requests, Known(q) PROVE Known(q)' /\ Body(q)' = Body(q)
  <2>1. q.collector \in Collectors /\ q.sub \in Nat /\ q.sub >= 1
    BY RequestFields
  <2>2. Len(bodies[q.collector]) \in Nat
    BY <1>2, <2>1 DEF TypeOK
  <2>3. q.sub \in 1..Len(bodies[q.collector])
    BY <1>5, <2>1, <2>2 DEF Known
  <2>4. bodies'[q.collector][q.sub] = bodies[q.collector][q.sub]
    BY <1>4, <2>1, <2>3
  <2>5. Len(bodies'[q.collector]) >= Len(bodies[q.collector])
    BY <1>0, <1>2, <1>4, <2>1, <2>2
  <2>6. Len(bodies'[q.collector]) \in Nat
    BY <1>4, <2>1
  <2> QED
    BY <2>1, <2>2, <2>3, <2>4, <2>5, <2>6 DEF Known, Body
<1>6. TypeOK'
  <2>1. \A e \in Collectors : Len(bodies'[e]) <= MaxSubmissions
    BY <1>1, <1>2, <1>4, IngestionAssumption DEF TypeOK
  <2>2. attempt' \in [Collectors -> 0..MaxAttempts]
    BY <1>1, <1>2, IngestionAssumption DEF TypeOK
  <2>3. pc' \in [Requests -> Stages]
    BY <1>1, <1>2 DEF TypeOK, Stages
  <2> QED
    BY <1>1, <1>2, <1>4, <2>1, <2>2, <2>3 DEF TypeOK
<1>7. SentInv'
  <2>1. Known(r)'
    BY <1>2, <1>4, <1>r DEF Known
  <2>2. \A q \in Requests \ {r} : pc'[q] = pc[q]
    BY <1>1, <1>2 DEF TypeOK
  <2>3. \A e \in Collectors : attempt'[e] # 0 => Len(bodies'[e]) # 0
    BY <1>1, <1>2, <1>4 DEF IndInv, SentInv, TypeOK
  <2> QED
    BY <1>3, <1>5, <2>1, <2>2, <2>3 DEF IndInv, SentInv
<1>8. StageInv'
  <2> SUFFICES ASSUME NEW q \in Requests, pc'[q] \in {"insert", "project", "upsert"}
               PROVE  /\ Body(q)'.kind = "mission_update" => Body(q)'.state \in MissionStates
                      /\ pc'[q] = "project" => Body(q)'.kind = "mission_update" /\ q \in stored'
                      /\ pc'[q] = "upsert" => RowFits(Body(q)', q, row'[q]) /\ q \in stored'
    BY DEF StageInv
  <2>1. pc'[q] = pc[q] /\ Known(q)
    BY <1>1, <1>2 DEF IndInv, SentInv, TypeOK
  <2> QED
    BY <1>1, <1>5, <2>1 DEF IndInv, StageInv
<1>9. DoubtInv'
  BY <1>1, <1>2, <1>5 DEF IndInv, DoubtInv, TypeOK, DoubtType
<1>10. ProjectionBacked' /\ LifecycleTimestamps'
  BY <1>1, TablesKept
<1> QED
  BY <1>6, <1>7, <1>8, <1>9, <1>10 DEF IndInv

\* The client gets its answer or times out: it sends again or goes idle.
LEMMA ClientKeeps ==
    ASSUME IndInv, NEW c \in Collectors, GetAnswer(c) \/ TimeOut(c) \/ Abort(c)
    PROVE  IndInv'
<1>0. PICK r : r = [Current(c) EXCEPT !.att = @ + 1]
  OBVIOUS
<1>1. /\ attempt[c] # 0 /\ bodies' = bodies
      /\ reply' = reply /\ queue' = queue /\ row' = row /\ clock' = clock /\ crashes' = crashes
      /\ stored' = stored /\ missions' = missions /\ inventories' = inventories
      /\ doubt' = doubt
  BY DEF GetAnswer, TimeOut, Abort, tables
<1>2. TypeOK /\ Len(bodies[c]) \in Nat /\ Len(bodies[c]) # 0 /\ Len(bodies[c]) <= MaxSubmissions
  BY <1>1 DEF IndInv, SentInv, TypeOK
<1>3. \/ attempt' = [attempt EXCEPT ![c] = 0] /\ pc' = pc
      \/ /\ attempt[c] < MaxAttempts /\ attempt' = [attempt EXCEPT ![c] = @ + 1]
         /\ pc' = [pc EXCEPT ![r] = "wire"]
  BY <1>0 DEF GetAnswer, TimeOut, Abort, RetryOrGiveUp
<1>4. CASE attempt' = [attempt EXCEPT ![c] = 0] /\ pc' = pc
  BY <1>1, <1>2, <1>4, TablesKept, DoubtKept, IngestionAssumption
     DEF IndInv, TypeOK, SentInv, StageInv, Known, Body
<1>5. CASE /\ attempt[c] < MaxAttempts /\ attempt' = [attempt EXCEPT ![c] = @ + 1]
           /\ pc' = [pc EXCEPT ![r] = "wire"]
  <2>1. r = [collector |-> c, sub |-> Len(bodies[c]), att |-> attempt[c] + 1]
    BY <1>0 DEF Current
  <2>2. r \in Requests /\ Known(r)
    <3>1. attempt[c] + 1 \in 1..MaxAttempts /\ Len(bodies[c]) \in 1..MaxSubmissions
      BY <1>2, <1>5, IngestionAssumption DEF TypeOK
    <3> QED
      BY <1>2, <2>1, <3>1 DEF Requests, Known
  <2>3. pc'[r] = "wire" /\ \A q \in Requests \ {r} : pc'[q] = pc[q] /\ row'[q] = row[q]
    BY <1>1, <1>2, <1>5, <2>2 DEF TypeOK
  <2>4. TypeOK'
    BY <1>1, <1>2, <1>5, <2>2, IngestionAssumption DEF TypeOK, Stages
  <2>5. SentInv'
    BY <1>1, <1>2, <1>5, <2>2, <2>3 DEF IndInv, SentInv, TypeOK, Known
  <2>6. StageInv'
    BY <1>1, <2>2, <2>3, OneRequest
  <2> QED
    BY <1>1, <2>4, <2>5, <2>6, TablesKept, DoubtKept DEF IndInv
<1> QED
  BY <1>3, <1>4, <1>5
-----------------------------------------------------------------------------
\* Every step keeps the inductive invariant.
LEMMA IndInvStep == IndInv /\ [Next]_vars => IndInv'
<1> SUFFICES ASSUME IndInv, [Next]_vars PROVE IndInv'
  OBVIOUS
<1>1. CASE UNCHANGED vars
  BY <1>1 DEF vars, IndInv, TypeOK, SentInv, StageInv, DoubtInv, ProjectionBacked,
              LifecycleTimestamps, Known, Body
<1>2. ASSUME NEW r \in Requests, Arrive(r) \/ Lose(r) PROVE IndInv'
  BY <1>2, ArriveKeeps
<1>3. ASSUME NEW r \in Requests, Serve(r) PROVE IndInv'
  BY <1>3, ValidateKeeps, ReadFailsKeeps, InsertEventKeeps, InsertFailsKeeps,
     ProjectKeeps, UpsertKeeps, UpsertFailsKeeps DEF Serve
<1>4. ASSUME NEW c \in Collectors, GetAnswer(c) \/ TimeOut(c) \/ Abort(c) PROVE IndInv'
  BY <1>4, ClientKeeps
<1>5. ASSUME NEW c \in Collectors, NEW b \in Bodies, Submit(c, b) PROVE IndInv'
  BY <1>5, SubmitKeeps
<1>6. ASSUME NEW d \in doubt, Land(d) PROVE IndInv'
  BY <1>6, LandKeeps
<1>7. CASE Crash
  BY <1>7, CrashKeeps
<1> QED
  BY <1>1, <1>2, <1>3, <1>4, <1>5, <1>6, <1>7 DEF Next

\* The initial states satisfy the inductive invariant.
LEMMA IndInvInit == Init => IndInv
<1> SUFFICES ASSUME Init PROVE IndInv
  OBVIOUS
<1>1. TypeOK
  BY IngestionAssumption DEF Init, TypeOK, Stages, Replies
<1> QED
  BY <1>1 DEF Init, IndInv, SentInv, StageInv, DoubtInv, ProjectionBacked, LifecycleTimestamps

\* The inductive invariant holds throughout.
LEMMA IndInvAlways == Spec => []IndInv
BY IndInvInit, IndInvStep, PTL DEF Spec

\* Ingestion is type correct for any number of collectors, missions,
\* submissions, attempts and crashes.
THEOREM TypeCorrect == Spec => []TypeOK
BY IndInvAlways, PTL DEF IndInv

\* Behind every row of the projection tables there is a stored event,
\* whatever the races between requests, the storage failures and the crashes.
THEOREM ProjectionsAreBacked == Spec => []ProjectionBacked
BY IndInvAlways, PTL DEF IndInv

\* Every mission row has the timestamps its state calls for, also when
\* several collectors race on one mission.
THEOREM RowsAreTimestamped == Spec => []LifecycleTimestamps
BY IndInvAlways, PTL DEF IndInv
=============================================================================

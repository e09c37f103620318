------------------------- MODULE HostCollectorProofs -------------------------
(***************************************************************************)
(* For any machines, intervals, durations, faults and changes: the host    *)
(* collector's heartbeats follow each other within the interval, one pass  *)
(* and the restarts between them, a report repeats a durable identity only *)
(* when its interval has passed, names one disk by one name, and dates the *)
(* newest upgrades.                                                        *)
(***************************************************************************)
EXTENDS HostCollector, FiniteSetTheorems, WellFoundedInduction, TLAPS

-----------------------------------------------------------------------------
(* Tasks and time *)

\* The tasks by name.
LEMMA TaskFacts ==
    /\ Tasks = {"heartbeat", "system_metrics", "docker_status", "host_inventory"}
    /\ DOMAIN TaskOrder = 1..4
    /\ TaskOrder[1] = "heartbeat"
    /\ \A t \in Tasks : \E i \in 1..4 : TaskOrder[i] = t
<1>1. /\ DOMAIN TaskOrder = 1..4
      /\ TaskOrder[1] = "heartbeat" /\ TaskOrder[2] = "system_metrics"
      /\ TaskOrder[3] = "docker_status" /\ TaskOrder[4] = "host_inventory"
  BY DEF TaskOrder
<1> QED
  BY <1>1 DEF Tasks

\* No other task is come to while the heartbeat is due.
LEMMA HeartbeatFirst ==
    ASSUME todo \subseteq Tasks, NEW t, First(t), t # "heartbeat"
    PROVE  "heartbeat" \notin todo
<1>1. PICK i \in 1..4 : TaskOrder[i] = t
  BY TaskFacts DEF First
<1> QED
  BY <1>1, TaskFacts DEF First

\* What is left until a task is due stays a number, and within its bound.
LEMMA LaterFacts ==
    ASSUME left \in [Tasks -> Nat], NEW d \in Nat
    PROVE  /\ Later(d) \in [Tasks -> Nat]
           /\ \A t \in Tasks : Later(d)[t] = IF left[t] > d THEN left[t] - d ELSE 0
BY DEF Later, Minus

LEMMA OlderFacts ==
    ASSUME NEW a \in 0..InventoryInterval, NEW d \in Nat
    PROVE  Older(a, d) \in 0..InventoryInterval
BY CollectorAssumption DEF Older

LEMMA NextRunFacts ==
    ASSUME elapsed \in Nat, NEW t \in Tasks
    PROVE  NextRun(t) \in Nat /\ \A d \in Nat : Minus(NextRun(t), d) \in Nat
BY CollectorAssumption DEF NextRun, Minus, Interval

\* Time that passes is counted.
LEMMA BusyFacts ==
    ASSUME elapsed \in Nat, silence \in Nat, NEW d \in 0..Slow, Busy(d)
    PROVE  d \in Nat /\ d <= Slow /\ elapsed' \in Nat /\ silence' \in Nat
BY CollectorAssumption DEF Busy

\* Producing something, whether it fails or not, leaves the clocks typed.
LEMMA ProducingFacts ==
    ASSUME TypeOK, NEW t \in Tasks, NEW d \in 0..Slow, Producing(t, d)
    PROVE  /\ todo' \subseteq Tasks /\ pc = "pass" /\ outbox = None
           /\ elapsed' \in Nat /\ silence' \in Nat
           /\ left' \in [Tasks -> Nat] /\ age' \in 0..InventoryInterval
           /\ \A u \in Tasks \ {t} : left'[u] = Later(d)[u]
<1>1. d \in Nat /\ elapsed' \in Nat /\ silence' \in Nat
  BY BusyFacts DEF Producing, TypeOK
<1>2. Minus(NextRun(t), d) \in Nat
  BY <1>1, NextRunFacts DEF TypeOK
<1>3. Later(d) \in [Tasks -> Nat]
  BY <1>1, LaterFacts DEF TypeOK
<1>4. /\ left' \in [Tasks -> Nat]
      /\ \A u \in Tasks \ {t} : left'[u] = Later(d)[u]
  BY <1>2, <1>3 DEF Producing
<1>5. age' \in 0..InventoryInterval
  BY <1>1, OlderFacts DEF Producing, TypeOK
<1> QED
  BY <1>1, <1>4, <1>5 DEF Producing, Taken, TypeOK

\* So does a submission.
LEMMA WorkingFacts ==
    ASSUME TypeOK, NEW d \in 0..Slow, Working(d)
    PROVE  /\ elapsed' \in Nat /\ silence' \in Nat
           /\ left' \in [Tasks -> Nat] /\ age' \in 0..InventoryInterval
<1>1. d \in Nat /\ elapsed' \in Nat /\ silence' \in Nat
  BY BusyFacts DEF Working, TypeOK
<1> QED
  BY <1>1, LaterFacts, OlderFacts DEF Working, TypeOK

\* Deaths are faults.
LEMMA DeathFacts ==
    ASSUME TypeOK
    PROVE  deaths \in Nat /\ RestartDelay \in Nat
           /\ deaths * RestartDelay \in Nat
           /\ (deaths + 1) * RestartDelay = deaths * RestartDelay + RestartDelay
<1>1. deaths \in Nat /\ RestartDelay \in Nat
  BY CollectorAssumption DEF TypeOK
<1> QED
  BY <1>1

\* What an event carries is typed.
LEMMA EventFacts ==
    /\ \A t \in Tasks \ {"host_inventory"} : Event(t, None) \in Events
    /\ \A r \in Report : Event("host_inventory", r) \in Events
    /\ \A e \in Events : e.type = "host_inventory" => e.payload \in Report
BY DEF Event, Events
-----------------------------------------------------------------------------
LEMMA InitTypeOK == Init => TypeOK
BY CollectorAssumption DEF Init, TypeOK

LEMMA NextTypeOK == TypeOK /\ [Next]_vars => TypeOK'
<1> SUFFICES ASSUME TypeOK, [Next]_vars PROVE TypeOK'
  OBVIOUS
<1> USE CollectorAssumption
<1>1. CASE Wake
  <2>1. left' \in [Tasks -> Nat]
    BY <1>1, LaterFacts DEF Wake, TypeOK
  <2>2. age' \in 0..InventoryInterval
    BY <1>1, OlderFacts DEF Wake, TypeOK
  <2>3. todo' \subseteq Tasks /\ elapsed' \in Nat /\ silence' \in Nat
    BY <1>1 DEF Wake, TypeOK
  <2> QED
    BY <1>1, <2>1, <2>2, <2>3 DEF Wake, TypeOK
<1>2. CASE EndPass
  BY <1>2 DEF EndPass, TypeOK
<1>3. CASE ProduceHeartbeat
  <2>1. left' \in [Tasks -> Nat]
    BY <1>3, NextRunFacts, TaskFacts DEF ProduceHeartbeat, TypeOK
  <2>2. todo' \subseteq Tasks /\ pc = "pass"
    BY <1>3 DEF ProduceHeartbeat, Taken, TypeOK
  <2>3. outbox' \in Events
    BY <1>3, EventFacts, TaskFacts DEF ProduceHeartbeat
  <2> QED
    BY <1>3, <2>1, <2>2, <2>3 DEF ProduceHeartbeat, TypeOK
<1>4. ASSUME NEW t \in Tasks, ProduceTelemetry(t) PROVE TypeOK'
  <2>1. PICK d \in 0..Slow : Producing(t, d)
    BY <1>4 DEF ProduceTelemetry
  <2>2. /\ todo' \subseteq Tasks /\ pc = "pass"
        /\ elapsed' \in Nat /\ silence' \in Nat
        /\ left' \in [Tasks -> Nat] /\ age' \in 0..InventoryInterval
    BY <2>1, ProducingFacts
  <2>3. outbox' \in Events
    BY <1>4, EventFacts DEF ProduceTelemetry
  <2> QED
    BY <1>4, <2>2, <2>3 DEF ProduceTelemetry, TypeOK
<1>5. ASSUME NEW usage \in 0..1, ReadIdentity(usage) PROVE TypeOK'
  <2>1. left' \in [Tasks -> Nat]
    BY <1>5, NextRunFacts, TaskFacts DEF ReadIdentity, TypeOK
  <2>2. todo' \subseteq Tasks /\ pc = "pass"
    BY <1>5 DEF ReadIdentity, Taken, TypeOK
  <2>3. [of |-> machine, used |-> usage] \in Reading
    BY DEF Reading, TypeOK
  <2>4. /\ pc' \in {"pass", "maintenance"}
        /\ IF pc' = "maintenance" THEN draft' \in Reading ELSE draft' = None
    BY <1>5, <2>2, <2>3 DEF ReadIdentity, TypeOK
  <2> QED
    BY <1>5, <2>1, <2>2, <2>4 DEF ReadIdentity, TypeOK
<1>6. CASE ReadMaintenance
  <2>1. PICK d \in 0..Slow : Busy(d) /\ left' = Later(d) /\ age' = Older(0, d)
    BY <1>6 DEF ReadMaintenance
  <2> d \in Nat /\ elapsed' \in Nat /\ silence' \in Nat
    BY <2>1, BusyFacts DEF TypeOK
  <2>2. left' \in [Tasks -> Nat]
    BY <2>1, LaterFacts DEF TypeOK
  <2>3. age' \in 0..InventoryInterval
    BY <2>1, OlderFacts DEF TypeOK
  <2>4. draft \in Reading /\ [identity |-> draft, upkeep |-> machine] \in Report
    BY <1>6 DEF ReadMaintenance, TypeOK, Report
  <2>5. outbox' \in Events
    BY <1>6, <2>4, EventFacts DEF ReadMaintenance
  <2> QED
    BY <1>6, <2>2, <2>3, <2>4, <2>5 DEF ReadMaintenance, TypeOK
<1>7. CASE ProduceFails
  <2>1. PICK d \in 0..Slow :
           \/ /\ \E t \in Tasks \ {"heartbeat"} : Producing(t, d)
              /\ UNCHANGED <<pc, draft>>
           \/ /\ pc = "maintenance" /\ pc' = "pass" /\ draft' = None
              /\ Working(d)
              /\ UNCHANGED todo
    BY <1>7 DEF ProduceFails
  <2>2. CASE \E t \in Tasks \ {"heartbeat"} : Producing(t, d) /\ UNCHANGED <<pc, draft>>
    <3>1. PICK t \in Tasks : Producing(t, d) /\ UNCHANGED <<pc, draft>>
      BY <2>2
    <3>2. /\ todo' \subseteq Tasks /\ pc = "pass"
          /\ elapsed' \in Nat /\ silence' \in Nat
          /\ left' \in [Tasks -> Nat] /\ age' \in 0..InventoryInterval
      BY <3>1, ProducingFacts
    <3> QED
      BY <1>7, <3>1, <3>2 DEF ProduceFails, TypeOK
  <2>3. CASE pc = "maintenance" /\ pc' = "pass" /\ draft' = None /\ Working(d)
             /\ UNCHANGED todo
    <3>1. /\ elapsed' \in Nat /\ silence' \in Nat
          /\ left' \in [Tasks -> Nat] /\ age' \in 0..InventoryInterval
      BY <2>3, WorkingFacts
    <3> QED
      BY <1>7, <2>3, <3>1 DEF ProduceFails, TypeOK
  <2> QED
    BY <2>1, <2>2, <2>3
<1>8. CASE Delivered \/ GivenUp
  <2>1. PICK d \in 0..Slow : Working(d)
    BY <1>8 DEF Delivered, GivenUp, Submitted
  <2>2. /\ elapsed' \in Nat /\ silence' \in Nat
        /\ left' \in [Tasks -> Nat] /\ age' \in 0..InventoryInterval
    BY <2>1, WorkingFacts
  <2>4. shown' \in Report \cup {None}
    BY <1>8, EventFacts DEF Delivered, GivenUp, Submitted, Received, TypeOK
  <2>5. faults' \in 0..MaxFaults /\ deaths' \in 0..faults'
    BY <1>8 DEF Delivered, GivenUp, Submitted, TypeOK
  <2> QED
    BY <1>8, <2>2, <2>4, <2>5 DEF Delivered, GivenUp, Submitted, TypeOK
<1>9. CASE Die
  <2>1. silence' \in Nat /\ deaths' \in 0..faults' /\ faults' \in 0..MaxFaults
    BY <1>9 DEF Die, TypeOK
  <2> QED
    BY <1>9, <2>1 DEF Die, Started, TypeOK
<1>10. CASE Change
  BY <1>10 DEF Change, TypeOK
<1>11. CASE UNCHANGED vars
  BY <1>11 DEF vars, TypeOK
<1> QED
  BY <1>1, <1>2, <1>3, <1>4, <1>5, <1>6, <1>7, <1>8, <1>9, <1>10, <1>11
  DEF Next, Work

\* Type correctness of the loop, the inventory task and what the backend received,
\* for any machines, intervals and bounds.
THEOREM TypeCorrect == Spec => []TypeOK
BY InitTypeOK, NextTypeOK, PTL DEF Spec
-----------------------------------------------------------------------------
(* The heartbeat *)

\* The time a task takes at most, with its submission; what is still to come of it
\* in this pass, of the submission under way, and of the maintenance section.
Cost(t) == IF t = "heartbeat" THEN Slow ELSE 2 * Slow
ToCome(t) == IF t \in todo THEN Cost(t) ELSE 0
ToSubmit == IF outbox # None THEN Slow ELSE 0
ToMaintain == IF pc = "maintenance" THEN 2 * Slow ELSE 0
InHand == ToSubmit + ToMaintain

\* The time the rest of the pass may take.
Upcoming == ToCome("heartbeat") + ToCome("system_metrics") + ToCome("docker_status")
                + ToCome("host_inventory") + InHand

\* A pass takes at most LongestPass, and nothing is under way between passes or
\* while the inventory is being assembled.
PassInv ==
    /\ elapsed + Upcoming <= LongestPass
    /\ pc # "pass" => outbox = None
    /\ pc = "sleep" => todo = {}

\* A heartbeat that is due is what the pass begins with.  While it is not yet due,
\* its interval bounds the silence; once it is, the time this pass took is added.
SilenceInv ==
    IF "heartbeat" \in todo
    THEN pc = "pass" /\ outbox = None /\ elapsed = 0 /\ HeartbeatGap
    ELSE IF left["heartbeat"] > 0
         THEN silence + left["heartbeat"] <= HeartbeatInterval
         ELSE silence <= HeartbeatInterval - 1 + elapsed

\* The heartbeat is not late while the process is busy with something else.
LEMMA BusyKeepsSilence ==
    ASSUME TypeOK, SilenceInv, "heartbeat" \notin todo, todo' \subseteq todo,
           NEW d \in 0..Slow, Busy(d), left'["heartbeat"] = Later(d)["heartbeat"]
    PROVE  SilenceInv'
<1>1. /\ left["heartbeat"] \in Nat /\ silence \in Nat /\ elapsed \in Nat /\ d \in Nat
      /\ HeartbeatInterval \in Nat
      /\ left'["heartbeat"] = IF left["heartbeat"] > d THEN left["heartbeat"] - d ELSE 0
  BY CollectorAssumption, LaterFacts, TaskFacts, BusyFacts DEF TypeOK
<1>2. /\ silence' = silence + d /\ elapsed' = elapsed + d /\ "heartbeat" \notin todo'
  BY DEF Busy
<1> QED
  BY <1>1, <1>2 DEF SilenceInv

\* Nor by a step that takes no time.
LEMMA QuickKeepsSilence ==
    ASSUME SilenceInv, "heartbeat" \notin todo, todo' \subseteq todo,
           UNCHANGED <<elapsed, silence>>, left'["heartbeat"] = left["heartbeat"]
    PROVE  SilenceInv'
BY DEF SilenceInv

\* What is to come are numbers.
LEMMA ToComeFacts ==
    /\ Slow \in Nat /\ \A t : Cost(t) \in {Slow, 2 * Slow} /\ Cost(t) \in Nat
    /\ \A t : ToCome(t) \in Nat
    /\ ToSubmit \in Nat /\ ToMaintain \in Nat
<1>1. Slow \in Nat /\ 2 * Slow \in Nat
  BY CollectorAssumption
<1>2. \A t : Cost(t) \in {Slow, 2 * Slow} /\ Cost(t) \in Nat
  BY <1>1 DEF Cost
<1> QED
  BY <1>1, <1>2 DEF ToCome, ToSubmit, ToMaintain

\* A step that takes a task does at most what was to come of it.
LEMMA TakingKeepsPass ==
    ASSUME TypeOK, PassInv, NEW t \in Tasks, t \in todo, todo' = todo \ {t},
           pc = "pass", outbox = None, pc' \in {"pass", "maintenance"},
           pc' = "maintenance" => outbox' = None,
           NEW d \in Nat, elapsed' = elapsed + d,
           InHand' <= Cost(t) - d
    PROVE  PassInv'
<1>1. \A u \in Tasks : IF u = t THEN ToCome(u) = Cost(t) /\ ToCome(u)' = 0
                                ELSE ToCome(u)' = ToCome(u)
  BY DEF ToCome
<1>2. InHand = 0
  BY DEF InHand, ToSubmit, ToMaintain
<1>3. InHand' \in Nat
  BY ToComeFacts DEF InHand, ToSubmit, ToMaintain
<1>4. elapsed + Upcoming <= LongestPass /\ elapsed \in Nat /\ LongestPass \in Nat
  BY CollectorAssumption DEF PassInv, TypeOK, LongestPass
<1>5. /\ ToCome("heartbeat") \in Nat /\ ToCome("system_metrics") \in Nat
      /\ ToCome("docker_status") \in Nat /\ ToCome("host_inventory") \in Nat
      /\ Cost(t) \in Nat
  BY ToComeFacts
<1>6. (elapsed + Upcoming <= LongestPass)'
  BY <1>1, <1>2, <1>3, <1>4, <1>5, TaskFacts DEF Upcoming
<1> QED
  BY <1>6 DEF PassInv

\* A step within a task takes no longer than what was to come of it.
LEMMA WorkingKeepsPass ==
    ASSUME TypeOK, PassInv, todo' = todo, NEW d \in Nat, elapsed' = elapsed + d,
           pc' # "pass" => outbox' = None, pc' = "sleep" => todo' = {},
           InHand' <= InHand - d
    PROVE  PassInv'
<1>1. /\ ToCome("heartbeat")' = ToCome("heartbeat")
      /\ ToCome("system_metrics")' = ToCome("system_metrics")
      /\ ToCome("docker_status")' = ToCome("docker_status")
      /\ ToCome("host_inventory")' = ToCome("host_inventory")
  BY DEF ToCome
<1>2. InHand \in Nat /\ InHand' \in Nat
  BY ToComeFacts DEF InHand, ToSubmit, ToMaintain
<1>3. elapsed + Upcoming <= LongestPass /\ elapsed \in Nat /\ LongestPass \in Nat
  BY CollectorAssumption DEF PassInv, TypeOK, LongestPass
<1>4. PICK rest \in Nat :
         rest = ToCome("heartbeat") + ToCome("system_metrics")
                    + ToCome("docker_status") + ToCome("host_inventory")
  BY ToComeFacts
<1>5. PICK h \in Nat : h = InHand'
  BY <1>2
<1>6. Upcoming = rest + InHand /\ Upcoming' = rest + h
  BY <1>1, <1>4, <1>5 DEF Upcoming
<1>7. h <= InHand - d
  BY <1>5
<1>8. (elapsed + d) + (rest + h) <= LongestPass
  BY <1>2, <1>3, <1>6, <1>7
<1>9. elapsed' + Upcoming' <= LongestPass
  BY <1>6, <1>8
<1> QED
  BY <1>9 DEF PassInv, LongestPass

\* A pass that begins has all of LongestPass before it.
LEMMA BeginningKeepsPass ==
    ASSUME pc' = "pass", outbox' = None, elapsed' = 0
    PROVE  PassInv'
<1>1. InHand' = 0
  BY DEF InHand, ToSubmit, ToMaintain
<1>2. /\ ToCome("heartbeat")' \in {0, Slow} /\ ToCome("system_metrics")' \in {0, 2 * Slow}
      /\ ToCome("docker_status")' \in {0, 2 * Slow}
      /\ ToCome("host_inventory")' \in {0, 2 * Slow}
  BY DEF ToCome, Cost
<1>3. Slow \in Nat
  BY CollectorAssumption
<1>4. (elapsed + Upcoming <= LongestPass)'
  BY <1>1, <1>2, <1>3 DEF Upcoming, LongestPass
<1> QED
  BY <1>4 DEF PassInv

LEMMA NextPassInv == TypeOK /\ PassInv /\ [Next]_vars => PassInv'
<1> SUFFICES ASSUME TypeOK, PassInv, [Next]_vars PROVE PassInv'
  OBVIOUS
<1> elapsed \in Nat /\ Slow \in Nat
  BY CollectorAssumption DEF TypeOK
<1>1. CASE Wake
  BY <1>1, BeginningKeepsPass DEF Wake, PassInv
<1>2. CASE EndPass
  <2>1. InHand' <= InHand - 0 /\ elapsed' = elapsed + 0
    BY <1>2 DEF EndPass, InHand, ToSubmit, ToMaintain
  <2> QED
    BY <1>2, <2>1, ToComeFacts, WorkingKeepsPass DEF EndPass
<1>3. CASE ProduceHeartbeat
  <2>1. /\ "heartbeat" \in todo /\ todo' = todo \ {"heartbeat"}
        /\ elapsed' = elapsed + 0 /\ pc' = "pass" /\ pc = "pass" /\ outbox = None
    BY <1>3 DEF ProduceHeartbeat, Taken, First
  <2>2. InHand' <= Cost("heartbeat") - 0
    BY <2>1 DEF InHand, ToSubmit, ToMaintain, Cost
  <2> QED
    BY <2>1, <2>2, TaskFacts, TakingKeepsPass
<1>4. ASSUME NEW t \in Tasks, ProduceTelemetry(t) PROVE PassInv'
  <2>1. PICK d \in 0..Slow : Producing(t, d)
    BY <1>4 DEF ProduceTelemetry
  <2>2. /\ t \in todo /\ todo' = todo \ {t} /\ t # "heartbeat"
        /\ pc' = "pass" /\ pc = "pass" /\ outbox = None
    BY <1>4, <2>1 DEF ProduceTelemetry, Producing, Taken, First
  <2>3. elapsed' = elapsed + d /\ d \in Nat /\ d <= Slow
    BY <2>1 DEF Producing, Busy
  <2>4. InHand' <= Cost(t) - d
    BY <2>2, <2>3 DEF InHand, ToSubmit, ToMaintain, Cost
  <2> QED
    BY <2>2, <2>3, <2>4, TakingKeepsPass
<1>5. ASSUME NEW usage \in 0..1, ReadIdentity(usage) PROVE PassInv'
  <2>1. /\ "host_inventory" \in todo /\ todo' = todo \ {"host_inventory"}
        /\ elapsed' = elapsed + 0 /\ pc = "pass" /\ outbox = None /\ outbox' = None
        /\ pc' \in {"pass", "maintenance"}
    BY <1>5 DEF ReadIdentity, Taken, First
  <2>2. InHand' <= Cost("host_inventory") - 0
    BY <2>1 DEF InHand, ToSubmit, ToMaintain, Cost
  <2> QED
    BY <2>1, <2>2, TaskFacts, TakingKeepsPass
<1>6. CASE ReadMaintenance
  <2>1. UNCHANGED todo /\ pc = "maintenance" /\ pc' = "pass" /\ outbox = None
    BY <1>6 DEF ReadMaintenance, PassInv
  <2>2. PICK d \in 0..Slow : Busy(d)
    BY <1>6 DEF ReadMaintenance
  <2>3. elapsed' = elapsed + d /\ d \in Nat /\ d <= Slow
    BY <2>2 DEF Busy
  <2>4. InHand' <= InHand - d
    BY <2>1, <2>3 DEF InHand, ToSubmit, ToMaintain
  <2> QED
    BY <2>1, <2>3, <2>4, WorkingKeepsPass
<1>7. CASE ProduceFails
  <2>1. PICK d \in 0..Slow :
           \/ /\ \E t \in Tasks \ {"heartbeat"} : Producing(t, d)
              /\ UNCHANGED pc
           \/ /\ pc = "maintenance" /\ pc' = "pass" /\ Working(d)
              /\ UNCHANGED todo
    BY <1>7 DEF ProduceFails
  <2>2. CASE \E t \in Tasks \ {"heartbeat"} : Producing(t, d) /\ UNCHANGED pc
    <3>1. PICK t \in Tasks \ {"heartbeat"} : Producing(t, d) /\ UNCHANGED pc
      BY <2>2
    <3>2. /\ t \in todo /\ todo' = todo \ {t}
          /\ pc = "pass" /\ pc' = "pass" /\ outbox = None /\ outbox' = None
          /\ elapsed' = elapsed + d /\ d \in Nat /\ d <= Slow
      BY <1>7, <3>1 DEF ProduceFails, Producing, Taken, First, Busy
    <3>3. InHand' <= Cost(t) - d
      BY <3>1, <3>2 DEF InHand, ToSubmit, ToMaintain, Cost
    <3> QED
      BY <3>2, <3>3, TakingKeepsPass
  <2>3. CASE pc = "maintenance" /\ pc' = "pass" /\ Working(d) /\ UNCHANGED todo
    <3>1. /\ elapsed' = elapsed + d /\ d \in Nat /\ d <= Slow
          /\ outbox = None /\ outbox' = None
      BY <1>7, <2>3 DEF ProduceFails, Working, Busy, PassInv
    <3>2. InHand' <= InHand - d
      BY <2>3, <3>1 DEF InHand, ToSubmit, ToMaintain
    <3> QED
      BY <2>3, <3>1, <3>2, WorkingKeepsPass
  <2> QED
    BY <2>1, <2>2, <2>3
<1>8. CASE Delivered \/ GivenUp
  <2>1. UNCHANGED <<todo, pc>> /\ outbox # None /\ outbox' = None
    BY <1>8 DEF Delivered, GivenUp, Submitted
  <2>2. PICK d \in 0..Slow : Busy(d)
    BY <1>8 DEF Delivered, GivenUp, Submitted, Working
  <2>3. elapsed' = elapsed + d /\ d \in Nat /\ d <= Slow
    BY <2>2 DEF Busy
  <2>4. InHand' <= InHand - d
    BY <2>1, <2>3 DEF InHand, ToSubmit, ToMaintain
  <2> QED
    BY <2>1, <2>3, <2>4, WorkingKeepsPass DEF PassInv
<1>9. CASE Die
  BY <1>9, BeginningKeepsPass DEF Die, Started
<1>10. CASE Change \/ UNCHANGED vars
  <2>1. UNCHANGED <<todo, outbox, pc, elapsed>> /\ elapsed' = elapsed + 0
    BY <1>10 DEF Change, vars
  <2>2. InHand' <= InHand - 0
    BY <2>1 DEF InHand, ToSubmit, ToMaintain
  <2> QED
    BY <2>1, <2>2, ToComeFacts, WorkingKeepsPass DEF PassInv
<1> QED
  BY <1>1, <1>2, <1>3, <1>4, <1>5, <1>6, <1>7, <1>8, <1>9, <1>10
  DEF Next, Work

\* A pass takes at most LongestPass.
LEMMA PassBounded == TypeOK /\ PassInv => elapsed <= LongestPass
<1> SUFFICES ASSUME TypeOK, PassInv PROVE elapsed <= LongestPass
  OBVIOUS
<1>1. elapsed + Upcoming <= LongestPass /\ elapsed \in Nat /\ LongestPass \in Nat
  BY CollectorAssumption DEF PassInv, TypeOK, LongestPass
<1>2. Upcoming \in Nat
  BY ToComeFacts DEF Upcoming, InHand
<1> QED
  BY <1>1, <1>2

\* The invariant implies the gap: what is left of the pass cannot make up for more
\* than LongestPass.
LEMMA SilenceBounded == TypeOK /\ PassInv /\ SilenceInv => HeartbeatGap
<1> SUFFICES ASSUME TypeOK, PassInv, SilenceInv PROVE HeartbeatGap
  OBVIOUS
<1>1. elapsed \in Nat /\ Slow \in Nat /\ HeartbeatInterval \in Nat /\ silence \in Nat
  BY CollectorAssumption DEF TypeOK
<1>2. elapsed <= LongestPass
  BY <1>1, PassBounded
<1>3. left["heartbeat"] \in Nat
  BY TaskFacts DEF TypeOK
<1>4. PICK grace \in Nat : grace = deaths * RestartDelay
  BY DeathFacts
<1>5. LongestPass \in Nat
  BY <1>1 DEF LongestPass
<1>6. CASE "heartbeat" \in todo
  BY <1>6 DEF SilenceInv
<1>7. CASE "heartbeat" \notin todo
  <2>1. silence <= HeartbeatInterval + LongestPass
    BY <1>1, <1>2, <1>3, <1>5, <1>7 DEF SilenceInv
  <2> QED
    BY <1>1, <1>4, <1>5, <2>1 DEF HeartbeatGap
<1> QED
  BY <1>6, <1>7

LEMMA NextSilenceInv == TypeOK /\ PassInv /\ SilenceInv /\ [Next]_vars => SilenceInv'
<1> SUFFICES ASSUME TypeOK, PassInv, SilenceInv, [Next]_vars PROVE SilenceInv'
  OBVIOUS
<1> PICK hb : hb = "heartbeat"
  OBVIOUS
<1>0. /\ left \in [Tasks -> Nat] /\ left[hb] \in Nat /\ hb \in Tasks
      /\ silence \in Nat /\ elapsed \in Nat
      /\ HeartbeatInterval \in Nat /\ HeartbeatInterval > 0 /\ Slow \in Nat
  BY CollectorAssumption, TaskFacts DEF TypeOK
<1>1. CASE Wake
  <2>1. /\ pc = "sleep" /\ pc' = "pass" /\ elapsed' = 0 /\ silence' = silence + 1
        /\ outbox' = outbox /\ left' = Later(1) /\ (hb \in todo' <=> left'[hb] = 0)
    BY <1>0, <1>1 DEF Wake
  <2>2. hb \notin todo /\ outbox = None /\ elapsed <= LongestPass
    BY <2>1, PassBounded DEF PassInv
  <2>3. left'[hb] = IF left[hb] > 1 THEN left[hb] - 1 ELSE 0
    BY <1>0, <2>1, LaterFacts
  <2>4. deaths' * RestartDelay \in Nat /\ LongestPass \in Nat
    BY <1>0, <1>1, DeathFacts DEF Wake, LongestPass
  <2>5. CASE hb \in todo'
    <3>1. silence <= HeartbeatInterval + elapsed /\ silence' = silence + 1
          /\ (left[hb] > 0 => silence + left[hb] <= HeartbeatInterval)
          /\ (left[hb] = 0 => silence + 1 <= HeartbeatInterval + elapsed)
      BY <1>0, <2>1, <2>2 DEF SilenceInv
    <3>2. silence' <= HeartbeatInterval + LongestPass
      BY <1>0, <2>2, <2>4, <3>1
    <3>3. HeartbeatGap'
      BY <1>0, <2>1, <2>4, <3>1, <3>2 DEF HeartbeatGap, LongestPass
    <3> QED
      BY <2>1, <2>2, <2>5, <3>3 DEF SilenceInv
  <2>6. CASE hb \notin todo'
    BY <1>0, <2>1, <2>2, <2>3, <2>6 DEF SilenceInv
  <2> QED
    BY <2>5, <2>6
<1>2. CASE EndPass
  BY <1>2 DEF EndPass, SilenceInv
<1>3. CASE ProduceHeartbeat
  <2>1. /\ hb \in todo /\ hb \notin todo' /\ silence' = 0 /\ elapsed' = elapsed
        /\ left'[hb] = NextRun(hb)
    BY <1>0, <1>3 DEF ProduceHeartbeat, Taken, First
  <2>2. left'[hb] = HeartbeatInterval
    BY <1>0, <2>1 DEF SilenceInv, NextRun, Minus, Interval
  <2> QED
    BY <1>0, <2>1, <2>2 DEF SilenceInv
<1>4. ASSUME NEW t \in Tasks \ {"heartbeat"}, NEW d \in 0..Slow, Producing(t, d)
      PROVE  SilenceInv'
  <2>1. hb \notin todo /\ todo' \subseteq todo /\ Busy(d)
    BY <1>4, HeartbeatFirst DEF Producing, Taken, TypeOK
  <2>2. left'[hb] = Later(d)[hb]
    BY <1>0, <1>4, ProducingFacts
  <2> QED
    BY <2>1, <2>2, BusyKeepsSilence
<1>5. ASSUME NEW usage \in 0..1, ReadIdentity(usage) PROVE SilenceInv'
  <2>1. /\ hb \notin todo /\ todo' \subseteq todo /\ UNCHANGED <<elapsed, silence>>
        /\ left'[hb] = left[hb]
    BY <1>0, <1>5, HeartbeatFirst DEF ReadIdentity, Taken, TypeOK
  <2> QED
    BY <2>1, QuickKeepsSilence
<1>6. CASE ReadMaintenance
  <2>1. PICK d \in 0..Slow : Busy(d) /\ left' = Later(d)
    BY <1>6 DEF ReadMaintenance
  <2>2. hb \notin todo /\ todo' = todo
    BY <1>6 DEF ReadMaintenance, SilenceInv
  <2> QED
    BY <2>1, <2>2, BusyKeepsSilence
<1>7. CASE ProduceFails
  <2>1. PICK d \in 0..Slow :
           \/ \E t \in Tasks \ {"heartbeat"} : Producing(t, d)
           \/ pc = "maintenance" /\ Working(d) /\ UNCHANGED todo
    BY <1>7 DEF ProduceFails
  <2>2. CASE pc = "maintenance" /\ Working(d) /\ UNCHANGED todo
    <3>1. hb \notin todo /\ todo' = todo /\ Busy(d) /\ left' = Later(d)
      BY <2>2 DEF SilenceInv, Working
    <3> QED
      BY <3>1, BusyKeepsSilence
  <2> QED
    BY <1>4, <2>1, <2>2
<1>8. CASE Delivered \/ GivenUp
  <2>1. PICK d \in 0..Slow : Busy(d) /\ left' = Later(d)
    BY <1>8 DEF Delivered, GivenUp, Submitted, Working
  <2>2. hb \notin todo /\ todo' = todo
    BY <1>8 DEF Delivered, GivenUp, Submitted, SilenceInv
  <2> QED
    BY <2>1, <2>2, BusyKeepsSilence
<1>9. CASE Die
  <2>1. PICK d \in 0..RestartDelay : silence' = silence + d /\ deaths' = deaths + 1
    BY <1>9 DEF Die
  <2>2. PICK grace \in Nat : grace = deaths * RestartDelay
    BY DeathFacts
  <2>3. deaths' * RestartDelay = grace + RestartDelay /\ RestartDelay \in Nat
    BY <2>1, <2>2, DeathFacts
  <2>4. silence <= HeartbeatInterval + LongestPass + grace /\ LongestPass \in Nat
    BY <1>0, <2>2, SilenceBounded DEF HeartbeatGap, LongestPass
  <2>5. silence' <= HeartbeatInterval + LongestPass + (grace + RestartDelay)
    BY <1>0, <2>1, <2>2, <2>3, <2>4
  <2>6. HeartbeatGap'
    BY <2>3, <2>5 DEF HeartbeatGap, LongestPass
  <2> QED
    BY <1>0, <1>9, <2>6 DEF Die, Started, SilenceInv
<1>10. CASE Change
  BY <1>10 DEF Change, SilenceInv, HeartbeatGap
<1>11. CASE UNCHANGED vars
  BY <1>11 DEF vars, SilenceInv, HeartbeatGap
<1>12. ASSUME NEW t \in Tasks, ProduceTelemetry(t) PROVE SilenceInv'
  <2>1. PICK d \in 0..Slow : Producing(t, d)
    BY <1>12 DEF ProduceTelemetry
  <2>2. t # "heartbeat"
    BY <1>12 DEF ProduceTelemetry
  <2> QED
    BY <1>4, <2>1, <2>2
<1> QED
  BY <1>1, <1>2, <1>3, <1>5, <1>6, <1>7, <1>8, <1>9, <1>10, <1>11, <1>12
  DEF Next, Work

\* The heartbeats of a host follow each other within their interval, one pass and
\* the restarts between them, for any intervals and durations and whatever fails:
\* the offline timeout of the backend has to exceed this.
THEOREM HeartbeatsInTime == Spec => []HeartbeatGap
<1>1. Init => PassInv /\ SilenceInv
  <2> SUFFICES ASSUME Init PROVE PassInv /\ SilenceInv
    OBVIOUS
  <2>1. PassInv
    BY CollectorAssumption
    DEF Init, PassInv, Upcoming, InHand, ToCome, Cost, ToSubmit, ToMaintain, LongestPass
  <2>2. SilenceInv
    BY CollectorAssumption, TaskFacts DEF Init, SilenceInv, HeartbeatGap, LongestPass
  <2> QED
    BY <2>1, <2>2
<1> QED
  BY <1>1, TypeCorrect, NextPassInv, NextSilenceInv, SilenceBounded, PTL DEF Spec
-----------------------------------------------------------------------------
(* Reports *)

\* How full the disks are is not part of the signature.
LEMMA SignatureIsDurable ==
    ASSUME NEW m \in Machines, NEW u, NEW v
    PROVE  SignatureOf([of |-> m, used |-> u]) = SignatureOf([of |-> m, used |-> v])
<1> DEFINE F == Facts[m]
           entry(i, u1) == [position |-> i, mount |-> F.mounts[i],
                            physical |-> Physical(F, i),
                            type |-> TypeLabel(F, Physical(F, i)),
                            name |-> LogicalName(F, i), used |-> u1]
           durable == {entry(i, None) : i \in DOMAIN F.mounts}
<1>1. ASSUME NEW w
      PROVE  {[e EXCEPT !.used = None] : e \in Storage(F, w)} = durable
  <2>1. Storage(F, w) = {entry(i, w) : i \in DOMAIN F.mounts}
    BY DEF Storage
  <2>2. \A i : [entry(i, w) EXCEPT !.used = None] = entry(i, None)
    OBVIOUS
  <2> HIDE DEF entry
  <2> QED
    BY <2>1, <2>2
<1>2. ASSUME NEW w
      PROVE  SignatureOf([of |-> m, used |-> w]) =
                 [hardware |-> Hardware(F), os |-> OperatingSystem(F),
                  storage |-> durable, network |-> Network(F)]
  <2>1. SignatureOf([of |-> m, used |-> w]) = Signature(Identity(F, w))
    BY DEF SignatureOf
  <2>2. Signature(Identity(F, w)) =
            [Identity(F, w) EXCEPT !.storage =
                {[e EXCEPT !.used = None] : e \in Identity(F, w).storage}]
    BY DEF Signature
  <2>3. Identity(F, w) = [hardware |-> Hardware(F), os |-> OperatingSystem(F),
                          storage |-> Storage(F, w), network |-> Network(F)]
    BY DEF Identity
  <2>4. Identity(F, w).storage = Storage(F, w)
    BY <2>3
  <2>5. {[e EXCEPT !.used = None] : e \in Identity(F, w).storage} = durable
    BY <1>1, <2>4
  <2> HIDE DEF durable, F
  <2>6. [Identity(F, w) EXCEPT !.storage = durable] =
            [hardware |-> Hardware(F), os |-> OperatingSystem(F),
             storage |-> durable, network |-> Network(F)]
    BY <2>3
  <2>7. Signature(Identity(F, w)) = [Identity(F, w) EXCEPT !.storage = durable]
    BY <2>2, <2>5
  <2> QED
    BY <2>1, <2>6, <2>7
<1> QED
  BY <1>2

\* Readings of one machine are alike.
LEMMA SameMachineAlike ==
    ASSUME NEW r \in Reading, NEW s \in Reading, r.of = s.of
    PROVE  <<r, s>> \in Alike
<1>1. /\ r = [of |-> r.of, used |-> r.used] /\ s = [of |-> r.of, used |-> s.used]
      /\ r.of \in Machines
  BY DEF Reading
<1>2. SignatureOf(r) = SignatureOf(s)
  BY <1>1, SignatureIsDurable
<1> QED
  BY <1>2 DEF Alike

\* An inventory is assembled because it was due, and the clock of the interval
\* stands still until it is.
DraftInv == pc = "maintenance" => outbox = None /\ Due(draft)

LEMMA NextDraftInv == TypeOK /\ DraftInv /\ [Next]_vars => DraftInv'
<1> SUFFICES ASSUME TypeOK, DraftInv, [Next]_vars, pc' = "maintenance"
             PROVE  outbox' = None /\ Due(draft)'
  BY DEF DraftInv
<1>1. CASE UNCHANGED <<pc, outbox, draft, last, age>>
  BY <1>1 DEF DraftInv, Due
<1>2. ASSUME NEW usage \in 0..1, ReadIdentity(usage) PROVE outbox' = None /\ Due(draft)'
  <2>1. pc = "pass" /\ outbox = None
    BY <1>2 DEF ReadIdentity, Taken
  <2>2. Due(draft') /\ UNCHANGED <<outbox, last, age>>
    BY <1>2, <2>1 DEF ReadIdentity
  <2> QED
    BY <2>1, <2>2 DEF Due
<1> QED
  BY <1>1, <1>2
  DEF Next, Work, Wake, EndPass, ProduceHeartbeat, ProduceTelemetry, Producing, Taken,
      ReadMaintenance, ProduceFails, Delivered, GivenUp, Submitted, Die, Started, Change, DraftInv, vars

\* A process repeats a durable identity only when its inventory interval has passed,
\* for any machines: how full their disks are, or whatever else the signature
\* leaves out, never causes a report.
THEOREM StableIsQuiet == Spec => QuietWhenStable
<1>1. Init => DraftInv
  BY DEF Init, DraftInv
<1>2. TypeOK /\ DraftInv /\ [Next]_vars =>
          [(/\ pc = "maintenance" /\ outbox' # outbox
            /\ last # None /\ draft.of = last.of) => age >= InventoryInterval]_vars
  <2> SUFFICES ASSUME TypeOK, DraftInv, pc = "maintenance", last # None, draft.of = last.of
               PROVE  age >= InventoryInterval
    OBVIOUS
  <2>1. draft \in Reading /\ last \in Reading
    BY DEF TypeOK
  <2>2. <<draft, last>> \in Alike
    BY <2>1, SameMachineAlike
  <2> QED
    BY <2>2 DEF DraftInv, Due
<1> QED
  BY <1>1, <1>2, TypeCorrect, NextDraftInv, PTL DEF Spec, QuietWhenStable
-----------------------------------------------------------------------------
(* Names *)

\* A set of numbers has a least element.
LEMMA Least ==
    ASSUME NEW T \in SUBSET Nat, T # {}
    PROVE  \E x \in T : \A y \in T : x <= y
<1> PICK R : R = {ss \in Nat \X Nat : ss[1] < ss[2]}
  OBVIOUS
<1>1. IsWellFoundedOn(R, Nat)
  BY NatLessThanWellFounded DEF OpToRel
<1>2. PICK x \in T : \A y \in T : ~ (<<y, x>> \in R)
  BY <1>1, WFMin
<1>3. \A m, n \in Nat : m < n => <<m, n>> \in R
  OBVIOUS
<1>4. ASSUME NEW y \in T PROVE x <= y
  <2>1. ~ (y < x) /\ x \in Nat /\ y \in Nat
    BY <1>2, <1>3
  <2> QED
    BY <2>1
<1> QED
  BY <1>4

\* What FirstMount chooses.
LEMMA FirstMountFacts ==
    ASSUME NEW F, NEW i \in Nat, i >= 1
    PROVE  /\ FirstMount(F, i) \in 1..i
           /\ Physical(F, FirstMount(F, i)) = Physical(F, i)
           /\ \A k \in 1..i : Physical(F, k) = Physical(F, i) => FirstMount(F, i) <= k
<1> PICK same : same = {j \in 1..i : Physical(F, j) = Physical(F, i)}
  OBVIOUS
<1>1. FirstMount(F, i) = CHOOSE j \in same : \A k \in same : j <= k
  BY DEF FirstMount
<1>2. same \in SUBSET Nat /\ i \in same
  OBVIOUS
<1>3. \E j \in same : \A k \in same : j <= k
  BY <1>2, Least
<1>4. FirstMount(F, i) \in same /\ \A k \in same : FirstMount(F, i) <= k
  BY <1>1, <1>3
<1> QED
  BY <1>4

\* Mounts of one device have the same first mount, and it is its own.
LEMMA FirstMountIsDevice ==
    ASSUME NEW F, NEW i \in Nat, i >= 1, NEW j \in Nat, j >= 1
    PROVE  /\ Physical(F, i) = Physical(F, j) => FirstMount(F, i) = FirstMount(F, j)
           /\ FirstMount(F, FirstMount(F, i)) = FirstMount(F, i)
<1>1. ASSUME NEW a \in Nat, a >= 1, NEW b \in Nat, b >= 1, Physical(F, a) = Physical(F, b)
      PROVE  FirstMount(F, a) <= FirstMount(F, b)
  <2>1. /\ FirstMount(F, a) \in 1..a /\ FirstMount(F, b) \in 1..b
        /\ Physical(F, FirstMount(F, b)) = Physical(F, a)
        /\ \A k \in 1..a : Physical(F, k) = Physical(F, a) => FirstMount(F, a) <= k
    BY <1>1, FirstMountFacts
  <2>2. FirstMount(F, a) \in Int /\ FirstMount(F, b) \in Int
    BY <2>1
  <2> QED
    BY <2>1, <2>2
<1>2. ASSUME NEW a \in Nat, a >= 1, NEW b \in Nat, b >= 1, Physical(F, a) = Physical(F, b)
      PROVE  FirstMount(F, a) = FirstMount(F, b)
  <2>1. FirstMount(F, a) <= FirstMount(F, b) /\ FirstMount(F, b) <= FirstMount(F, a)
    BY <1>1, <1>2
  <2>2. FirstMount(F, a) \in 1..a /\ FirstMount(F, b) \in 1..b
    BY <1>2, FirstMountFacts
  <2> QED
    BY <2>1, <2>2
<1>3. FirstMount(F, i) \in Nat /\ FirstMount(F, i) >= 1
      /\ Physical(F, FirstMount(F, i)) = Physical(F, i)
  BY FirstMountFacts
<1> QED
  BY <1>2, <1>3

\* The devices up to and including the first mount of one, with its prefix.
Counted(F, f) == {j \in 1..f : FirstMount(F, j) = j /\ PrefixAt(F, j) = PrefixAt(F, f)}

\* A later device with the same prefix has a greater ordinal.
LEMMA OrdinalsGrow ==
    ASSUME NEW F, NEW f \in Nat, NEW g \in Nat, f < g, f >= 1,
           FirstMount(F, g) = g, PrefixAt(F, f) = PrefixAt(F, g)
    PROVE  Cardinality(Counted(F, f)) # Cardinality(Counted(F, g))
<1>1. Counted(F, f) \cup {g} \subseteq Counted(F, g) /\ g \notin Counted(F, f)
  BY DEF Counted
<1>2. IsFiniteSet(1..g) /\ Counted(F, g) \subseteq 1..g
  BY FS_Interval DEF Counted
<1>3. IsFiniteSet(Counted(F, g))
  BY <1>2, FS_Subset
<1>4. /\ IsFiniteSet(Counted(F, f))
      /\ Cardinality(Counted(F, f) \cup {g}) <= Cardinality(Counted(F, g))
  BY <1>1, <1>3, FS_Subset
<1>5. Cardinality(Counted(F, f) \cup {g}) = Cardinality(Counted(F, f)) + 1
  BY <1>1, <1>4, FS_AddElement
<1>6. Cardinality(Counted(F, f)) \in Nat /\ Cardinality(Counted(F, g)) \in Nat
  BY <1>3, <1>4, FS_CardinalityType
<1> QED
  BY <1>4, <1>5, <1>6

\* Two mounts have the same logical name exactly if they are of one device.
LEMMA NamesTellDevices ==
    ASSUME NEW F, NEW i \in Nat, i >= 1, NEW j \in Nat, j >= 1
    PROVE  LogicalName(F, i) = LogicalName(F, j) <=> Physical(F, i) = Physical(F, j)
<1> DEFINE f == FirstMount(F, i)
           g == FirstMount(F, j)
<1>1. /\ f \in Nat /\ f >= 1 /\ FirstMount(F, f) = f /\ Physical(F, f) = Physical(F, i)
      /\ g \in Nat /\ g >= 1 /\ FirstMount(F, g) = g /\ Physical(F, g) = Physical(F, j)
  BY FirstMountFacts, FirstMountIsDevice
<1>2. /\ LogicalName(F, i) = <<PrefixAt(F, f), Cardinality(Counted(F, f))>>
      /\ LogicalName(F, j) = <<PrefixAt(F, g), Cardinality(Counted(F, g))>>
  BY DEF LogicalName, Counted
<1>3. ASSUME Physical(F, i) = Physical(F, j) PROVE f = g
  BY <1>3, FirstMountIsDevice
<1> HIDE DEF f, g
<1>4. ASSUME LogicalName(F, i) = LogicalName(F, j) PROVE f = g
  <2>1. PrefixAt(F, f) = PrefixAt(F, g)
        /\ Cardinality(Counted(F, f)) = Cardinality(Counted(F, g))
    BY <1>2, <1>4
  <2>2. ~ (f < g) /\ ~ (g < f)
    BY <1>1, <2>1, OrdinalsGrow
  <2> QED
    BY <1>1, <2>2
<1> QED
  BY <1>1, <1>2, <1>3, <1>4

\* A name and the disk it stands for: on a disk that can have partitions, the code's
\* base device is the disk.
LEMMA BaseIsDisk ==
    ASSUME NEW device, device.family \in Partitioned
    PROVE  BaseDevice(device) = WholeDisk(device)
BY DEF BaseDevice, WholeDisk, Partitioned, Numbered

\* A logical name stands for one disk, and every mount of a disk carries it, for the
\* reports of any machine whose mounts are on disks that can have partitions.
THEOREM NamesAreDisks == Spec => []NamesIdentifyDisks
<1>1. ASSUME NEW m \in Machines, OnDisks(m)
      PROVE  m \in WellNamed
  <2> SUFFICES ASSUME NEW a \in Storage(Facts[m], 0), NEW b \in Storage(Facts[m], 0)
               PROVE  a.name = b.name
                         <=> WholeDisk(a.mount.device) = WholeDisk(b.mount.device)
    BY DEF WellNamed
  <2>1. /\ Len(Facts[m].mounts) \in Nat
        /\ DOMAIN Facts[m].mounts = 1..Len(Facts[m].mounts)
    BY CollectorAssumption
  <2>2. PICK i \in 1..Len(Facts[m].mounts) :
           a.name = LogicalName(Facts[m], i) /\ a.mount = Facts[m].mounts[i]
    BY <2>1 DEF Storage
  <2>3. PICK j \in 1..Len(Facts[m].mounts) :
           b.name = LogicalName(Facts[m], j) /\ b.mount = Facts[m].mounts[j]
    BY <2>1 DEF Storage
  <2>4. i \in Nat /\ i >= 1 /\ j \in Nat /\ j >= 1
    BY <2>1
  <2>5. /\ Physical(Facts[m], i) = WholeDisk(a.mount.device)
        /\ Physical(Facts[m], j) = WholeDisk(b.mount.device)
    BY <1>1, <2>1, <2>2, <2>3, BaseIsDisk DEF OnDisks, Physical
  <2> QED
    BY <2>2, <2>3, <2>4, <2>5, NamesTellDevices
<1>2. TypeOK => NamesIdentifyDisks
  <2> SUFFICES ASSUME TypeOK, shown # None, OnDisks(shown.identity.of)
               PROVE  shown.identity.of \in WellNamed
    BY DEF NamesIdentifyDisks
  <2>1. shown.identity.of \in Machines
    BY DEF TypeOK, Report, Reading
  <2> QED
    BY <1>1, <2>1
<1> QED
  BY <1>2, TypeCorrect, PTL

-----------------------------------------------------------------------------
(* The upgrade history *)

\* The last of some places of a log.
LEMMA LastFacts ==
    ASSUME NEW log, Len(log) \in Nat, DOMAIN log = 1..Len(log),
           NEW places \in SUBSET DOMAIN log, places # {}
    PROVE  \E i \in places : LastOf(log, places) = log[i].start /\ \A j \in places : j <= i
<1> DEFINE later == {Len(log) - j : j \in places}
<1>1. later \in SUBSET Nat /\ later # {}
  <2>1. \A j \in places : Len(log) - j \in Nat
    OBVIOUS
  <2>2. PICK j \in places : Len(log) - j \in later
    OBVIOUS
  <2> QED
    BY <2>1, <2>2
<1>2. PICK d \in later : \A e \in later : d <= e
  BY <1>1, Least
<1>3. PICK i \in places : d = Len(log) - i
  OBVIOUS
<1>4. \A j \in places : Len(log) - j \in later
  OBVIOUS
<1> HIDE DEF later
<1>5. ASSUME NEW j \in places PROVE j <= i
  <2>1. Len(log) - i <= Len(log) - j /\ i \in Nat /\ j \in Nat
    BY <1>2, <1>3, <1>4
  <2> QED
    BY <2>1
<1>6. PICK k \in places : k = CHOOSE m \in places : \A j \in places : j <= m
  BY <1>5
<1>7. \A j \in places : j <= k
  BY <1>5, <1>6
<1>8. LastOf(log, places) = log[k].start
  BY <1>6 DEF LastOf
<1> QED
  BY <1>7, <1>8

\* The date a log has of a kind of upgrade: none, or no earlier than any of them.
Kinds == {"upgrade", "full"}
Dated(log, kind) == {i \in DOMAIN log : kind = "full" => log[i].full}
DateOf(log, kind) == LastOf(log, Dated(log, kind))

LEMMA DateFacts ==
    ASSUME NEW m \in Machines, NEW n \in DOMAIN Facts[m].logs, NEW kind \in Kinds,
           NEW log, log = Facts[m].logs[n]
    PROVE  /\ ParseHistory(log)[kind] = DateOf(log, kind)
           /\ Dated(log, kind) = {} => DateOf(log, kind) = None
           /\ Dated(log, kind) # {} =>
                 /\ DateOf(log, kind) # None
                 /\ \E k \in Dated(log, kind) : DateOf(log, kind) = log[k].start
           /\ \A i \in Dated(log, kind) : log[i].start <= DateOf(log, kind)
<1>1. /\ Len(log) \in Nat /\ DOMAIN log = 1..Len(log)
      /\ \A i \in DOMAIN log : log[i].start \in Nat
      /\ \A i, j \in DOMAIN log : i <= j => log[i].start <= log[j].start
  BY LogsRotate
<1>2. ParseHistory(log)[kind] = DateOf(log, kind)
  <2>1. CASE kind = "upgrade"
    <3>1. Dated(log, kind) = DOMAIN log
      BY <2>1 DEF Dated
    <3> QED
      BY <2>1, <3>1 DEF ParseHistory, DateOf
  <2>2. CASE kind = "full"
    <3>1. Dated(log, kind) = {i \in DOMAIN log : log[i].full}
      BY <2>2 DEF Dated
    <3> QED
      BY <2>2, <3>1 DEF ParseHistory, DateOf
  <2> QED
    BY <2>1, <2>2 DEF Kinds
<1>3. Dated(log, kind) = {} => DateOf(log, kind) = None
  BY DEF DateOf, LastOf
<1>4. ASSUME Dated(log, kind) # {}
      PROVE  \E k \in Dated(log, kind) : DateOf(log, kind) = log[k].start
                                         /\ \A j \in Dated(log, kind) : j <= k
  <2>1. Dated(log, kind) \in SUBSET DOMAIN log
    BY DEF Dated
  <2> QED
    BY <1>1, <1>4, <2>1, LastFacts DEF DateOf
<1>5. ASSUME Dated(log, kind) # {}
      PROVE  /\ DateOf(log, kind) # None
             /\ \E k \in Dated(log, kind) : DateOf(log, kind) = log[k].start
             /\ \A i \in Dated(log, kind) : log[i].start <= DateOf(log, kind)
  <2>1. PICK k \in Dated(log, kind) : DateOf(log, kind) = log[k].start
                                      /\ \A j \in Dated(log, kind) : j <= k
    BY <1>4, <1>5
  <2>2. Dated(log, kind) \subseteq DOMAIN log
    BY DEF Dated
  <2>3. DateOf(log, kind) # None
    BY <1>1, <2>1, <2>2, CollectorAssumption
  <2>4. \A i \in Dated(log, kind) : log[i].start <= DateOf(log, kind)
    BY <1>1, <2>1, <2>2
  <2> QED
    BY <2>1, <2>3, <2>4
<1> QED
  BY <1>2, <1>3, <1>5

\* The date reported of a kind is no earlier than any upgrade of that kind in any log,
\* as long as the numbers of the archives have one digit.
LEMMA FirstDateFacts ==
    ASSUME NEW m \in Machines, DOMAIN Facts[m].logs \subseteq 0..9, NEW kind \in Kinds,
           NEW n \in DOMAIN Facts[m].logs, NEW i \in Dated(Facts[m].logs[n], kind)
    PROVE  Facts[m].logs[n][i].start <= FirstDate(Facts[m], kind)
<1> PICK logs : logs = Facts[m].logs
  OBVIOUS
<1> DEFINE date(k) == ParseHistory(logs[k])[kind]
           archives == {k \in DOMAIN logs \ {0} : date(k) # None}
<1>1. 0 \in DOMAIN logs /\ DOMAIN logs \subseteq 0..9
  BY LogsRotate
<1>2. FirstDate(Facts[m], kind)
        = IF date(0) # None THEN date(0)
          ELSE IF archives = {} THEN None
          ELSE date(CHOOSE k \in archives : \A j \in archives \ {k} : NameBefore(k, j))
  BY DEF FirstDate
<1>3. \A k \in DOMAIN logs :
         /\ date(k) = DateOf(logs[k], kind)
         /\ Dated(logs[k], kind) = {} <=> date(k) = None
         /\ date(k) # None => \E j \in Dated(logs[k], kind) : date(k) = logs[k][j].start
         /\ \A j \in Dated(logs[k], kind) : logs[k][j].start <= date(k)
  <2> SUFFICES ASSUME NEW k \in DOMAIN logs
               PROVE  /\ date(k) = DateOf(logs[k], kind)
                      /\ Dated(logs[k], kind) = {} <=> date(k) = None
                      /\ date(k) # None =>
                            \E j \in Dated(logs[k], kind) : date(k) = logs[k][j].start
                      /\ \A j \in Dated(logs[k], kind) : logs[k][j].start <= date(k)
    OBVIOUS
  <2>1. PICK log : log = Facts[m].logs[k] /\ log = logs[k]
    OBVIOUS
  <2>2. /\ ParseHistory(log)[kind] = DateOf(log, kind)
        /\ Dated(log, kind) = {} => DateOf(log, kind) = None
        /\ Dated(log, kind) # {} =>
              /\ DateOf(log, kind) # None
              /\ \E j \in Dated(log, kind) : DateOf(log, kind) = log[j].start
        /\ \A j \in Dated(log, kind) : log[j].start <= DateOf(log, kind)
    <3>1. k \in DOMAIN Facts[m].logs
      OBVIOUS
    <3> QED
      BY <2>1, <3>1, DateFacts
  <2>3. date(k) = DateOf(log, kind)
    BY <2>1, <2>2
  <2> HIDE DEF date
  <2> QED
    BY <2>1, <2>2, <2>3
<1> HIDE DEF date
<1>4. date(n) # None
  BY <1>3
<1>5. ASSUME NEW k \in DOMAIN logs, k <= n, date(k) # None
      PROVE  logs[n][i].start <= date(k)
  <2>1. CASE k = n
    BY <1>3, <2>1
  <2>2. CASE k < n
    <3>1. PICK j \in Dated(logs[k], kind) : date(k) = logs[k][j].start
      BY <1>3, <1>5
    <3>2. j \in DOMAIN logs[k] /\ i \in DOMAIN logs[n]
      BY DEF Dated
    <3>3. logs[n][i].start <= logs[k][j].start
      BY <2>2, <3>2, LogsRotate
    <3> QED
      BY <3>1, <3>3
  <2>3. k \in Nat /\ n \in Nat
    BY <1>1
  <2> QED
    BY <1>5, <2>1, <2>2, <2>3
<1>6. CASE date(0) # None
  <2>1. 0 <= n
    BY <1>1
  <2> QED
    BY <1>1, <1>2, <1>5, <1>6, <2>1
<1>7. CASE date(0) = None
  <2>1. n \in archives /\ archives \in SUBSET Nat /\ archives \subseteq 0..9
    BY <1>1, <1>4, <1>7
  <2>2. PICK least \in archives : \A k \in archives : least <= k
    BY <2>1, Least
  <2>3. \A k, j \in archives : NameBefore(k, j) <=> k < j
    <3>1. \A k \in archives : k \in Int /\ k < 10
      BY <2>1
    <3> QED
      BY <3>1 DEF NameBefore
  <2> HIDE DEF archives
  <2>4. \A k \in archives \ {least} : NameBefore(least, k)
    BY <2>1, <2>2, <2>3
  <2>5. PICK k \in archives :
           /\ k = CHOOSE a \in archives : \A j \in archives \ {a} : NameBefore(a, j)
           /\ \A j \in archives \ {k} : NameBefore(k, j)
    BY <2>4
  <2>6. k <= n /\ k \in DOMAIN logs /\ date(k) # None
    <3>1. k \in DOMAIN logs /\ date(k) # None
      BY DEF archives
    <3>2. k # n => k < n
      BY <2>1, <2>3, <2>5
    <3> QED
      BY <2>1, <3>1, <3>2
  <2>7. FirstDate(Facts[m], kind) = date(k)
    BY <1>2, <1>7, <2>1, <2>5
  <2> QED
    BY <1>5, <2>6, <2>7
<1> QED
  BY <1>6, <1>7

\* The maintenance section that the backend shows names the newest upgrades on record,
\* for any history that apt and logrotate leave, as long as the archives have one
\* digit.
THEOREM NewestUpgradeIsReported == Spec => []NewestUpgradeReported
<1>1. TypeOK => NewestUpgradeReported
  <2> SUFFICES ASSUME TypeOK, shown # None,
                      NEW m, m = shown.upkeep, DOMAIN Facts[m].logs \subseteq 0..9,
                      NEW n \in DOMAIN Facts[m].logs, NEW i \in DOMAIN Facts[m].logs[n]
               PROVE  LET upgrade == Facts[m].logs[n][i]
                      IN  /\ upgrade.start <= Maintenance(Facts[m]).last_apt_upgrade
                          /\ upgrade.full =>
                                upgrade.start <= Maintenance(Facts[m]).last_apt_full_upgrade
    BY DEF NewestUpgradeReported
  <2>1. m \in Machines
    BY DEF TypeOK, Report
  <2>2. i \in Dated(Facts[m].logs[n], "upgrade")
        /\ (Facts[m].logs[n][i].full => i \in Dated(Facts[m].logs[n], "full"))
    BY DEF Dated
  <2>3. /\ Maintenance(Facts[m]).last_apt_upgrade = FirstDate(Facts[m], "upgrade")
        /\ Maintenance(Facts[m]).last_apt_full_upgrade = FirstDate(Facts[m], "full")
    BY DEF Maintenance
  <2> QED
    BY <2>1, <2>2, <2>3, FirstDateFacts DEF Kinds
<1> QED
  BY <1>1, TypeCorrect, PTL

=============================================================================

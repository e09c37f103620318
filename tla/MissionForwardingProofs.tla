----------------------- MODULE MissionForwardingProofs -----------------------
(***************************************************************************)
(* For any number of missions, losses and restarts: the projection is      *)
(* never ahead of the agent's file, no privileged or initial update is     *)
(* ever refused, and no update at all as long as nothing was lost and      *)
(* every state was polled.                                                 *)
(***************************************************************************)
EXTENDS MissionForwarding, TLAPS

\* What is under way never lies beyond the file, nor behind the projection,
\* and a poll produces one update per mission.
BatchInv ==
    \A u \in batch :
        /\ StateIndex[u.state] <= Position(StateOf(file[u.mission]))
        /\ Position(proj[u.mission]) <= StateIndex[u.state]
        /\ \A v \in batch : v.mission = u.mission => v = u

IndInv == TypeOK /\ NeverAhead /\ BatchInv

-----------------------------------------------------------------------------
\* Positions are integers from -1, and Created is the lowest state.
LEMMA PositionFacts ==
    /\ \A s \in MissionStates : StateIndex[s] \in Nat
    /\ \A s \in MissionStates : StateIndex[s] <= 0 => s = "Created"
    /\ \A s \in MissionStates \cup {None} : Position(s) \in Int /\ Position(s) >= -1
    /\ \A s \in MissionStates \cup {None} : s # None => Position(s) = StateIndex[s]
    /\ Position(None) = -1
    /\ \A e \in Entry \cup {None} : StateOf(e) \in MissionStates \cup {None}
    /\ \A e \in Entry : StateOf(e) = e.state
BY ForwardingAssumption DEF MissionStates, StateIndex, Position, StateOf, Entry

\* Applying an update of the batch keeps the projection between what it was
\* and the update, and touches no other mission.
LEMMA AppliedFacts ==
    ASSUME TypeOK, NEW u \in batch
    PROVE  /\ Applied(u) \in [Missions -> MissionStates \cup {None}]
           /\ \A m \in Missions : m # u.mission => Applied(u)[m] = proj[m]
           /\ Applied(u)[u.mission] \in {proj[u.mission], u.state}
           /\ u.mission \in Missions /\ u.state \in MissionStates
BY DEF Applied, TypeOK, Update

\* The inductive invariant survives the delivery of an update: the batch loses
\* at least that update and the projection is the old one or the applied one.
LEMMA DeliveryKeeps ==
    ASSUME IndInv, NEW u \in batch, file' = file,
           batch' \subseteq batch, u \notin batch',
           proj' \in {proj, Applied(u)},
           submitted' \in [Missions -> MissionStates \cup {None}],
           hurried' \in BOOLEAN,
           losses' \in 0..MaxLosses, restarts' \in 0..MaxRestarts
    PROVE  IndInv'
<1>1. TypeOK /\ NeverAhead /\ BatchInv
  BY DEF IndInv
<1>2. /\ proj' \in [Missions -> MissionStates \cup {None}]
      /\ \A m \in Missions : m # u.mission => proj'[m] = proj[m]
      /\ proj'[u.mission] \in {proj[u.mission], u.state}
      /\ u.mission \in Missions /\ u.state \in MissionStates
  BY <1>1, AppliedFacts DEF TypeOK
<1>3. TypeOK'
  BY <1>1, <1>2 DEF TypeOK
<1>4. NeverAhead'
  <2> SUFFICES ASSUME NEW m \in Missions
               PROVE  Position(proj'[m]) <= Position(StateOf(file[m]))
    BY DEF NeverAhead
  <2>1. CASE m # u.mission
    BY <1>1, <1>2, <2>1 DEF NeverAhead
  <2>2. CASE proj'[m] = proj[m]
    BY <1>1, <2>2 DEF NeverAhead
  <2>3. CASE m = u.mission /\ proj'[m] = u.state
    <3>1. Position(u.state) = StateIndex[u.state]
      BY <1>2, PositionFacts, ForwardingAssumption
    <3> QED
      BY <1>1, <2>3, <3>1 DEF BatchInv
  <2> QED
    BY <1>2, <2>1, <2>2, <2>3
<1>5. BatchInv'
  <2>1. \A v \in batch' : v \in batch /\ v.mission # u.mission /\ v.mission \in Missions
    BY <1>1 DEF BatchInv, TypeOK, Update
  <2>2. \A v \in batch' : proj'[v.mission] = proj[v.mission]
    BY <1>2, <2>1
  <2> QED
    BY <1>1, <2>1, <2>2 DEF BatchInv
<1> QED
  BY <1>3, <1>4, <1>5 DEF IndInv

\* The file only moves forward, so what held below it still does.
LEMMA EditKeeps ==
    ASSUME IndInv, NEW m \in Missions, NEW entry \in Entry, Edit(m, entry)
    PROVE  IndInv'
<1>1. /\ TypeOK /\ NeverAhead /\ BatchInv
      /\ file' = [file EXCEPT ![m] = entry]
      /\ submitted' = submitted /\ batch' = batch /\ proj' = proj
      /\ hurried' \in BOOLEAN /\ losses' = losses /\ restarts' = restarts
      /\ Position(entry.state) >= Position(StateOf(file[m]))
  <2>1. hurried \in BOOLEAN
    BY DEF IndInv, TypeOK
  <2>2. Hurries(m, entry) \in BOOLEAN
    BY DEF Hurries
  <2>3. hurried' \in BOOLEAN
    BY <2>1, <2>2, Zenon DEF Edit
  <2> QED
    BY <2>3 DEF IndInv, Edit
<1>2. TypeOK'
  BY <1>1 DEF TypeOK
<1>3. \A n \in Missions : Position(StateOf(file'[n])) >= Position(StateOf(file[n]))
  <2> SUFFICES ASSUME NEW n \in Missions
               PROVE  Position(StateOf(file'[n])) >= Position(StateOf(file[n]))
    OBVIOUS
  <2>1. Position(StateOf(file[n])) \in Int
    BY <1>1, PositionFacts DEF TypeOK
  <2>2. CASE n = m
    <3>1. file'[n] = entry
      BY <1>1, <2>2 DEF TypeOK
    <3>2. StateOf(entry) = entry.state
      BY PositionFacts
    <3> QED
      BY <1>1, <2>1, <2>2, <3>1, <3>2
  <2>3. CASE n # m
    BY <1>1, <2>1, <2>3 DEF TypeOK
  <2> QED
    BY <2>2, <2>3
<1>4. \A n \in Missions : /\ Position(StateOf(file'[n])) \in Int
                          /\ Position(StateOf(file[n])) \in Int
                          /\ Position(proj[n]) \in Int
  BY <1>1, <1>2, PositionFacts DEF TypeOK
<1>5. NeverAhead'
  BY <1>1, <1>3, <1>4 DEF NeverAhead
<1>6. BatchInv'
  <2>1. \A u \in batch : u.mission \in Missions /\ StateIndex[u.state] \in Int
    BY <1>1, PositionFacts DEF TypeOK, Update
  <2> QED
    BY <1>1, <1>3, <1>4, <2>1 DEF BatchInv
<1> QED
  BY <1>2, <1>5, <1>6 DEF IndInv

\* A poll produces updates that carry the file's state, when the last batch is
\* gone.
LEMMA PollKeeps ==
    ASSUME IndInv, Poll
    PROVE  IndInv'
<1>1. /\ TypeOK /\ NeverAhead
      /\ file' = file /\ proj' = proj /\ hurried' = hurried
      /\ losses' = losses /\ restarts' = restarts
      /\ submitted' = [m \in Missions |-> IF Due(m) THEN file[m].state ELSE submitted[m]]
      /\ batch' = {[mission |-> m, state |-> file[m].state, backfill |-> NeedsBackfill(m)] :
                       m \in {n \in Missions : Due(n)}}
  BY DEF IndInv, Poll, Produced, Remembered
<1>2. \A m \in Missions : Due(m) =>
         /\ file[m] \in Entry /\ file[m].state \in MissionStates
         /\ file[m].backfill \in BOOLEAN
         /\ Position(StateOf(file[m])) = StateIndex[file[m].state]
  <2> SUFFICES ASSUME NEW m \in Missions, Due(m)
               PROVE  /\ file[m] \in Entry /\ file[m].state \in MissionStates
                      /\ file[m].backfill \in BOOLEAN
                      /\ Position(StateOf(file[m])) = StateIndex[file[m].state]
    OBVIOUS
  <2>1. file[m] \in Entry
    BY <1>1 DEF TypeOK, Due
  <2>2. file[m].state \in MissionStates /\ file[m].backfill \in BOOLEAN
    BY <2>1 DEF Entry
  <2>3. StateOf(file[m]) = file[m].state
    BY <2>1, PositionFacts
  <2>4. file[m].state # None
    BY <2>2, ForwardingAssumption
  <2>5. Position(file[m].state) = StateIndex[file[m].state]
    BY <2>2, <2>4, PositionFacts
  <2> QED
    BY <2>1, <2>2, <2>3, <2>5
<1>3. \A m \in Missions : Due(m) => NeedsBackfill(m) \in BOOLEAN
  BY <1>2 DEF NeedsBackfill
<1>4. TypeOK'
  <2>1. submitted' \in [Missions -> MissionStates \cup {None}]
    BY <1>1, <1>2 DEF TypeOK
  <2>2. batch' \subseteq Update
    BY <1>1, <1>2, <1>3 DEF Update
  <2> QED
    BY <1>1, <2>1, <2>2 DEF TypeOK
<1>5. NeverAhead'
  BY <1>1 DEF NeverAhead
<1>6. BatchInv'
  <2> SUFFICES ASSUME NEW u \in batch'
               PROVE  /\ StateIndex[u.state] <= Position(StateOf(file[u.mission]))
                      /\ Position(proj[u.mission]) <= StateIndex[u.state]
                      /\ \A v \in batch' : v.mission = u.mission => v = u
    BY <1>1 DEF BatchInv
  <2>1. PICK m \in Missions :
           /\ Due(m)
           /\ u = [mission |-> m, state |-> file[m].state, backfill |-> NeedsBackfill(m)]
    BY <1>1
  <2>2. \A v \in batch' : v.mission = m => v = u
    BY <1>1, <2>1
  <2>3. Position(StateOf(file[m])) = StateIndex[u.state] /\ StateIndex[u.state] \in Int
    BY <1>2, <2>1, PositionFacts
  <2>4. Position(proj[m]) <= StateIndex[u.state]
    BY <1>1, <2>3 DEF NeverAhead
  <2> QED
    BY <2>1, <2>2, <2>3, <2>4
<1> QED
  BY <1>4, <1>5, <1>6 DEF IndInv

\* A restart forgets what was submitted; at most one update under way lands.
LEMMA RestartKeeps ==
    ASSUME IndInv, Restart
    PROVE  IndInv'
<1>1. /\ TypeOK /\ file' = file /\ losses' = losses /\ batch' = {}
      /\ submitted' \in [Missions -> MissionStates \cup {None}]
      /\ restarts' \in 0..MaxRestarts /\ losses' \in 0..MaxLosses
      /\ hurried' = hurried /\ hurried' \in BOOLEAN
  BY ForwardingAssumption DEF IndInv, Restart, TypeOK
<1>2. CASE proj' = proj
  BY <1>1, <1>2 DEF IndInv, TypeOK, NeverAhead, BatchInv
<1>3. CASE \E u \in batch : proj' = Applied(u)
  BY <1>1, <1>3, DeliveryKeeps
<1> QED
  BY <1>2, <1>3 DEF Restart

-----------------------------------------------------------------------------
\* Every step keeps the inductive invariant.
LEMMA IndInvStep == IndInv /\ [Next]_vars => IndInv'
<1> SUFFICES ASSUME IndInv, [Next]_vars PROVE IndInv'
  OBVIOUS
<1>1. CASE UNCHANGED vars
  BY <1>1 DEF vars, IndInv, TypeOK, NeverAhead, BatchInv
<1>2. ASSUME NEW u \in batch, Deliver(u) \/ GiveUp(u) PROVE IndInv'
  <2>1. /\ file' = file /\ batch' = batch \ {u} /\ proj' \in {proj, Applied(u)}
        /\ submitted' = submitted /\ restarts' = restarts /\ hurried' = hurried
        /\ losses' = losses \/ (losses < MaxLosses /\ losses' = losses + 1)
    BY <1>2 DEF Deliver, GiveUp
  <2>2. losses' \in 0..MaxLosses /\ restarts' \in 0..MaxRestarts
    BY <2>1, ForwardingAssumption DEF IndInv, TypeOK
  <2>3. submitted' \in [Missions -> MissionStates \cup {None}] /\ hurried' \in BOOLEAN
    BY <2>1 DEF IndInv, TypeOK
  <2> QED
    BY <2>1, <2>2, <2>3, DeliveryKeeps
<1>3. ASSUME NEW m \in Missions, NEW entry \in Entry, Edit(m, entry) PROVE IndInv'
  BY <1>3, EditKeeps
<1>4. CASE Poll
  BY <1>4, PollKeeps
<1>5. CASE Restart
  BY <1>5, RestartKeeps
<1> QED
  BY <1>1, <1>2, <1>3, <1>4, <1>5 DEF Next

\* The initial states satisfy the inductive invariant.
LEMMA IndInvInit == Init => IndInv
<1> SUFFICES ASSUME Init PROVE IndInv
  OBVIOUS
<1>1. TypeOK
  <2>1. hurried \in BOOLEAN
    BY DEF Init
  <2>2. /\ file \in [Missions -> Entry \cup {None}]
        /\ submitted \in [Missions -> MissionStates \cup {None}]
        /\ batch \subseteq Update
        /\ proj \in [Missions -> MissionStates \cup {None}]
    BY DEF Init
  <2>3. losses \in 0..MaxLosses /\ restarts \in 0..MaxRestarts
    BY ForwardingAssumption DEF Init
  <2> QED
    BY <2>1, <2>2, <2>3 DEF TypeOK
<1>2. NeverAhead
  BY PositionFacts DEF Init, NeverAhead, StateOf
<1>3. BatchInv
  BY DEF Init, BatchInv
<1> QED
  BY <1>1, <1>2, <1>3 DEF IndInv

\* The inductive invariant holds throughout.
LEMMA IndInvAlways == Spec => []IndInv
BY IndInvInit, IndInvStep, PTL DEF Spec

\* Type correctness of the collector's memory, the batch and the projection.
THEOREM TypeCorrect == Spec => []TypeOK
BY IndInvAlways, PTL DEF IndInv

\* The projection never shows a state the agent has not reached, whatever is
\* lost, applied unnoticed, or resent after a restart.
THEOREM ProjectionNeverAhead == Spec => []NeverAhead
BY IndInvAlways, PTL DEF IndInv

\* An update is legal when it is where the projection is, or one state on; and
\* when it is further and privileged.
LEMMA LegalSteps ==
    ASSUME TypeOK, NEW u \in Update, Position(proj[u.mission]) <= StateIndex[u.state],
           \/ u.backfill
           \/ u.state = "Created"
           \/ /\ proj[u.mission] # None
              /\ StateIndex[u.state] \in
                     {StateIndex[proj[u.mission]], StateIndex[proj[u.mission]] + 1}
    PROVE  Accepted(u)
<1>1. /\ u.mission \in Missions /\ u.state \in MissionStates
      /\ proj[u.mission] \in MissionStates \cup {None}
  BY DEF TypeOK, Update
<1>2. CASE proj[u.mission] = None
  BY <1>1, <1>2 DEF Accepted, IsValidTransition
<1>3. CASE proj[u.mission] # None
  <2>1. /\ StateIndex[proj[u.mission]] <= StateIndex[u.state]
        /\ StateIndex[proj[u.mission]] \in Nat /\ StateIndex[u.state] \in Nat
    BY <1>1, <1>3, PositionFacts
  <2>2. u.state = "Created" => proj[u.mission] = "Created"
    BY <1>1, <1>3, <2>1, PositionFacts DEF StateIndex
  <2>3. \/ u.backfill /\ StateIndex[u.state] - StateIndex[proj[u.mission]] >= 0
        \/ StateIndex[u.state] - StateIndex[proj[u.mission]] \in {0, 1}
    BY <1>3, <2>1, <2>2
  <2>4. /\ StateIndex[u.state] - StateIndex[proj[u.mission]] >= 0
        /\ StateIndex[u.state] - StateIndex[proj[u.mission]] \in Int
    BY <2>1
  <2> QED
    BY <1>1, <1>3, <2>3, <2>4 DEF Accepted, IsValidTransition
<1> QED
  BY <1>2, <1>3

\* Re-synchronisation is always legal: no update that is privileged, or that
\* enters at Created, is refused by the backend.
THEOREM ResyncNeverRefused == Spec => []ResyncAccepted
<1>1. IndInv => ResyncAccepted
  <2> SUFFICES ASSUME IndInv, NEW u \in batch, u.backfill \/ u.state = "Created"
               PROVE  Accepted(u)
    BY DEF ResyncAccepted
  <2>1. TypeOK /\ u \in Update /\ Position(proj[u.mission]) <= StateIndex[u.state]
    BY DEF IndInv, TypeOK, BatchInv
  <2> QED
    BY <2>1, LegalSteps
<1> QED
  BY <1>1, IndInvAlways, PTL
-----------------------------------------------------------------------------
\* As long as nothing was lost and every state polled: what is under way is what
\* is remembered, and legal; what is remembered and not under way is projected;
\* and the file is at most one state ahead of it.
InStep(m) ==
    submitted[m] # None =>
        /\ file[m] # None
        /\ file[m].state # submitted[m] =>
               StateIndex[file[m].state] = StateIndex[submitted[m]] + 1
        /\ (\A u \in batch : u.mission # m) => proj[m] = submitted[m]

FollowInv ==
    ~hurried /\ losses = 0 =>
        /\ \A m \in Missions : InStep(m)
        /\ \A u \in batch : Accepted(u) /\ submitted[u.mission] = u.state

\* A change of the file that does not hurry leaves every mission in step.
LEMMA EditFollows ==
    ASSUME IndInv, FollowInv, NEW m \in Missions, NEW entry \in Entry, Edit(m, entry)
    PROVE  FollowInv'
<1>1. /\ UNCHANGED <<submitted, batch, proj, losses>>
      /\ file' = [file EXCEPT ![m] = entry] /\ TypeOK
      /\ Position(entry.state) >= Position(StateOf(file[m]))
  BY DEF Edit, IndInv
<1> SUFFICES ASSUME ~hurried', losses = 0
             PROVE  /\ \A n \in Missions : InStep(n)'
                    /\ \A u \in batch : Accepted(u) /\ submitted[u.mission] = u.state
  BY <1>1 DEF FollowInv, Accepted
<1>2. ~hurried /\ ~Hurries(m, entry)
  BY DEF Edit
<1>3. /\ \A n \in Missions : InStep(n)
      /\ \A u \in batch : Accepted(u) /\ submitted[u.mission] = u.state
  BY <1>2 DEF FollowInv
<1>4. /\ file'[m] = entry /\ entry # None /\ entry.state \in MissionStates
      /\ \A n \in Missions : n # m => file'[n] = file[n]
  BY <1>1, ForwardingAssumption DEF TypeOK, Entry
<1>5. InStep(m)'
  <2> SUFFICES ASSUME submitted[m] # None
               PROVE  /\ entry.state # submitted[m] =>
                             StateIndex[entry.state] = StateIndex[submitted[m]] + 1
                      /\ (\A u \in batch : u.mission # m) => proj[m] = submitted[m]
    BY <1>1, <1>4 DEF InStep
  <2>1. /\ file[m] # None /\ submitted[m] = file[m].state
        /\ ~ (StateIndex[entry.state] > StateIndex[file[m].state] + 1)
    BY <1>2, <1>3 DEF InStep, Hurries
  <2>2. file[m] \in Entry /\ file[m].state \in MissionStates
    BY <1>1, <2>1 DEF TypeOK, Entry
  <2>3. /\ StateIndex[entry.state] \in Nat /\ StateIndex[file[m].state] \in Nat
        /\ StateIndex[entry.state] >= StateIndex[file[m].state]
    <3>1. /\ Position(entry.state) = StateIndex[entry.state]
          /\ Position(StateOf(file[m])) = StateIndex[file[m].state]
      BY <1>4, <2>2, PositionFacts, ForwardingAssumption
    <3> QED
      BY <1>1, <1>4, <2>2, <3>1, PositionFacts
  <2>4. StateIndex[entry.state] = StateIndex[file[m].state] => entry.state = file[m].state
    BY <1>4, <2>2 DEF StateIndex, MissionStates
  <2> QED
    BY <1>3, <2>1, <2>3, <2>4 DEF InStep
<1>6. \A n \in Missions : n # m => InStep(n)'
  BY <1>1, <1>3, <1>4 DEF InStep
<1> QED
  BY <1>3, <1>5, <1>6

\* A poll produces legal updates.
LEMMA PollFollows ==
    ASSUME IndInv, FollowInv, Poll
    PROVE  FollowInv'
<1>1. /\ TypeOK /\ NeverAhead /\ batch = {} /\ UNCHANGED <<file, proj, hurried, losses>>
      /\ submitted' = [m \in Missions |-> IF Due(m) THEN file[m].state ELSE submitted[m]]
      /\ batch' = {[mission |-> m, state |-> file[m].state, backfill |-> NeedsBackfill(m)] :
                       m \in {n \in Missions : Due(n)}}
  BY DEF IndInv, Poll, Produced, Remembered
<1>2. TypeOK' /\ BatchInv'
  BY PollKeeps DEF IndInv
<1> SUFFICES ASSUME ~hurried, losses = 0
             PROVE  /\ \A m \in Missions : InStep(m)'
                    /\ \A u \in batch' : Accepted(u)' /\ submitted'[u.mission] = u.state
  BY <1>1 DEF FollowInv
<1>3. \A m \in Missions : InStep(m)
  BY DEF FollowInv
<1>4. ASSUME NEW m \in Missions
      PROVE  InStep(m)'
  <2>1. CASE Due(m)
    <3>1. [mission |-> m, state |-> file[m].state, backfill |-> NeedsBackfill(m)] \in batch'
      BY <1>1, <2>1
    <3>2. \E u \in batch' : u.mission = m
      BY <3>1
    <3> QED
      BY <1>1, <2>1, <3>2 DEF Due, InStep
  <2>2. CASE ~Due(m)
    BY <1>1, <1>3, <2>2 DEF InStep
  <2> QED
    BY <2>1, <2>2
<1>5. ASSUME NEW u \in batch'
      PROVE  Accepted(u)' /\ submitted'[u.mission] = u.state
  <2>1. PICK m \in Missions :
           /\ Due(m)
           /\ u = [mission |-> m, state |-> file[m].state, backfill |-> NeedsBackfill(m)]
    BY <1>1
  <2>2. /\ u \in Update /\ u.mission = m /\ u.state = file[m].state
        /\ u.backfill = NeedsBackfill(m)
    BY <1>2, <2>1 DEF TypeOK
  <2>3. Position(proj[m]) <= StateIndex[u.state]
    BY <1>1, <1>2, <2>2 DEF BatchInv
  <2>4. CASE submitted[m] = None
    <3>1. u.backfill \/ u.state = "Created"
      BY <2>2, <2>4, Zenon DEF NeedsBackfill
    <3>2. Accepted(u)
      BY <1>1, <2>2, <2>3, <3>1, LegalSteps
    <3> QED
      BY <1>1, <2>1, <2>2, <3>2 DEF Accepted
  <2>5. CASE submitted[m] # None
    <3>1. proj[m] = submitted[m] /\ StateIndex[u.state] = StateIndex[submitted[m]] + 1
      BY <1>1, <1>3, <2>1, <2>2, <2>5 DEF InStep, Due
    <3>2. Accepted(u)
      BY <1>1, <2>2, <2>3, <2>5, <3>1, LegalSteps
    <3> QED
      BY <1>1, <2>1, <2>2, <3>2 DEF Accepted
  <2> QED
    BY <2>4, <2>5
<1> QED
  BY <1>4, <1>5

\* A delivered update is projected; the others are of other missions.
LEMMA DeliverFollows ==
    ASSUME IndInv, FollowInv, NEW u \in batch, Deliver(u)
    PROVE  FollowInv'
<1>1. /\ TypeOK /\ BatchInv /\ UNCHANGED <<file, submitted, hurried, losses>>
      /\ batch' = batch \ {u} /\ proj' = Applied(u)
  BY DEF IndInv, Deliver
<1> SUFFICES ASSUME ~hurried, losses = 0
             PROVE  /\ \A m \in Missions : InStep(m)'
                    /\ \A v \in batch' : Accepted(v)' /\ submitted[v.mission] = v.state
  BY <1>1 DEF FollowInv
<1>2. /\ \A m \in Missions : InStep(m)
      /\ \A v \in batch : Accepted(v) /\ submitted[v.mission] = v.state
  BY DEF FollowInv
<1>3. /\ u.mission \in Missions /\ proj'[u.mission] = u.state
      /\ \A m \in Missions : m # u.mission => proj'[m] = proj[m]
  BY <1>1, <1>2 DEF Applied, TypeOK, Update
<1>4. \A v \in batch' : v \in batch /\ v.mission # u.mission /\ v.mission \in Missions
  BY <1>1 DEF BatchInv, TypeOK, Update
<1>5. ASSUME NEW m \in Missions PROVE InStep(m)'
  <2>1. CASE m = u.mission
    BY <1>1, <1>2, <1>3, <2>1 DEF InStep
  <2>2. CASE m # u.mission
    BY <1>1, <1>2, <1>3, <2>2 DEF InStep
  <2> QED
    BY <2>1, <2>2
<1>6. \A v \in batch' : Accepted(v)' /\ submitted[v.mission] = v.state
  BY <1>2, <1>3, <1>4 DEF Accepted
<1> QED
  BY <1>5, <1>6

\* Every step keeps the missions in step.
LEMMA FollowStep == IndInv /\ FollowInv /\ [Next]_vars => FollowInv'
<1> SUFFICES ASSUME IndInv, FollowInv, [Next]_vars PROVE FollowInv'
  OBVIOUS
<1>1. CASE UNCHANGED vars
  BY <1>1 DEF vars, FollowInv, InStep, Accepted
<1>2. ASSUME NEW u \in batch, Deliver(u) PROVE FollowInv'
  BY <1>2, DeliverFollows
<1>3. ASSUME NEW u \in batch, GiveUp(u) PROVE FollowInv'
  <2>1. losses' = losses + 1 /\ losses \in Nat
    BY <1>3, ForwardingAssumption DEF GiveUp, IndInv, TypeOK
  <2>2. losses' # 0
    BY <2>1
  <2> QED
    BY <2>2 DEF FollowInv
<1>4. ASSUME NEW m \in Missions, NEW entry \in Entry, Edit(m, entry) PROVE FollowInv'
  BY <1>4, EditFollows
<1>5. CASE Poll
  BY <1>5, PollFollows
<1>6. CASE Restart
  <2>1. batch' = {} /\ \A m \in Missions : submitted'[m] = None
    BY <1>6 DEF Restart
  <2> QED
    BY <2>1 DEF FollowInv, InStep
<1> QED
  BY <1>1, <1>2, <1>3, <1>4, <1>5, <1>6 DEF Next

\* The dedup and the backfill rule produce no refusals, for any number of missions
\* and restarts, as long as nothing was lost and every state was polled.
THEOREM FollowingNeverRefused == Spec => []EveryUpdateLegal
<1>1. Init => FollowInv
  BY DEF Init, FollowInv, InStep
<1>2. FollowInv => EveryUpdateLegal
  BY DEF FollowInv, EveryUpdateLegal
<1> QED
  BY <1>1, <1>2, IndInvAlways, FollowStep, PTL DEF Spec
=============================================================================

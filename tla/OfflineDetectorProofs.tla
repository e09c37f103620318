------------------------ MODULE OfflineDetectorProofs ------------------------
(***************************************************************************)
(* For any fleet, timeout, number of failures and restarts: an asset is    *)
(* reported online only if it did heartbeat, and offline only if it did    *)
(* not, when no old heartbeat overtakes a newer one; and without storage   *)
(* failures the transitions each backend process records form a chain.     *)
(***************************************************************************)
EXTENDS OfflineDetector, TLAPS

-----------------------------------------------------------------------------
\* What Append adds to a sequence, and what it keeps.
LEMMA AppendFacts ==
    ASSUME NEW S, NEW s \in Seq(S), NEW e \in S
    PROVE  /\ Append(s, e) \in Seq(S)
           /\ Append(s, e) # <<>>
           /\ Len(s) \in Nat
           /\ Len(Append(s, e)) = Len(s) + 1
           /\ \A i \in 1..Len(s) : Append(s, e)[i] = s[i]
           /\ Append(s, e)[Len(s) + 1] = e
OBVIOUS

\* Positions of the registry hold assets.
LEMMA FleetFacts ==
    /\ Len(Fleet) \in Nat
    /\ \A i \in 1..Len(Fleet) : Fleet[i] \in Assets
BY DetectorAssumption DEF Assets

\* The judgment is a connectivity, and "unknown" exactly without a heartbeat.
LEMMA JudgeFacts ==
    ASSUME NEW a \in Assets, NEW t
    PROVE  /\ Judge(a, t) \in Connectivity
           /\ Judge(a, t) = "unknown" <=> beats[a] = <<>>
BY DEF Judge, Connectivity

\* A heartbeat stored for a known asset keeps the table of heartbeats typed and
\* only ever adds to it.
LEMMA ReceivedFacts ==
    ASSUME TypeOK, NEW b \in Assets, NEW t \in Time
    PROVE  /\ Received(b, t) \in [Assets -> Seq(Heartbeat)]
           /\ \A a \in Assets :
                 /\ Len(beats[a]) \in Nat
                 /\ Len(Received(b, t)[a]) \in Nat
                 /\ Len(beats[a]) <= Len(Received(b, t)[a])
                 /\ \A i \in 1..Len(beats[a]) : Received(b, t)[a][i] = beats[a][i]
                 /\ beats[a] # <<>> => Received(b, t)[a] # <<>>
<1> DEFINE h == [timestamp |-> t, received_at |-> now]
<1>1. h \in Heartbeat /\ beats \in [Assets -> Seq(Heartbeat)]
  BY DEF TypeOK, Heartbeat
<1>2. Received(b, t) = [beats EXCEPT ![b] = Append(beats[b], h)]
  BY DEF Received
<1> HIDE DEF h
<1>3. Append(beats[b], h) \in Seq(Heartbeat)
  BY <1>1
<1>4. Received(b, t) \in [Assets -> Seq(Heartbeat)]
  BY <1>1, <1>2, <1>3
<1>5. ASSUME NEW a \in Assets
      PROVE  /\ Len(beats[a]) \in Nat
             /\ Len(Received(b, t)[a]) \in Nat
             /\ Len(beats[a]) <= Len(Received(b, t)[a])
             /\ \A i \in 1..Len(beats[a]) : Received(b, t)[a][i] = beats[a][i]
             /\ beats[a] # <<>> => Received(b, t)[a] # <<>>
  <2>1. beats[a] \in Seq(Heartbeat) /\ Len(beats[a]) \in Nat
    BY <1>1
  <2>2. CASE a = b
    <3>1. Received(b, t)[a] = Append(beats[a], h)
      BY <1>1, <1>2, <2>2
    <3> QED
      BY <1>1, <2>1, <3>1, AppendFacts
  <2>3. CASE a # b
    <3>1. Received(b, t)[a] = beats[a]
      BY <1>1, <1>2, <2>3
    <3> QED
      BY <2>1, <3>1
  <2> QED
    BY <2>2, <2>3
<1> QED
  BY <1>4, <1>5

\* What the emission under way adds to the stream.
LEMMA RecordedFacts ==
    ASSUME TypeOK, pc = "emit"
    PROVE  LET b == Fleet[pos]
           IN  /\ b \in Assets
               /\ Emission(b) \in Transition
               /\ Recorded(b) \in [Assets -> Seq(Transition)]
               /\ \A a \in Assets : a # b => Recorded(b)[a] = transitions[a]
               /\ Recorded(b)[b] = Append(transitions[b], Emission(b))
<1> DEFINE b == Fleet[pos]
<1>1. b \in Assets /\ known[b] \in {"online", "offline"} /\ previous \in Connectivity
  BY FleetFacts DEF TypeOK
<1>2. Emission(b) \in Transition
  BY <1>1 DEF TypeOK, Emission, Transition
<1>3. transitions \in [Assets -> Seq(Transition)]
  BY DEF TypeOK
<1> HIDE DEF b
<1>4. Append(transitions[b], Emission(b)) \in Seq(Transition)
  BY <1>1, <1>2, <1>3
<1>5. Recorded(b) = [transitions EXCEPT ![b] = Append(transitions[b], Emission(b))]
  BY DEF Recorded
<1> QED
  BY <1>1, <1>2, <1>3, <1>4, <1>5 DEF b

-----------------------------------------------------------------------------
LEMMA InitTypeOK == Init => TypeOK
<1> SUFFICES ASSUME Init PROVE TypeOK
  OBVIOUS
<1>1. <<>> \in Seq(Heartbeat) /\ <<>> \in Seq(Transition)
  OBVIOUS
<1> QED
  BY <1>1, DetectorAssumption, FleetFacts DEF Init, TypeOK, Time, Connectivity

LEMMA NextTypeOK == TypeOK /\ [Next]_vars => TypeOK'
<1> SUFFICES ASSUME TypeOK, [Next]_vars PROVE TypeOK'
  OBVIOUS
<1> USE DetectorAssumption
<1>1. CASE Tick
  BY <1>1 DEF Tick, TypeOK, sweep, Time
<1>2. ASSUME NEW a \in Assets, Beat(a) PROVE TypeOK'
  BY <1>2 DEF Beat, TypeOK, sweep
<1>3. ASSUME NEW h \in flight, Receive(h) PROVE TypeOK'
  <2>1. h.asset \in Assets /\ h.timestamp \in Time
    BY DEF TypeOK
  <2>2. beats' \in [Assets -> Seq(Heartbeat)]
    BY <1>3, <2>1, ReceivedFacts DEF Receive
  <2> QED
    BY <1>3, <2>2 DEF Receive, TypeOK, sweep
<1>4. ASSUME NEW h \in flight, LoseBeat(h) PROVE TypeOK'
  BY <1>4 DEF LoseBeat, TypeOK, sweep
<1>5. CASE SelfBeat
  <2>1. beats' \in [Assets -> Seq(Heartbeat)]
    BY <1>5, ReceivedFacts DEF SelfBeat, TypeOK
  <2> QED
    BY <1>5, <2>1 DEF SelfBeat, TypeOK, sweep
<1>6. CASE StartSweep
  BY <1>6, FleetFacts DEF StartSweep, TypeOK
<1>7. CASE JudgeNext
  <2> DEFINE a == Fleet[pos]
             state == Judge(a, at)
  <2>1. a \in Assets /\ state \in Connectivity
    BY <1>7, FleetFacts, JudgeFacts DEF JudgeNext, TypeOK
  <2>2. known' = [known EXCEPT ![a] = state]
    BY <1>7 DEF JudgeNext
  <2>3. known' \in [Assets -> Connectivity \cup {None}] /\ known'[a] = state
    BY <2>1, <2>2 DEF TypeOK
  <2> HIDE DEF state
  <2>4. CASE Changed(a, state)
    <3>1. pc' = "emit" /\ previous' = known[a] /\ pos' = pos
      BY <1>7, <2>4 DEF JudgeNext, state
    <3>2. state \in {"online", "offline"} /\ known[a] # None /\ known[a] # state
      BY <2>1, <2>4 DEF Changed, Connectivity
    <3>3. /\ pos' <= Len(Fleet) /\ previous' # None
          /\ known'[Fleet[pos']] \in {"online", "offline"} \ {previous'}
      BY <1>7, <2>3, <3>1, <3>2 DEF JudgeNext
    <3> QED
      BY <1>7, <2>1, <2>3, <3>1, <3>2, <3>3 DEF JudgeNext, TypeOK
  <2>5. CASE ~ Changed(a, state)
    <3>1. pc' = "judge" /\ pos' = pos + 1 /\ previous' = previous
      BY <1>7, <2>5 DEF JudgeNext, state
    <3> QED
      BY <1>7, <2>3, <3>1, FleetFacts DEF JudgeNext, TypeOK
  <2> QED
    BY <2>4, <2>5
<1>8. CASE Emit
  <2>1. transitions' \in [Assets -> Seq(Transition)]
    BY <1>8, RecordedFacts DEF Emit, TypeOK
  <2>2. pos' \in 1..(Len(Fleet) + 1)
    BY <1>8, FleetFacts DEF Emit, TypeOK
  <2>3. /\ pc' = "judge" /\ previous' = None
        /\ UNCHANGED <<now, sent, flight, beats, at, known, failures, restarts>>
    BY <1>8 DEF Emit
  <2> QED
    BY <2>1, <2>2, <2>3 DEF TypeOK
<1>9. CASE SweepFails
  <2>1. transitions' \in [Assets -> Seq(Transition)]
    BY <1>9, RecordedFacts DEF SweepFails, TypeOK
  <2>2. failures' \in 0..MaxFailures
    BY <1>9 DEF SweepFails, TypeOK
  <2>3. /\ pc' = "idle" /\ at' = 0 /\ pos' = 1 /\ previous' = None
        /\ UNCHANGED <<now, sent, flight, beats, known, restarts>>
    BY <1>9 DEF SweepFails, SweepOver
  <2> QED
    BY <2>1, <2>2, <2>3, FleetFacts DEF TypeOK, Time
<1>10. CASE EndSweep
  BY <1>10, FleetFacts DEF EndSweep, SweepOver, TypeOK, Time
<1>11. CASE RestartBackend
  <2>1. transitions' \in [Assets -> Seq(Transition)]
    BY <1>11, RecordedFacts DEF RestartBackend, TypeOK
  <2> QED
    BY <1>11, <2>1, FleetFacts DEF RestartBackend, SweepOver, TypeOK, Time
<1>12. CASE UNCHANGED vars
  BY <1>12 DEF vars, sweep, TypeOK
<1> QED
  BY <1>1, <1>2, <1>3, <1>4, <1>5, <1>6, <1>7, <1>8, <1>9, <1>10, <1>11, <1>12
  DEF Next, Sweep

\* Type correctness of the heartbeats, the stream and the sweep: in particular
\* an emission is always of a change, for any fleet and any bounds.
THEOREM TypeCorrect == Spec => []TypeOK
<1> QED
  BY InitTypeOK, NextTypeOK, PTL DEF Spec
-----------------------------------------------------------------------------
\* A heartbeat of asset a young enough to be online at time t.
Witnessed(a, t) == \E j \in 1..Len(beats[a]) : t - beats[a][j].timestamp <= Timeout

\* The witness of an "online" is there before its emission begins.
OnlineInv ==
    /\ \A a \in Assets : \A i \in 1..Len(transitions[a]) :
          transitions[a][i].current = "online" =>
              Witnessed(a, transitions[a][i].timestamp)
    /\ pc = "emit" /\ known[Fleet[pos]] = "online" => Witnessed(Fleet[pos], at)

\* A judgment of "online" has a witness: the heartbeat that was looked at.
LEMMA JudgedOnline ==
    ASSUME TypeOK, NEW a \in Assets, NEW t \in Time, Judge(a, t) = "online"
    PROVE  Witnessed(a, t)
<1>1. beats[a] \in Seq(Heartbeat) /\ beats[a] # <<>>
  BY DEF TypeOK, Judge
<1>2. Len(beats[a]) \in 1..Len(beats[a]) /\ beats[a][Len(beats[a])] \in Heartbeat
  BY <1>1
<1>3. ~ (t - beats[a][Len(beats[a])].timestamp > Timeout)
  BY <1>1 DEF Judge
<1>4. beats[a][Len(beats[a])].timestamp \in Int /\ t \in Int /\ Timeout \in Int
  BY <1>2, DetectorAssumption DEF Heartbeat, Time
<1>5. t - beats[a][Len(beats[a])].timestamp <= Timeout
  BY <1>3, <1>4
<1> QED
  BY <1>2, <1>5 DEF Witnessed

\* Heartbeats are only added, so a witness stays one.
LEMMA WitnessKept ==
    ASSUME TypeOK, NEW b \in Assets, NEW h \in Time, beats' = Received(b, h),
           NEW a \in Assets, NEW t, Witnessed(a, t)
    PROVE  \E j \in 1..Len(beats'[a]) : t - beats'[a][j].timestamp <= Timeout
<1>1. PICK j \in 1..Len(beats[a]) : t - beats[a][j].timestamp <= Timeout
  BY DEF Witnessed
<1>2. j \in 1..Len(beats'[a]) /\ beats'[a][j] = beats[a][j]
  BY ReceivedFacts
<1> QED
  BY <1>1, <1>2

\* A stored heartbeat preserves the invariant.
LEMMA StoreKeepsOnline ==
    ASSUME TypeOK, OnlineInv, NEW b \in Assets, NEW h \in Time,
           beats' = Received(b, h), UNCHANGED <<transitions, pc, at, pos, known>>
    PROVE  OnlineInv'
<1>1. ASSUME NEW a \in Assets, NEW i \in 1..Len(transitions[a]),
             transitions[a][i].current = "online"
      PROVE  Witnessed(a, transitions[a][i].timestamp)'
  <2>1. Witnessed(a, transitions[a][i].timestamp)
    BY <1>1 DEF OnlineInv
  <2> QED
    BY <2>1, WitnessKept DEF Witnessed
<1>2. ASSUME pc = "emit", known[Fleet[pos]] = "online"
      PROVE  Witnessed(Fleet[pos], at)'
  <2>1. Fleet[pos] \in Assets
    BY <1>2, FleetFacts DEF TypeOK
  <2>2. Witnessed(Fleet[pos], at)
    BY <1>2 DEF OnlineInv
  <2> QED
    BY <2>1, <2>2, WitnessKept DEF Witnessed
<1> QED
  BY <1>1, <1>2 DEF OnlineInv

\* The end of an emission, recorded or not, preserves the invariant.
LEMMA EmissionKeepsOnline ==
    ASSUME TypeOK, OnlineInv, UNCHANGED beats, (pc # "emit")',
           UNCHANGED transitions \/ (pc = "emit" /\ transitions' = Recorded(Fleet[pos]))
    PROVE  OnlineInv'
<1>1. CASE UNCHANGED transitions
  BY <1>1 DEF OnlineInv, Witnessed
<1>2. CASE pc = "emit" /\ transitions' = Recorded(Fleet[pos])
  <2> DEFINE b == Fleet[pos]
             e == Emission(b)
  <2>1. /\ b \in Assets /\ e \in Transition
        /\ transitions'[b] = Append(transitions[b], e)
        /\ \A a \in Assets : a # b => transitions'[a] = transitions[a]
    BY <1>2, RecordedFacts
  <2>2. e.current = "online" => Witnessed(b, e.timestamp)
    BY <1>2 DEF OnlineInv, Emission
  <2>3. transitions[b] \in Seq(Transition)
    BY <2>1 DEF TypeOK
  <2> HIDE DEF e, b
  <2>4. ASSUME NEW a \in Assets, NEW i \in 1..Len(transitions'[a]),
               transitions'[a][i].current = "online"
        PROVE  Witnessed(a, transitions'[a][i].timestamp)
    <3>1. CASE a = b /\ i = Len(transitions[b]) + 1
      <4>1. transitions'[a][i] = e
        BY <2>1, <2>3, <3>1, AppendFacts
      <4> QED
        BY <2>2, <2>4, <3>1, <4>1
    <3>2. CASE ~ (a = b /\ i = Len(transitions[b]) + 1)
      <4>1. i \in 1..Len(transitions[a]) /\ transitions'[a][i] = transitions[a][i]
        BY <2>1, <2>3, <3>2, AppendFacts
      <4> QED
        BY <2>4, <4>1 DEF OnlineInv
    <3> QED
      BY <3>1, <3>2
  <2> QED
    BY <2>4 DEF OnlineInv, Witnessed
<1> QED
  BY <1>1, <1>2

LEMMA NextOnlineInv == TypeOK /\ OnlineInv /\ [Next]_vars => OnlineInv'
<1> SUFFICES ASSUME TypeOK, OnlineInv, [Next]_vars PROVE OnlineInv'
  OBVIOUS
<1>1. CASE UNCHANGED <<transitions, beats, pc, at, pos, known>>
  BY <1>1 DEF OnlineInv, Witnessed
<1>2. ASSUME NEW h \in flight, Receive(h) PROVE OnlineInv'
  <2>1. h.asset \in Assets /\ h.timestamp \in Time
    BY DEF TypeOK
  <2> QED
    BY <1>2, <2>1, StoreKeepsOnline DEF Receive, sweep
<1>3. CASE SelfBeat
  <2>1. now \in Time
    BY DEF TypeOK
  <2> QED
    BY <1>3, <2>1, StoreKeepsOnline DEF SelfBeat, sweep
<1>4. CASE StartSweep
  BY <1>4 DEF StartSweep, OnlineInv, Witnessed
<1>5. CASE JudgeNext
  <2> DEFINE a == Fleet[pos]
             state == Judge(a, at)
  <2>1. a \in Assets /\ at \in Time
    BY <1>5, FleetFacts DEF JudgeNext, TypeOK
  <2>2. known' = [known EXCEPT ![a] = state] /\ UNCHANGED <<transitions, beats, at>>
    BY <1>5 DEF JudgeNext
  <2>3. known'[a] = state
    BY <2>1, <2>2 DEF TypeOK
  <2>4. (pc' = "emit" /\ known'[Fleet[pos']] = "online") => Witnessed(a, at) /\ pos' = pos
    <3>1. pc' = "emit" => pos' = pos
      BY <1>5 DEF JudgeNext
    <3> QED
      BY <2>1, <2>3, <3>1, JudgedOnline
  <2> QED
    BY <2>2, <2>4 DEF OnlineInv, Witnessed
<1>6. CASE Emit
  BY <1>6, EmissionKeepsOnline DEF Emit
<1>7. CASE SweepFails
  BY <1>7, EmissionKeepsOnline DEF SweepFails, SweepOver
<1>8. CASE EndSweep
  BY <1>8, EmissionKeepsOnline DEF EndSweep, SweepOver
<1>9. CASE RestartBackend
  BY <1>9, EmissionKeepsOnline DEF RestartBackend, SweepOver
<1> QED
  BY <1>1, <1>2, <1>3, <1>4, <1>5, <1>6, <1>7, <1>8, <1>9
  DEF Next, Sweep, Tick, Beat, LoseBeat, vars, sweep

\* Liveness is never faked, for any fleet, timeout, losses, replays, failures
\* and restarts: behind each asset_online there is a heartbeat of that asset
\* made within offline_timeout of the sweep.
THEOREM OnlineIsWitnessed == Spec => []OnlineMeansBeating
<1>1. Init => OnlineInv
  BY DEF Init, OnlineInv
<1>2. OnlineInv => OnlineMeansBeating
  BY DEF OnlineInv, OnlineMeansBeating, Witnessed
<1> QED
  BY <1>1, <1>2, TypeCorrect, NextOnlineInv, PTL DEF Spec
-----------------------------------------------------------------------------
\* The state an asset had been in before the news under way, if any.
Reported(a) == IF pc = "emit" /\ Fleet[pos] = a THEN previous ELSE known[a]

\* Without storage failures the last transition this process recorded for an
\* asset ends in the state the next one starts from; a known asset has beaten.
ChainInv ==
    /\ TransitionsChain
    /\ \A a \in Assets : known[a] \in {"online", "offline"} => beats[a] # <<>>
    /\ \A a \in Assets : \A i \in 1..Len(transitions[a]) :
          transitions[a][i].process <= restarts
    /\ \A a \in Assets :
          LET last == transitions[a][Len(transitions[a])]
          IN  transitions[a] # <<>> /\ last.process = restarts
                  => last.current = Reported(a)

\* The end of transitions[a] is one of its elements.
LEMMA LastTransition ==
    ASSUME TypeOK, NEW a \in Assets, transitions[a] # <<>>
    PROVE  /\ Len(transitions[a]) \in 1..Len(transitions[a])
           /\ transitions[a][Len(transitions[a])] \in Transition
BY DEF TypeOK

\* Heartbeats and the sweep's other steps leave the chain as it is.
LEMMA QuietKeepsChain ==
    ASSUME TypeOK, ChainInv, UNCHANGED <<transitions, known, restarts>>,
           \A a \in Assets : Reported(a)' = Reported(a),
           \A a \in Assets : beats[a] # <<>> => beats'[a] # <<>>
    PROVE  ChainInv'
BY DEF ChainInv, TransitionsChain

\* Recording the emission under way extends the chain by a link.
LEMMA EmissionLinks ==
    ASSUME TypeOK, ChainInv, pc = "emit", transitions' = Recorded(Fleet[pos])
    PROVE  /\ TransitionsChain'
           /\ \A a \in Assets : \A i \in 1..Len(transitions'[a]) :
                 transitions'[a][i].process <= restarts
<1> DEFINE b == Fleet[pos]
           e == Emission(b)
           n == Len(transitions[b])
<1>1. /\ b \in Assets /\ e \in Transition
      /\ transitions'[b] = Append(transitions[b], e)
      /\ \A a \in Assets : a # b => transitions'[a] = transitions[a]
  BY RecordedFacts
<1>2. e.previous = previous /\ e.current = known[b] /\ e.process = restarts
  BY DEF Emission
<1>3. e.previous # e.current /\ restarts \in Int
  BY <1>2 DEF TypeOK
<1>4. transitions[b] \in Seq(Transition) /\ n \in Nat
  BY <1>1 DEF TypeOK
<1>5. ASSUME transitions[b] # <<>>, transitions[b][n].process = restarts
      PROVE  transitions[b][n].current = e.previous
  BY <1>1, <1>2, <1>5 DEF ChainInv, Reported
<1> HIDE DEF e, b
<1>7. /\ Len(transitions'[b]) = n + 1
      /\ \A k \in 1..n : transitions'[b][k] = transitions[b][k]
      /\ transitions'[b][n + 1] = e
  BY <1>1, <1>4, AppendFacts
<1> HIDE DEF n
<1>6. ASSUME NEW a \in Assets, NEW i \in 1..Len(transitions'[a])
      PROVE  /\ transitions'[a][i].process <= restarts
             /\ transitions'[a][i].previous # transitions'[a][i].current
             /\ i > 1 /\ transitions'[a][i - 1].process = transitions'[a][i].process
                    => transitions'[a][i].previous = transitions'[a][i - 1].current
  <2>1. CASE a = b /\ i = n + 1
    <3>1. transitions'[a][i] = e
      BY <1>7, <2>1
    <3>2. ASSUME i > 1, transitions'[a][i - 1].process = e.process
          PROVE  e.previous = transitions'[a][i - 1].current
      <4>1. i - 1 = n /\ n \in 1..n /\ transitions'[a][i - 1] = transitions[b][n]
        BY <1>4, <1>7, <2>1, <3>2
      <4>2. transitions[b] # <<>>
        BY <1>4, <4>1 DEF n
      <4> QED
        BY <1>2, <1>5, <3>2, <4>1, <4>2
    <3> QED
      BY <1>2, <1>3, <3>1, <3>2
  <2>2. CASE ~ (a = b /\ i = n + 1)
    <3>1. /\ i \in 1..Len(transitions[a]) /\ transitions'[a][i] = transitions[a][i]
          /\ i > 1 => transitions'[a][i - 1] = transitions[a][i - 1]
      <4>1. CASE a # b
        BY <1>1, <4>1
      <4>2. CASE a = b
        <5>1. i \in 1..n
          <6>1. i # n + 1
            BY <2>2, <4>2
          <6>2. i \in 1..(n + 1)
            BY <1>7, <4>2
          <6> QED
            BY <1>4, <6>1, <6>2
        <5>2. i > 1 => i - 1 \in 1..n
          BY <1>4, <5>1
        <5> QED
          BY <1>7, <4>2, <5>1, <5>2 DEF n
      <4> QED
        BY <4>1, <4>2
    <3> QED
      BY <3>1 DEF ChainInv, TransitionsChain
  <2> QED
    BY <2>1, <2>2
<1> QED
  BY <1>6 DEF TransitionsChain

LEMMA NextChainInv ==
    ASSUME MaxFailures = 0
    PROVE  TypeOK /\ ChainInv /\ [Next]_vars => ChainInv'
<1> SUFFICES ASSUME TypeOK, ChainInv, [Next]_vars PROVE ChainInv'
  OBVIOUS
<1>1. CASE UNCHANGED <<transitions, beats, pc, pos, known, previous, restarts>>
  BY <1>1, QuietKeepsChain DEF Reported
<1>2. ASSUME NEW h \in flight, Receive(h) PROVE ChainInv'
  <2>1. h.asset \in Assets /\ h.timestamp \in Time
    BY DEF TypeOK
  <2>2. \A a \in Assets : beats[a] # <<>> => beats'[a] # <<>>
    BY <1>2, <2>1, ReceivedFacts DEF Receive
  <2> QED
    BY <1>2, <2>2, QuietKeepsChain DEF Receive, sweep, Reported
<1>3. CASE SelfBeat
  <2>1. now \in Time
    BY DEF TypeOK
  <2>2. \A a \in Assets : beats[a] # <<>> => beats'[a] # <<>>
    BY <1>3, <2>1, ReceivedFacts DEF SelfBeat
  <2> QED
    BY <1>3, <2>2, QuietKeepsChain DEF SelfBeat, sweep, Reported
<1>4. CASE StartSweep
  BY <1>4, QuietKeepsChain DEF StartSweep, Reported
<1>5. CASE JudgeNext
  <2> DEFINE a == Fleet[pos]
             state == Judge(a, at)
  <2>1. a \in Assets /\ state \in Connectivity /\ (state = "unknown" <=> beats[a] = <<>>)
    BY <1>5, FleetFacts, JudgeFacts DEF JudgeNext, TypeOK
  <2>2. /\ pc = "judge" /\ known' = [known EXCEPT ![a] = state]
        /\ UNCHANGED <<transitions, beats, restarts>>
    BY <1>5 DEF JudgeNext
  <2>3. known'[a] = state /\ \A b \in Assets : b # a => known'[b] = known[b]
    BY <2>1, <2>2 DEF TypeOK
  <2>4. \/ Changed(a, state) /\ pc' = "emit" /\ pos' = pos /\ previous' = known[a]
        \/ ~ Changed(a, state) /\ pc' = "judge"
    BY <1>5 DEF JudgeNext
  <2> HIDE DEF state
  <2>5. \A b \in Assets : known'[b] \in {"online", "offline"} => beats'[b] # <<>>
    BY <2>1, <2>2, <2>3 DEF ChainInv
  <2>6. ASSUME NEW b \in Assets, transitions[b] # <<>>,
               transitions[b][Len(transitions[b])].process = restarts
        PROVE  transitions[b][Len(transitions[b])].current = Reported(b)'
    <3>1. transitions[b][Len(transitions[b])].current = known[b]
      BY <2>2, <2>6 DEF ChainInv, Reported
    <3>2. known[b] \in {"online", "offline"} /\ beats[b] # <<>>
      BY <2>6, <3>1, LastTransition DEF Transition, ChainInv
    <3>3. CASE b # a
      BY <2>3, <2>4, <3>1, <3>3 DEF Reported
    <3>4. CASE b = a /\ Changed(a, state)
      BY <2>4, <3>1, <3>4 DEF Reported
    <3>5. CASE b = a /\ ~ Changed(a, state)
      <4>1. known[a] # None /\ state # "unknown"
        BY <2>1, <3>2, <3>5, DetectorAssumption DEF Connectivity
      <4> QED
        BY <2>3, <2>4, <3>1, <3>5, <4>1 DEF Changed, Reported
    <3> QED
      BY <3>3, <3>4, <3>5
  <2> QED
    BY <2>2, <2>5, <2>6 DEF ChainInv, TransitionsChain
<1>6. CASE Emit
  <2> DEFINE b == Fleet[pos]
             e == Emission(b)
  <2>1. pc = "emit" /\ transitions' = Recorded(b) /\ pc' = "judge"
        /\ UNCHANGED <<beats, known, restarts>>
    BY <1>6 DEF Emit
  <2>2. /\ b \in Assets /\ e \in Transition
        /\ transitions'[b] = Append(transitions[b], e)
        /\ \A a \in Assets : a # b => transitions'[a] = transitions[a]
    BY <2>1, RecordedFacts
  <2>3. e.current = known[b]
    BY DEF Emission
  <2>4. transitions[b] \in Seq(Transition)
    BY <2>2 DEF TypeOK
  <2>5. transitions'[b][Len(transitions'[b])] = e
    <3> HIDE DEF e, b
    <3> QED
      BY <2>2, <2>4, AppendFacts
  <2> HIDE DEF e
  <2>6. ASSUME NEW a \in Assets, transitions'[a] # <<>>,
               transitions'[a][Len(transitions'[a])].process = restarts
        PROVE  transitions'[a][Len(transitions'[a])].current = Reported(a)'
    <3>1. Reported(a)' = known[a]
      BY <2>1 DEF Reported
    <3>2. CASE a = b
      BY <2>3, <2>5, <3>1, <3>2
    <3>3. CASE a # b
      BY <2>1, <2>2, <2>6, <3>1, <3>3 DEF ChainInv, Reported
    <3> QED
      BY <3>2, <3>3
  <2> QED
    BY <2>1, <2>6, EmissionLinks DEF ChainInv
<1>7. CASE SweepFails
  BY <1>7 DEF SweepFails, TypeOK
<1>8. CASE EndSweep
  BY <1>8, QuietKeepsChain DEF EndSweep, SweepOver, Reported
<1>9. CASE RestartBackend
  <2>1. /\ restarts' = restarts + 1 /\ restarts \in Int
        /\ known' = [a \in Assets |-> None] /\ UNCHANGED beats
    BY <1>9 DEF RestartBackend, TypeOK
  <2>2. /\ TransitionsChain'
        /\ \A a \in Assets : \A i \in 1..Len(transitions'[a]) :
              transitions'[a][i].process <= restarts
    BY <1>9, EmissionLinks DEF RestartBackend, ChainInv, TransitionsChain
  <2>3. transitions' \in [Assets -> Seq(Transition)]
    BY NextTypeOK DEF TypeOK
  <2>4. \A a \in Assets : \A i \in 1..Len(transitions'[a]) :
           transitions'[a][i].process \in Int
    <3> SUFFICES ASSUME NEW a \in Assets, NEW i \in 1..Len(transitions'[a])
                 PROVE  transitions'[a][i].process \in Int
      OBVIOUS
    <3>1. transitions'[a] \in Seq(Transition)
      BY <2>3
    <3>2. transitions'[a][i] \in Transition
      BY <3>1
    <3> QED
      BY <3>2, DetectorAssumption DEF Transition
  <2>5. \A a \in Assets : \A i \in 1..Len(transitions'[a]) :
           transitions'[a][i].process < restarts'
    BY <2>1, <2>2, <2>4
  <2>6. \A a \in Assets : transitions'[a] # <<>> =>
           Len(transitions'[a]) \in 1..Len(transitions'[a])
    BY <2>3
  <2>7. \A a \in Assets : transitions'[a] # <<>> =>
           transitions'[a][Len(transitions'[a])].process # restarts'
    BY <2>1, <2>4, <2>5, <2>6
  <2>8. \A a \in Assets : known'[a] \notin {"online", "offline"}
    BY <2>1, DetectorAssumption DEF Connectivity
  <2> QED
    BY <2>1, <2>2, <2>4, <2>5, <2>7, <2>8 DEF ChainInv
<1> QED
  BY <1>1, <1>2, <1>3, <1>4, <1>5, <1>6, <1>7, <1>8, <1>9
  DEF Next, Sweep, Tick, Beat, LoseBeat, vars, sweep

\* Without storage failures the transitions of an asset that one backend process
\* records form a chain, for any fleet, timeout and number of restarts: no
\* outage and no recovery is reported twice, and none is left out in between.
THEOREM ChainHolds ==
    ASSUME MaxFailures = 0
    PROVE  Spec => []TransitionsChain
<1>1. Init => ChainInv
  BY DetectorAssumption DEF Init, ChainInv, TransitionsChain, Connectivity
<1>2. ChainInv => TransitionsChain
  BY DEF ChainInv
<1> QED
  BY <1>1, <1>2, TypeCorrect, NextChainInv, PTL DEF Spec
-----------------------------------------------------------------------------
\* No heartbeat of asset a received before t is young enough to be online at t.
Silent(a, t) ==
    \A j \in 1..Len(beats[a]) :
        beats[a][j].received_at < t => t - beats[a][j].timestamp > Timeout

\* Heartbeats arrive in the order they were made in.
OrderInv ==
    /\ \A h \in flight : h.asset # Self /\ h.timestamp = sent[h.asset]
    /\ \A a \in Assets : \A j \in 1..Len(beats[a]) :
          /\ beats[a][j].timestamp <= sent[a]
          /\ \A i \in 1..j : beats[a][i].timestamp <= beats[a][j].timestamp

\* No sweep is in the future, and an "offline" is known to be one before its
\* emission begins.
SilentInv ==
    /\ at <= now
    /\ \A a \in Assets : \A i \in 1..Len(transitions[a]) :
          /\ transitions[a][i].timestamp <= now
          /\ transitions[a][i].current = "offline" =>
                Silent(a, transitions[a][i].timestamp)
    /\ pc = "emit" /\ known[Fleet[pos]] = "offline" => Silent(Fleet[pos], at)

\* What a stored heartbeat adds, and what it keeps.
LEMMA StoredFacts ==
    ASSUME TypeOK, NEW b \in Assets, NEW t \in Time
    PROVE  \A a \in Assets :
              /\ Len(beats[a]) \in Nat
              /\ \A i \in 1..Len(beats[a]) : beats[a][i] \in Heartbeat
              /\ \A i \in 1..Len(Received(b, t)[a]) :
                    \/ i \in 1..Len(beats[a]) /\ Received(b, t)[a][i] = beats[a][i]
                    \/ /\ a = b /\ i = Len(beats[a]) + 1
                       /\ Received(b, t)[a][i].timestamp = t
                       /\ Received(b, t)[a][i].received_at = now
<1> DEFINE h == [timestamp |-> t, received_at |-> now]
<1>1. h \in Heartbeat /\ beats \in [Assets -> Seq(Heartbeat)]
  BY DEF TypeOK, Heartbeat
<1>2. h.timestamp = t /\ h.received_at = now
  OBVIOUS
<1>3. Received(b, t) = [beats EXCEPT ![b] = Append(beats[b], h)]
  BY DEF Received
<1> HIDE DEF h
<1> SUFFICES ASSUME NEW a \in Assets
             PROVE  /\ Len(beats[a]) \in Nat
                    /\ \A i \in 1..Len(beats[a]) : beats[a][i] \in Heartbeat
                    /\ \A i \in 1..Len(Received(b, t)[a]) :
                          \/ i \in 1..Len(beats[a]) /\ Received(b, t)[a][i] = beats[a][i]
                          \/ /\ a = b /\ i = Len(beats[a]) + 1
                             /\ Received(b, t)[a][i].timestamp = t
                             /\ Received(b, t)[a][i].received_at = now
  OBVIOUS
<1>4. beats[a] \in Seq(Heartbeat)
  BY <1>1
<1>5. Len(beats[a]) \in Nat /\ \A i \in 1..Len(beats[a]) : beats[a][i] \in Heartbeat
  BY <1>4
<1>6. CASE a = b
  <2>1. Received(b, t)[a] = Append(beats[a], h)
    BY <1>1, <1>3, <1>6
  <2> QED
    BY <1>1, <1>2, <1>4, <1>5, <1>6, <2>1, AppendFacts
<1>7. CASE a # b
  <2>1. Received(b, t)[a] = beats[a]
    BY <1>1, <1>3, <1>7
  <2> QED
    BY <1>5, <2>1
<1> QED
  BY <1>6, <1>7

\* Stored heartbeats have timestamps.
LEMMA Stamps ==
    ASSUME TypeOK, NEW a \in Assets
    PROVE  /\ Len(beats[a]) \in Nat
           /\ \A j \in 1..Len(beats[a]) : beats[a][j].timestamp \in Int
<1>1. beats[a] \in Seq(Heartbeat)
  BY DEF TypeOK
<1>2. Len(beats[a]) \in Nat /\ \A j \in 1..Len(beats[a]) : beats[a][j] \in Heartbeat
  BY <1>1
<1> QED
  BY <1>2, DetectorAssumption DEF Heartbeat, Time

\* Storing the newest heartbeat an asset has made keeps the order.
LEMMA StoreKeepsOrder ==
    ASSUME TypeOK, OrderInv, NEW b \in Assets, NEW t \in Time, beats' = Received(b, t),
           sent' \in [Assets -> Time \cup {-1}],
           \A a \in Assets : sent[a] <= sent'[a], t = sent'[b]
    PROVE  \A a \in Assets : \A j \in 1..Len(beats'[a]) :
              /\ beats'[a][j].timestamp <= sent'[a]
              /\ \A i \in 1..j : beats'[a][i].timestamp <= beats'[a][j].timestamp
<1> SUFFICES ASSUME NEW a \in Assets, NEW j \in 1..Len(beats'[a]), NEW i \in 1..j
             PROVE  /\ beats'[a][j].timestamp <= sent'[a]
                    /\ beats'[a][i].timestamp <= beats'[a][j].timestamp
  BY ReceivedFacts
<1>1. /\ Len(beats[a]) \in Nat /\ Len(beats'[a]) \in Nat
      /\ \A k \in 1..Len(beats[a]) : beats[a][k].timestamp \in Int
      /\ sent[a] \in Int /\ sent'[a] \in Int /\ t \in Int /\ sent[a] <= sent'[a]
  <2>1. sent[a] \in Int /\ sent'[a] \in Int /\ t \in Int /\ sent[a] <= sent'[a]
    BY DetectorAssumption DEF TypeOK, Time
  <2> QED
    BY <2>1, Stamps, ReceivedFacts
<1>2. i \in 1..Len(beats'[a])
  BY <1>1
<1>3. \A k \in 1..Len(beats'[a]) :
         \/ k \in 1..Len(beats[a]) /\ beats'[a][k] = beats[a][k]
         \/ a = b /\ k = Len(beats[a]) + 1 /\ beats'[a][k].timestamp = t
  BY StoredFacts
<1>4. \A k \in 1..Len(beats[a]) :
         /\ beats[a][k].timestamp <= sent[a]
         /\ \A l \in 1..k : beats[a][l].timestamp <= beats[a][k].timestamp
  BY DEF OrderInv
<1>5. \A k \in 1..Len(beats'[a]) :
         beats'[a][k].timestamp \in Int /\ beats'[a][k].timestamp <= sent'[a]
  BY <1>1, <1>3, <1>4
<1>6. CASE j \in 1..Len(beats[a]) /\ beats'[a][j] = beats[a][j]
  <2>1. i \in 1..Len(beats[a]) /\ i # Len(beats[a]) + 1
    BY <1>1, <1>6
  <2>2. beats'[a][i] = beats[a][i]
    BY <1>2, <1>3, <2>1
  <2> QED
    BY <1>2, <1>4, <1>5, <1>6, <2>2
<1>7. CASE a = b /\ beats'[a][j].timestamp = t
  BY <1>2, <1>5, <1>7
<1> QED
  BY <1>3, <1>6, <1>7

\* Without replays, every step keeps the heartbeats in order.
LEMMA NextOrderInv ==
    ASSUME ~ Replays
    PROVE  TypeOK /\ OrderInv /\ [Next]_vars => OrderInv'
<1> SUFFICES ASSUME TypeOK, OrderInv, [Next]_vars PROVE OrderInv'
  OBVIOUS
<1>1. CASE UNCHANGED <<sent, flight, beats>>
  BY <1>1 DEF OrderInv
<1>2. ASSUME NEW a \in Assets, Beat(a) PROVE OrderInv'
  <2>1. /\ a # Self /\ sent[a] < now /\ \A h \in flight : h.asset # a
        /\ sent' = [sent EXCEPT ![a] = now] /\ UNCHANGED beats
        /\ flight' = flight \cup {[asset |-> a, timestamp |-> now]}
    BY <1>2 DEF Beat
  <2>2. /\ sent'[a] = now
        /\ \A b \in Assets : b # a => sent'[b] = sent[b]
        /\ now \in Int /\ \A b \in Assets : sent[b] \in Int
    BY <2>1, DetectorAssumption DEF TypeOK, Time
  <2>3. \A h \in flight' : h.asset # Self /\ h.timestamp = sent'[h.asset]
    BY <2>1, <2>2 DEF OrderInv, TypeOK
  <2>4. \A b \in Assets : sent[b] <= sent'[b] /\ sent'[b] \in Int
    BY <2>1, <2>2
  <2>5. \A b \in Assets : \A j \in 1..Len(beats[b]) : beats[b][j].timestamp \in Int
    BY Stamps
  <2> QED
    BY <2>1, <2>2, <2>3, <2>4, <2>5 DEF OrderInv
<1>3. ASSUME NEW h \in flight, Receive(h) PROVE OrderInv'
  <2>1. /\ h.asset \in Assets /\ h.timestamp \in Time /\ h.timestamp = sent[h.asset]
        /\ sent \in [Assets -> Time \cup {-1}] /\ \A a \in Assets : sent[a] \in Int
    BY DetectorAssumption DEF TypeOK, OrderInv, Time
  <2>2. /\ flight' = flight \ {h} /\ sent' = sent
        /\ beats' = Received(h.asset, h.timestamp)
    BY <1>3 DEF Receive
  <2>3. \A a \in Assets : sent[a] <= sent'[a]
    BY <2>1, <2>2
  <2> QED
    BY <2>1, <2>2, <2>3, StoreKeepsOrder DEF OrderInv
<1>4. CASE SelfBeat
  <2>1. /\ Self \in Assets /\ sent[Self] < now /\ now \in Time
        /\ sent' = [sent EXCEPT ![Self] = now] /\ flight' = flight
        /\ beats' = Received(Self, now)
    BY <1>4 DEF SelfBeat, TypeOK
  <2>2. /\ sent' \in [Assets -> Time \cup {-1}] /\ sent'[Self] = now
        /\ \A a \in Assets : a # Self => sent'[a] = sent[a]
        /\ now \in Int /\ \A a \in Assets : sent[a] \in Int
    BY <2>1, DetectorAssumption DEF TypeOK, Time
  <2>3. \A a \in Assets : sent[a] <= sent'[a]
    BY <2>1, <2>2
  <2>4. \A h \in flight : h.asset \in Assets
    BY DEF TypeOK
  <2> QED
    BY <2>1, <2>2, <2>3, <2>4, StoreKeepsOrder DEF OrderInv
<1>5. ASSUME NEW h \in flight, LoseBeat(h) PROVE OrderInv'
  BY <1>5 DEF LoseBeat, OrderInv
<1> QED
  BY <1>1, <1>2, <1>3, <1>4, <1>5
  DEF Next, Sweep, Tick, StartSweep, JudgeNext, Emit, EndSweep, SweepFails,
      RestartBackend, vars

\* A judgment of "offline" looked at the newest heartbeat, so there is no
\* younger one.
LEMMA JudgedOffline ==
    ASSUME TypeOK, OrderInv, NEW a \in Assets, NEW t \in Time, Judge(a, t) = "offline"
    PROVE  Silent(a, t)
<1>1. beats[a] \in Seq(Heartbeat) /\ beats[a] # <<>>
  BY DEF TypeOK, Judge
<1>2. /\ Len(beats[a]) \in 1..Len(beats[a]) /\ Len(beats[a]) \in Nat
      /\ \A j \in 1..Len(beats[a]) : beats[a][j] \in Heartbeat
  BY <1>1
<1>3. t - beats[a][Len(beats[a])].timestamp > Timeout
  BY <1>1 DEF Judge
<1>4. /\ t \in Int /\ Timeout \in Int
      /\ \A j \in 1..Len(beats[a]) : beats[a][j].timestamp \in Int
  BY <1>2, DetectorAssumption DEF Heartbeat, Time
<1>5. \A j \in 1..Len(beats[a]) :
         beats[a][j].timestamp <= beats[a][Len(beats[a])].timestamp
  BY <1>2 DEF OrderInv
<1> QED
  BY <1>2, <1>3, <1>4, <1>5 DEF Silent

\* A heartbeat stored now does not break a silence before.
LEMMA SilenceKept ==
    ASSUME TypeOK, NEW b \in Assets, NEW h \in Time, beats' = Received(b, h),
           NEW a \in Assets, NEW t \in Int, t <= now, Silent(a, t)
    PROVE  Silent(a, t)'
<1>1. now \in Int
  BY DetectorAssumption DEF TypeOK, Time
<1> SUFFICES ASSUME NEW j \in 1..Len(beats'[a]), beats'[a][j].received_at < t
             PROVE  t - beats'[a][j].timestamp > Timeout
  BY DEF Silent
<1>2. j \in 1..Len(beats[a]) /\ beats'[a][j] = beats[a][j]
  BY <1>1, StoredFacts
<1> QED
  BY <1>2 DEF Silent

\* A stored heartbeat preserves the invariant.
LEMMA StoreKeepsSilent ==
    ASSUME TypeOK, SilentInv, NEW b \in Assets, NEW h \in Time, beats' = Received(b, h),
           UNCHANGED <<now, transitions, pc, at, pos, known>>
    PROVE  SilentInv'
<1>1. ASSUME NEW a \in Assets, NEW i \in 1..Len(transitions[a])
      PROVE  /\ transitions[a][i].timestamp <= now
             /\ transitions[a][i].current = "offline" =>
                   Silent(a, transitions[a][i].timestamp)'
  <2>1. transitions[a] \in Seq(Transition)
    BY DEF TypeOK
  <2>2. transitions[a][i] \in Transition
    BY <2>1
  <2>3. transitions[a][i].timestamp \in Int
    BY <2>2, DetectorAssumption DEF Transition, Time
  <2> QED
    BY <2>3, SilenceKept DEF SilentInv
<1>2. ASSUME pc = "emit", known[Fleet[pos]] = "offline"
      PROVE  Silent(Fleet[pos], at)'
  <2>1. Fleet[pos] \in Assets /\ at \in Int
    BY <1>2, FleetFacts, DetectorAssumption DEF TypeOK, Time
  <2> QED
    BY <1>2, <2>1, SilenceKept DEF SilentInv
<1> QED
  BY <1>1, <1>2 DEF SilentInv, Silent

\* The end of an emission, recorded or not, preserves the invariant.
LEMMA EmissionKeepsSilent ==
    ASSUME TypeOK, SilentInv, UNCHANGED <<now, beats>>, (pc # "emit")', (at <= now)',
           UNCHANGED transitions \/ (pc = "emit" /\ transitions' = Recorded(Fleet[pos]))
    PROVE  SilentInv'
<1>1. CASE UNCHANGED transitions
  BY <1>1 DEF SilentInv, Silent
<1>2. CASE pc = "emit" /\ transitions' = Recorded(Fleet[pos])
  <2> DEFINE b == Fleet[pos]
             e == Emission(b)
  <2>1. /\ b \in Assets /\ e \in Transition
        /\ transitions'[b] = Append(transitions[b], e)
        /\ \A a \in Assets : a # b => transitions'[a] = transitions[a]
    BY <1>2, RecordedFacts
  <2>2. e.timestamp <= now /\ (e.current = "offline" => Silent(b, e.timestamp))
    BY <1>2 DEF SilentInv, Emission
  <2>3. transitions[b] \in Seq(Transition)
    BY <2>1 DEF TypeOK
  <2> HIDE DEF e, b
  <2>4. ASSUME NEW a \in Assets, NEW i \in 1..Len(transitions'[a])
        PROVE  /\ transitions'[a][i].timestamp <= now
               /\ transitions'[a][i].current = "offline" =>
                     Silent(a, transitions'[a][i].timestamp)
    <3>1. CASE a = b /\ i = Len(transitions[b]) + 1
      <4>1. transitions'[a][i] = e
        BY <2>1, <2>3, <3>1, AppendFacts
      <4> QED
        BY <2>2, <3>1, <4>1
    <3>2. CASE ~ (a = b /\ i = Len(transitions[b]) + 1)
      <4>1. i \in 1..Len(transitions[a]) /\ transitions'[a][i] = transitions[a][i]
        BY <2>1, <2>3, <3>2, AppendFacts
      <4> QED
        BY <4>1 DEF SilentInv
    <3> QED
      BY <3>1, <3>2
  <2> QED
    BY <2>4 DEF SilentInv, Silent
<1> QED
  BY <1>1, <1>2

LEMMA NextSilentInv == TypeOK /\ OrderInv /\ SilentInv /\ [Next]_vars => SilentInv'
<1> SUFFICES ASSUME TypeOK, OrderInv, SilentInv, [Next]_vars PROVE SilentInv'
  OBVIOUS
<1>1. CASE UNCHANGED <<now, transitions, beats, pc, at, pos, known>>
  BY <1>1 DEF SilentInv, Silent
<1>2. CASE Tick
  <2>1. /\ now' = now + 1 /\ now \in Int /\ at \in Int
        /\ UNCHANGED <<transitions, beats, pc, at, pos, known>>
    BY <1>2, DetectorAssumption DEF Tick, sweep, TypeOK, Time
  <2>2. \A a \in Assets : \A i \in 1..Len(transitions[a]) :
           transitions[a][i].timestamp \in Int
    <3> SUFFICES ASSUME NEW a \in Assets, NEW i \in 1..Len(transitions[a])
                 PROVE  transitions[a][i].timestamp \in Int
      OBVIOUS
    <3>1. transitions[a] \in Seq(Transition)
      BY DEF TypeOK
    <3>2. transitions[a][i] \in Transition
      BY <3>1
    <3> QED
      BY <3>2, DetectorAssumption DEF Transition, Time
  <2>3. /\ at <= now'
        /\ \A a \in Assets : \A i \in 1..Len(transitions[a]) :
              transitions[a][i].timestamp <= now'
    BY <2>1, <2>2 DEF SilentInv
  <2> QED
    BY <2>1, <2>3 DEF SilentInv, Silent
<1>3. ASSUME NEW h \in flight, Receive(h) PROVE SilentInv'
  <2>1. h.asset \in Assets /\ h.timestamp \in Time
    BY DEF TypeOK
  <2> QED
    BY <1>3, <2>1, StoreKeepsSilent DEF Receive, sweep
<1>4. CASE SelfBeat
  <2>1. now \in Time
    BY DEF TypeOK
  <2> QED
    BY <1>4, <2>1, StoreKeepsSilent DEF SelfBeat, sweep
<1>5. CASE StartSweep
  <2>1. now \in Int
    BY DetectorAssumption DEF TypeOK, Time
  <2> QED
    BY <1>5, <2>1 DEF StartSweep, SilentInv, Silent
<1>6. CASE JudgeNext
  <2> DEFINE a == Fleet[pos]
             state == Judge(a, at)
  <2>1. a \in Assets /\ at \in Time
    BY <1>6, FleetFacts DEF JudgeNext, TypeOK
  <2>2. known' = [known EXCEPT ![a] = state] /\ UNCHANGED <<now, transitions, beats, at>>
    BY <1>6 DEF JudgeNext
  <2>3. known'[a] = state
    BY <2>1, <2>2 DEF TypeOK
  <2>4. (pc' = "emit" /\ known'[Fleet[pos']] = "offline") => Silent(a, at) /\ pos' = pos
    <3>1. pc' = "emit" => pos' = pos
      BY <1>6 DEF JudgeNext
    <3> QED
      BY <2>1, <2>3, <3>1, JudgedOffline
  <2> QED
    BY <2>2, <2>4 DEF SilentInv, Silent
<1>7. CASE Emit
  BY <1>7, EmissionKeepsSilent DEF Emit, SilentInv
<1>8. CASE SweepFails \/ EndSweep \/ RestartBackend
  <2>1. at' = 0 /\ now' = now /\ 0 <= now
    BY <1>8, DetectorAssumption DEF SweepFails, EndSweep, RestartBackend, SweepOver, TypeOK, Time
  <2> QED
    BY <1>8, <2>1, EmissionKeepsSilent DEF SweepFails, EndSweep, RestartBackend, SweepOver
<1> QED
  BY <1>1, <1>2, <1>3, <1>4, <1>5, <1>6, <1>7, <1>8
  DEF Next, Sweep, Beat, LoseBeat, vars, sweep

\* Without replays an asset_offline is never false, for any fleet, timeout,
\* losses, failures and restarts: no heartbeat of that asset received before the
\* sweep is young enough to be online.
THEOREM OfflineIsSilent ==
    ASSUME ~ Replays
    PROVE  Spec => []OfflineMeansSilent
<1>1. Init => OrderInv /\ SilentInv
  BY DEF Init, OrderInv, SilentInv
<1>2. TypeOK /\ SilentInv => OfflineMeansSilent
  <2> SUFFICES ASSUME TypeOK, SilentInv,
                      NEW a \in Assets, NEW i \in 1..Len(transitions[a]),
                      transitions[a][i].current = "offline",
                      NEW j \in 1..Len(beats[a]),
                      beats[a][j].received_at < transitions[a][i].timestamp,
                      transitions[a][i].timestamp - beats[a][j].timestamp <= Timeout
               PROVE  FALSE
    BY DEF OfflineMeansSilent
  <2>1. transitions[a] \in Seq(Transition) /\ beats[a] \in Seq(Heartbeat)
    BY DEF TypeOK
  <2>2. transitions[a][i] \in Transition /\ beats[a][j] \in Heartbeat
    BY <2>1
  <2>3. /\ transitions[a][i].timestamp \in Int /\ beats[a][j].timestamp \in Int
        /\ Timeout \in Int
    BY <2>2, DetectorAssumption DEF Transition, Heartbeat, Time
  <2>4. transitions[a][i].timestamp - beats[a][j].timestamp > Timeout
    BY DEF SilentInv, Silent
  <2> QED
    BY <2>3, <2>4
<1> QED
  BY <1>1, <1>2, TypeCorrect, NextOrderInv, NextSilentInv, PTL DEF Spec
=============================================================================

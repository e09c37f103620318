---------------------------- MODULE StartupProofs ----------------------------
(***************************************************************************)
(* For any migration files, releases, seed entries and number of faults,   *)
(* deployments and edits: the ledger is honest, a backend that is ready is *)
(* complete, hosts are registered before the assets that name them, and an *)
(* operator's change outlives every start that looks after it.             *)
(***************************************************************************)
EXTENDS Startup, TLAPS

-----------------------------------------------------------------------------
\* The bounds are numbers.
LEMMA BoundFacts == MaxFaults \in Nat /\ MaxDeploys \in Nat /\ MaxEdits \in Nat
BY StartupAssumption

\* Every file has a statement, and the statements are numbered from 1.
LEMMA CountFacts ==
    /\ Len(Statements) \in Nat /\ Files \subseteq Nat /\ 0 \in Files
    /\ \A k \in Files : Count(k) \in Nat /\ Count(k) > 0
    /\ \A k \in Files : \A i \in 1..Count(k) : <<k, i>> \in AllStatements
    /\ Releases \subseteq 1..Len(Statements) /\ 1..Len(Statements) \subseteq Files
<1>1. Len(Statements) \in Nat /\ Files \subseteq Nat /\ 0 \in Files
  BY StartupAssumption DEF Files
<1>2. ASSUME NEW k \in Files
      PROVE  Count(k) \in Nat /\ Count(k) > 0
  BY <1>2, StartupAssumption DEF Files, Count
<1>3. \A k \in Files : \A i \in 1..Count(k) : <<k, i>> \in AllStatements
  BY DEF AllStatements, StatementsOf
<1>4. Releases \subseteq 1..Len(Statements) /\ 1..Len(Statements) \subseteq Files
  BY <1>1, StartupAssumption DEF Files
<1> QED
  BY <1>1, <1>2, <1>3, <1>4

\* Seed entries are assets, and there is one.
LEMMA SeedFacts ==
    /\ Len(Seeds) \in Nat \ {0} /\ DOMAIN Seeds = 1..Len(Seeds)
    /\ \A i \in DOMAIN Seeds : Seeds[i] \in Assets
    /\ \A a \in Assets : \E i \in DOMAIN Seeds : a = Seeds[i]
    /\ None \notin Assets /\ HostOf \in [Assets -> Assets \cup {None}]
<1>1. Len(Seeds) \in Nat \ {0} /\ DOMAIN Seeds = 1..Len(Seeds)
  BY StartupAssumption
<1>2. /\ \A i \in DOMAIN Seeds : Seeds[i] \in Assets
      /\ \A a \in Assets : \E i \in DOMAIN Seeds : a = Seeds[i]
  BY DEF Assets
<1> QED
  BY <1>1, <1>2, StartupAssumption

\* Going on to the next file stays within the release.
LEMMA GoOnType ==
    ASSUME TypeOK, NEW done \in SUBSET (1..Len(Statements)), GoOn(done)
    PROVE  /\ applied' \subseteq 1..Len(Statements)
           /\ file' \in Files /\ stmt' \in 1..Count(file')
           /\ pc' \in {"ping", "migrate"}
<1>1. release \in 1..Len(Statements) /\ release \in Nat
  BY CountFacts DEF TypeOK
<1>2. file' \in Files
  BY <1>1, CountFacts DEF GoOn
<1> QED
  BY <1>2, CountFacts DEF GoOn

\* A call that is cut off leaves at most the call the process was making.
LEMMA CutOffFacts ==
    ASSUME TypeOK, CutOff
    PROVE  /\ clock' \in Nat /\ clock <= clock'
           /\ late \subseteq late'
           /\ \A call \in late' : call \in late \/ call \in Pending
           /\ \A call \in Pending : CallOK(call)
<1>1. clock' \in Nat /\ clock <= clock'
  BY DEF CutOff, TypeOK
<1>2. late \subseteq late' /\ \A call \in late' : call \in late \/ call \in Pending
  BY DEF CutOff
<1>3. ASSUME NEW call \in Pending
      PROVE  CallOK(call)
  <2>1. CASE pc = "migrate"
    BY <1>3, <2>1, CountFacts DEF Pending, TypeOK, CallOK
  <2>2. CASE pc = "record"
    <3>1. call = [op |-> "ledger", arg |-> file]
      BY <1>3, <2>2 DEF Pending
    <3>2. file \in 1..Len(Statements)
      BY <2>2, CountFacts DEF TypeOK, Files
    <3> QED
      BY <3>1, <3>2 DEF CallOK
  <2>3. CASE pc = "insert"
    <3>1. call = [op |-> "row", arg |-> Seeds[seed],
                  row |-> SeedRow]
      BY <1>3, <2>3 DEF Pending
    <3>2. call.arg \in Assets /\ call.op = "row"
      BY <3>1, SeedFacts DEF TypeOK
    <3>3. call.row \in Row
      BY <3>1 DEF TypeOK, Row, SeedRow
    <3> QED
      BY <3>2, <3>3 DEF CallOK
  <2> QED
    BY <1>3, <2>1, <2>2, <2>3 DEF Pending
<1> QED
  BY <1>1, <1>2, <1>3

\* Every step keeps the database, the process and the calls in flight well typed.
LEMMA NextTypeOK == TypeOK /\ [Next]_vars => TypeOK'
<1> SUFFICES ASSUME TypeOK, [Next]_vars
             PROVE  TypeOK'
  OBVIOUS
<1>1. CASE Start
  <2>1. 0 \in Files /\ 1 \in 1..Count(0) /\ 1 \in DOMAIN Seeds
    BY CountFacts, SeedFacts
  <2> QED
    BY <1>1, <2>1 DEF Start, db, bounds, TypeOK, Calls
<1>2. CASE Execute
  <2>1. <<file, stmt>> \in AllStatements
    BY CountFacts DEF TypeOK
  <2>2. stmt' \in 1..Count(file)
    BY <1>2, CountFacts DEF Execute, AfterStatement, TypeOK
  <2>3. pc' \in Calls /\ (pc' = "record" => file > 0)
    BY <1>2, CountFacts DEF Execute, AfterStatement, TypeOK, Calls
  <2> QED
    BY <1>2, <2>1, <2>2, <2>3 DEF Execute, bounds, TypeOK
<1>3. CASE ReadLedger
  <2>1. /\ applied' \subseteq 1..Len(Statements)
        /\ file' \in Files /\ stmt' \in 1..Count(file')
        /\ pc' \in {"ping", "migrate"}
    BY <1>3, GoOnType DEF ReadLedger, TypeOK
  <2> QED
    BY <1>3, <2>1 DEF ReadLedger, db, bounds, TypeOK, Calls
<1>4. CASE Record
  <2>1. file \in 1..Len(Statements)
    BY <1>4, CountFacts DEF Record, TypeOK, Files
  <2>2. /\ applied' \subseteq 1..Len(Statements)
        /\ file' \in Files /\ stmt' \in 1..Count(file')
        /\ pc' \in {"ping", "migrate"}
    BY <1>4, <2>1, GoOnType DEF Record, TypeOK
  <2> QED
    BY <1>4, <2>1, <2>2 DEF Record, bounds, TypeOK, Calls
<1>5. CASE Ping
  BY <1>5 DEF Ping, db, bounds, TypeOK, Calls
<1>6. CASE Lookup
  BY <1>6, SeedFacts DEF Lookup, NextSeed, db, bounds, TypeOK, Calls
<1>7. CASE LookupHost
  BY <1>7 DEF LookupHost, db, bounds, TypeOK, Calls
<1>8. CASE Insert
  <2>1. SeedRow \in Row /\ clock + 1 \in Nat
    BY DEF Row, TypeOK, SeedRow
  <2>2. seed' \in DOMAIN Seeds /\ pc' \in Calls /\ pc' # "record"
    BY <1>8, SeedFacts DEF Insert, NextSeed, TypeOK, Calls
  <2>3. Seeds[seed] \in Assets
    BY SeedFacts DEF TypeOK
  <2>4. registry' \in [Assets -> Row \cup {None}]
    BY <1>8, <2>1, <2>3 DEF Insert, WithRow, TypeOK
  <2> QED
    BY <1>8, <2>1, <2>2, <2>4 DEF Insert, bounds, TypeOK
<1>9. CASE Announce
  BY <1>9 DEF Announce, db, bounds, TypeOK
<1>10. CASE CallFails
  BY <1>10, BoundFacts, CutOffFacts DEF CallFails, Spend, TypeOK, Calls
<1>11. CASE Crash
  BY <1>11, BoundFacts, CutOffFacts DEF Crash, Spend, TypeOK
<1>12. ASSUME NEW r \in Releases, Deploy(r)
       PROVE  TypeOK'
  BY <1>12, BoundFacts, CutOffFacts DEF Deploy, TypeOK
<1>13. ASSUME NEW call \in late, Land(call)
       PROVE  TypeOK'
  <2>1. /\ executed' \subseteq AllStatements /\ ledger' \subseteq 1..Len(Statements)
        /\ registry' \in [Assets -> Row \cup {None}]
    <3>1. CallOK(call)
      BY DEF TypeOK
    <3>2. executed' \subseteq AllStatements /\ ledger' \subseteq 1..Len(Statements)
      BY <1>13, <3>1 DEF Land, TypeOK, CallOK
    <3>3. registry' \in [Assets -> Row \cup {None}]
      BY <1>13, <3>1 DEF Land, WithRow, TypeOK, CallOK
    <3> QED
      BY <3>2, <3>3
  <2> QED
    BY <1>13, <2>1 DEF Land, process, bounds, TypeOK
<1>14. CASE Outage
  <2>1. faults' \in 0..MaxFaults
    BY <1>14, BoundFacts DEF Outage, TypeOK
  <2> QED
    BY <1>14, <2>1 DEF Outage, process, TypeOK
<1>15. CASE Recovery
  BY <1>15 DEF Recovery, process, bounds, TypeOK
<1>16. ASSUME NEW a \in Assets, Administer(a)
       PROVE  TypeOK'
  <2>1. OperatorRow \in Row /\ clock + 1 \in Nat
    BY DEF Row, TypeOK, OperatorRow
  <2> QED
    BY <1>16, <2>1, BoundFacts DEF Administer, process, TypeOK
<1>17. CASE UNCHANGED vars
  BY <1>17 DEF vars, db, process, bounds, TypeOK
<1> QED
  BY <1>1, <1>2, <1>3, <1>4, <1>5, <1>6, <1>7, <1>8, <1>9, <1>10, <1>11, <1>12,
     <1>13, <1>14, <1>15, <1>16, <1>17
  DEF Next, Steps

\* The schema bootstrap, the seeding and the database keep their types through
\* failing calls, crashes, deployments and calls that land late.
THEOREM TypeCorrect == Spec => []TypeOK
<1>1. Init => TypeOK
  <2>1. 0 \in Files /\ 1 \in 1..Count(0) /\ 1 \in DOMAIN Seeds
    BY CountFacts, SeedFacts
  <2>2. [a \in Assets |-> None] \in [Assets -> Row \cup {None}]
    OBVIOUS
  <2>3. ASSUME Init
        PROVE  /\ up \in BOOLEAN /\ degraded \in BOOLEAN /\ clock \in Nat
               /\ release \in Releases /\ registry \in [Assets -> Row \cup {None}]
               /\ executed = {} /\ ledger = {} /\ late = {} /\ applied = {}
               /\ pc = "down" /\ file = 0 /\ stmt = 1 /\ seed = 1 /\ seen = 0
               /\ faults = 0 /\ deploys = 0 /\ edits = 0
    BY <2>2, <2>3 DEF Init
  <2> QED
    BY <2>1, <2>3, BoundFacts DEF TypeOK
<1> QED
  BY <1>1, NextTypeOK, PTL DEF Spec

-----------------------------------------------------------------------------
(* The schema *)

\* What bootstrap relies on, at every point where it may be cut off: a file the
\* ledger names, or is about to name, or will name when a call lands late, was
\* executed; and the statements before the one it is at were.
SchemaInv ==
    /\ LedgerHonest
    /\ \A call \in late : call.op = "ledger" => Complete(call.arg)
    /\ pc = "migrate" => \A i \in 1..(stmt - 1) : <<file, i>> \in executed
    /\ pc \in {"migrate", "record"} /\ file > 0 =>
          Complete(file - 1) /\ \A k \in applied : Complete(k)
    /\ pc = "read" => Complete(0)
    /\ pc = "record" => Complete(file)
    /\ pc \in {"ping", "lookup", "host", "insert", "announce"} \/ Ready => Complete(release)

\* A schema that is complete up to a file is complete up to the files before it,
\* and one file more is complete with its last statement.
LEMMA CompleteFacts ==
    /\ \A k \in Nat : \A j \in 0..k : Complete(k) => Complete(j)
    /\ \A k \in Files :
          /\ k > 0 => Complete(k - 1)
          /\ \A i \in 1..Count(k) : <<k, i>> \in executed
          => Complete(k)
<1>1. ASSUME NEW k \in Nat, NEW j \in 0..k, Complete(k)
      PROVE  Complete(j)
  <2>1. 0..j \subseteq 0..k
    OBVIOUS
  <2> QED
    BY <1>1, <2>1 DEF Complete
<1>2. ASSUME NEW k \in Files, k > 0 => Complete(k - 1),
             \A i \in 1..Count(k) : <<k, i>> \in executed
      PROVE  Complete(k)
  <2>1. StatementsOf(k) \subseteq executed
    BY <1>2 DEF StatementsOf
  <2>2. \A j \in 0..k : j = k \/ (k > 0 /\ j \in 0..(k - 1))
    BY CountFacts
  <2> QED
    BY <1>2, <2>1, <2>2 DEF Complete
<1> QED
  BY <1>1, <1>2

\* No step takes a statement back, so what is complete stays complete.
LEMMA ExecutedGrows ==
    ASSUME [Next]_vars
    PROVE  executed \subseteq executed' /\ \A k : Complete(k) => Complete(k)'
<1>1. executed \subseteq executed'
  BY DEF Next, Steps, Start, Execute, ReadLedger, Record, Ping, Lookup, LookupHost,
         Insert, Announce, CallFails, Crash, Deploy, Land, Outage, Recovery,
         Administer, vars, db
<1> QED
  BY <1>1 DEF Complete

\* bootstrap goes on after a complete part of the schema: what the next file
\* builds on is there, and when no file is left the whole release is.
LEMMA GoOnSchema ==
    ASSUME TypeOK, NEW done \in SUBSET (1..Len(Statements)), GoOn(done),
           Complete(0), \A k \in done : Complete(k),
           [Next]_vars, release' = release
    PROVE  /\ pc' \in {"ping", "migrate"} /\ stmt' = 1
           /\ pc' = "migrate" =>
                 file' > 0 /\ Complete(file - 1)' /\ \A k \in applied' : Complete(k)'
           /\ pc' = "ping" => Complete(release)'
<1>1. release \in 1..Len(Statements) /\ release \in Nat /\ release > 0
  BY CountFacts DEF TypeOK
<1>2. applied' = done /\ stmt' = 1
  BY DEF GoOn
<1>3. \A k \in applied' : Complete(k)'
  BY <1>2, ExecutedGrows
<1>4. CASE 1..release \subseteq done /\ file' = 0 /\ pc' = "ping"
  <2>1. Complete(release)
    BY <1>1, <1>4
  <2> QED
    BY <1>2, <1>3, <1>4, <2>1, ExecutedGrows
<1>5. ASSUME NEW k \in (1..release) \ done, 1..(k - 1) \subseteq done,
             file' = k, pc' = "migrate"
      PROVE  /\ pc' \in {"ping", "migrate"} /\ stmt' = 1
             /\ pc' = "migrate" =>
                   file' > 0 /\ Complete(file - 1)' /\ \A j \in applied' : Complete(j)'
             /\ pc' = "ping" => Complete(release)'
  <2>1. Complete(k - 1)
    <3>1. CASE k = 1
      BY <3>1
    <3>2. CASE k > 1
      <4>1. k - 1 \in 1..(k - 1)
        BY <1>1, <3>2
      <4> QED
        BY <1>5, <4>1
    <3> QED
      BY <1>1, <3>1, <3>2
  <2>2. Complete(k - 1)'
    BY <2>1, ExecutedGrows
  <2>3. file' > 0 /\ Complete(file - 1)'
    BY <1>1, <1>5, <2>2 DEF Complete
  <2> QED
    BY <1>2, <1>3, <1>5, <2>3
<1> QED
  BY <1>4, <1>5 DEF GoOn

\* A call that is cut off leaves a ledger row only for a file that was executed.
LEMMA CutOffSchema ==
    ASSUME TypeOK, SchemaInv, CutOff, [Next]_vars
    PROVE  \A call \in late' : call.op = "ledger" => Complete(call.arg)'
<1> SUFFICES ASSUME NEW call \in late', call.op = "ledger"
             PROVE  Complete(call.arg)'
  OBVIOUS
<1>1. CASE call \in late
  BY <1>1, ExecutedGrows DEF SchemaInv
<1>2. CASE call \in Pending
  <2>1. pc = "record" /\ call.arg = file
    BY <1>2 DEF Pending
  <2> QED
    BY <2>1, ExecutedGrows DEF SchemaInv
<1> QED
  BY <1>1, <1>2, CutOffFacts

LEMMA NextSchemaInv == TypeOK /\ SchemaInv /\ [Next]_vars => SchemaInv'
<1> SUFFICES ASSUME TypeOK, SchemaInv, [Next]_vars
             PROVE  SchemaInv'
  OBVIOUS
<1>0. \A k : Complete(k) => Complete(k)'
  BY ExecutedGrows
<1>1. CASE Start
  BY <1>0, <1>1 DEF Start, db, SchemaInv, LedgerHonest, Ready
<1>2. CASE Execute
  <2>1. /\ pc = "migrate" /\ pc' = AfterStatement /\ UNCHANGED <<file, applied, release>>
        /\ executed' = executed \cup {<<file, stmt>>}
        /\ stmt' = IF AfterStatement = "migrate" THEN stmt + 1 ELSE stmt
        /\ UNCHANGED <<ledger, late>>
    BY <1>2 DEF Execute
  <2>2. \A i \in 1..stmt : <<file, i>> \in executed'
    BY <2>1, CountFacts DEF SchemaInv, TypeOK
  <2>3. file > 0 => Complete(file - 1)' /\ \A k \in applied : Complete(k)'
    BY <1>0, <2>1 DEF SchemaInv
  <2>4. CASE stmt < Count(file)
    <3>1. pc' = "migrate" /\ stmt' - 1 = stmt
      BY <2>1, <2>4, CountFacts DEF AfterStatement, TypeOK
    <3> QED
      BY <1>0, <2>1, <2>2, <2>3, <3>1 DEF SchemaInv, LedgerHonest, Ready
  <2>5. CASE stmt = Count(file)
    <3>1. pc' = (IF file = 0 THEN "read" ELSE "record")
      BY <2>1, <2>5, CountFacts DEF AfterStatement, TypeOK
    <3>2. Complete(file)'
      <4>1. StatementsOf(file) \subseteq executed'
        BY <2>2, <2>5 DEF StatementsOf
      <4>2. \A k \in 0..file : k = file \/ (file > 0 /\ k \in 0..(file - 1))
        BY CountFacts DEF TypeOK
      <4> QED
        BY <2>1, <2>3, <4>1, <4>2 DEF Complete
    <3> QED
      BY <1>0, <2>1, <2>3, <3>1, <3>2 DEF SchemaInv, LedgerHonest, Ready
  <2> QED
    BY <2>4, <2>5, CountFacts DEF TypeOK
<1>3. CASE ReadLedger
  <2>1. GoOn(ledger) /\ UNCHANGED <<ledger, late, release>> /\ Complete(0)
    BY <1>3 DEF ReadLedger, db, SchemaInv
  <2>2. \A k \in ledger : Complete(k)
    BY DEF SchemaInv, LedgerHonest
  <2>3. ledger \in SUBSET (1..Len(Statements))
    BY DEF TypeOK
  <2>4. /\ pc' \in {"ping", "migrate"} /\ stmt' = 1
        /\ pc' = "migrate" =>
              file' > 0 /\ Complete(file - 1)' /\ \A k \in applied' : Complete(k)'
        /\ pc' = "ping" => Complete(release)'
    BY <2>1, <2>2, <2>3, GoOnSchema
  <2> QED
    BY <1>0, <2>1, <2>4 DEF SchemaInv, LedgerHonest, Ready
<1>4. CASE Record
  <2>1. /\ GoOn(applied \cup {file}) /\ UNCHANGED <<late, release>>
        /\ pc = "record" /\ ledger' = ledger \cup {file}
    BY <1>4 DEF Record
  <2>2. file \in 1..Len(Statements) /\ file \in Nat
    BY <2>1, CountFacts DEF TypeOK, Files
  <2>3. Complete(file) /\ Complete(0) /\ \A k \in applied \cup {file} : Complete(k)
    BY <2>1, <2>2, CompleteFacts DEF SchemaInv
  <2>4. applied \cup {file} \in SUBSET (1..Len(Statements))
    BY <2>2 DEF TypeOK
  <2>5. /\ pc' \in {"ping", "migrate"} /\ stmt' = 1
        /\ pc' = "migrate" =>
              file' > 0 /\ Complete(file - 1)' /\ \A k \in applied' : Complete(k)'
        /\ pc' = "ping" => Complete(release)'
    BY <2>1, <2>3, <2>4, GoOnSchema
  <2> QED
    BY <1>0, <2>1, <2>3, <2>5 DEF SchemaInv, LedgerHonest, Ready
<1>5. CASE Ping \/ Lookup \/ LookupHost \/ Insert \/ Announce
  <2>1. /\ pc \in {"ping", "lookup", "host", "insert", "announce"}
        /\ pc' \in {"lookup", "host", "insert", "announce", "serving", "down"}
        /\ UNCHANGED <<ledger, late, release>>
    BY <1>5 DEF Ping, Lookup, LookupHost, Insert, Announce, NextSeed, db
  <2> QED
    BY <1>0, <2>1 DEF SchemaInv, LedgerHonest, Ready
<1>6. CASE CallFails
  <2>1. \A call \in late' : call.op = "ledger" => Complete(call.arg)'
    BY <1>0, <1>6, CutOffSchema DEF CallFails, SchemaInv
  <2> QED
    BY <1>0, <1>6, <2>1 DEF CallFails, SchemaInv, LedgerHonest, Ready
<1>7. CASE Crash \/ \E r \in Releases : Deploy(r)
  <2>1. \A call \in late' : call.op = "ledger" => Complete(call.arg)'
    BY <1>7, CutOffSchema DEF Crash, Deploy
  <2> QED
    BY <1>0, <1>7, <2>1 DEF Crash, Deploy, SchemaInv, LedgerHonest, Ready
<1>8. ASSUME NEW call \in late, Land(call)
      PROVE  SchemaInv'
  <2>1. /\ late' \subseteq late /\ UNCHANGED <<release, process>>
        /\ \A k \in ledger' : k \in ledger \/ (call.op = "ledger" /\ k = call.arg)
    BY <1>8 DEF Land
  <2> QED
    BY <1>0, <2>1, ExecutedGrows DEF SchemaInv, LedgerHonest, Ready, process
<1>9. CASE Outage \/ Recovery \/ (\E a \in Assets : Administer(a)) \/ UNCHANGED vars
  <2>1. UNCHANGED <<executed, ledger, late, release, process>>
    BY <1>9 DEF Outage, Recovery, Administer, vars, db
  <2> QED
    BY <1>0, <2>1 DEF SchemaInv, LedgerHonest, Ready, process
<1> QED
  BY <1>1, <1>2, <1>3, <1>4, <1>5, <1>6, <1>7, <1>8, <1>9 DEF Next, Steps

\* The ledger tells the truth for any migration files, releases and number of
\* faults: a file it names was executed to its last statement, and so was every
\* file before it.
THEOREM LedgerIsHonest == Spec => []LedgerHonest
<1>1. Init => SchemaInv
  BY DEF Init, SchemaInv, LedgerHonest, Ready
<1>2. SchemaInv => LedgerHonest
  BY DEF SchemaInv
<1> QED
  BY <1>1, <1>2, TypeCorrect, NextSchemaInv, PTL DEF Spec

-----------------------------------------------------------------------------
(* The seed entries *)

Registered(a) == registry[a] # None

\* What seeding relies on: the entries before the one it is at are registered, the
\* host of a row is registered before the row is inserted, and so it is for a row
\* that lands late.
SeedInv ==
    /\ HostsRegistered
    /\ \A call \in late : call.op = "row" /\ HostOf[call.arg] # None
          => Registered(HostOf[call.arg])
    /\ pc \in {"migrate", "read", "record", "ping"} => seed = 1
    /\ pc \in {"lookup", "host", "insert"} => \A i \in 1..(seed - 1) : Registered(Seeds[i])
    /\ pc = "host" => HostOf[Seeds[seed]] # None
    /\ pc = "insert" /\ HostOf[Seeds[seed]] # None => Registered(HostOf[Seeds[seed]])
    /\ pc = "announce" \/ Ready => \A a \in Assets : Registered(a)

\* What a row put into the registry makes of it.
LEMMA WithRowFacts ==
    ASSUME TypeOK, NEW b \in Assets, NEW row \in Row, registry' = WithRow(b, row)
    PROVE  \A a \in Assets :
              /\ Registered(a)' <=> Registered(a) \/ a = b
              /\ registry'[a] = IF a = b /\ Keeps(b, row) THEN row ELSE registry[a]
<1>1. registry \in [Assets -> Row \cup {None}]
  BY DEF TypeOK
<1>2. \A a \in Assets :
         registry'[a] = IF a = b /\ Keeps(b, row) THEN row ELSE registry[a]
  BY <1>1 DEF WithRow
<1>3. row # None
  BY NoneAssumption
<1>4. ~ Keeps(b, row) => registry[b] # None
  BY DEF Keeps
<1> QED
  BY <1>2, <1>3, <1>4 DEF Registered

\* The row seeding inserts is a row.
LEMMA SeedRowType ==
    ASSUME TypeOK
    PROVE  SeedRow \in Row
BY DEF TypeOK, Row, SeedRow

\* No step takes a row out of the registry.
LEMMA RegistryGrows ==
    ASSUME TypeOK, [Next]_vars
    PROVE  \A a \in Assets : Registered(a) => Registered(a)'
<1>1. CASE Insert
  BY <1>1, WithRowFacts, SeedFacts, SeedRowType DEF Insert, TypeOK
<1>2. ASSUME NEW call \in late, Land(call)
      PROVE  \A a \in Assets : Registered(a) => Registered(a)'
  <2>1. CallOK(call)
    BY DEF TypeOK
  <2>2. CASE call.op = "row"
    <3>1. call.arg \in Assets /\ call.row \in Row
      BY <2>1, <2>2 DEF CallOK
    <3> QED
      BY <1>2, <2>2, <3>1, WithRowFacts DEF Land
  <2> QED
    BY <1>2, <2>2 DEF Land, Registered
<1>3. ASSUME NEW b \in Assets, Administer(b)
      PROVE  \A a \in Assets : Registered(a) => Registered(a)'
  <2>1. OperatorRow # None
    BY NoneAssumption DEF Row, TypeOK, OperatorRow
  <2> QED
    BY <1>3, <2>1 DEF Administer, Registered, TypeOK
<1>4. CASE registry' = registry
  BY <1>4 DEF Registered
<1> QED
  BY <1>1, <1>2, <1>3, <1>4
  DEF Next, Steps, Start, Execute, ReadLedger, Record, Ping, Lookup, LookupHost,
      Announce, CallFails, Crash, Deploy, Outage, Recovery, vars, db

\* Past the last entry every asset is registered, before it the next one is due.
LEMMA NextSeedFacts ==
    ASSUME TypeOK, NextSeed, [Next]_vars,
           \A i \in 1..seed : Registered(Seeds[i])'
    PROVE  /\ pc' \in {"lookup", "announce"}
           /\ pc' = "lookup" => \A i \in 1..(seed' - 1) : Registered(Seeds[i])'
           /\ pc' = "announce" => \A a \in Assets : Registered(a)'
<1>1. seed \in 1..Len(Seeds) /\ Len(Seeds) \in Nat
  BY SeedFacts DEF TypeOK
<1>2. CASE seed < Len(Seeds)
  BY <1>1, <1>2 DEF NextSeed
<1>3. CASE seed = Len(Seeds)
  <2>1. \A i \in DOMAIN Seeds : Registered(Seeds[i])'
    BY <1>3, SeedFacts
  <2>2. \A a \in Assets : Registered(a)'
    BY <2>1, SeedFacts DEF Registered
  <2> QED
    BY <1>1, <1>3, <2>2 DEF NextSeed
<1> QED
  BY <1>1, <1>2, <1>3

\* Hosts stay registered when the only row that can be new has its host.
LEMMA HostsKept ==
    ASSUME TypeOK, [Next]_vars, HostsRegistered, NEW b \in Assets,
           HostOf[b] # None => Registered(HostOf[b]),
           \A a \in Assets : Registered(a)' => Registered(a) \/ a = b
    PROVE  HostsRegistered'
<1> SUFFICES ASSUME NEW a \in Assets, Registered(a)', HostOf[a] # None
             PROVE  Registered(HostOf[a])'
  BY DEF HostsRegistered, Registered
<1>1. HostOf[a] \in Assets
  BY SeedFacts
<1>2. Registered(HostOf[a])
  BY DEF HostsRegistered, Registered
<1>3. Registered(HostOf[a])'
  BY <1>1, <1>2, RegistryGrows DEF Registered
<1> QED
  BY <1>3

\* A cut-off insert leaves a row whose host is registered.
LEMMA CutOffSeed ==
    ASSUME TypeOK, SeedInv, CutOff
    PROVE  \A call \in late' : call.op = "row" /\ HostOf[call.arg] # None
              => Registered(HostOf[call.arg])
<1> SUFFICES ASSUME NEW call \in late', call.op = "row", HostOf[call.arg] # None
             PROVE  Registered(HostOf[call.arg])
  OBVIOUS
<1>1. CASE call \in late
  BY <1>1 DEF SeedInv
<1>2. CASE call \in Pending
  <2>1. pc = "insert" /\ call.arg = Seeds[seed]
    BY <1>2 DEF Pending
  <2> QED
    BY <2>1 DEF SeedInv
<1> QED
  BY <1>1, <1>2, CutOffFacts

LEMMA NextSeedInv == TypeOK /\ SeedInv /\ [Next]_vars => SeedInv'
<1> SUFFICES ASSUME TypeOK, SeedInv, [Next]_vars
             PROVE  SeedInv'
  OBVIOUS
<1>0. \A a \in Assets : Registered(a) => Registered(a)'
  BY RegistryGrows
<1>a. /\ seed \in 1..Len(Seeds) /\ Len(Seeds) \in Nat /\ Seeds[seed] \in Assets
      /\ HostOf[Seeds[seed]] \in Assets \cup {None}
  BY SeedFacts DEF TypeOK
<1>b. ASSUME UNCHANGED registry
      PROVE  HostsRegistered' /\ \A a : Registered(a)' <=> Registered(a)
  BY <1>b DEF SeedInv, HostsRegistered, Registered
<1>1. CASE Start
  BY <1>1, <1>b DEF Start, db, SeedInv, Ready
<1>2. CASE Execute \/ ReadLedger \/ Record
  <2>1. /\ pc \in {"migrate", "read", "record"}
        /\ pc' \in {"migrate", "read", "record", "ping"}
        /\ UNCHANGED <<registry, late, seed>>
    BY <1>2 DEF Execute, AfterStatement, ReadLedger, Record, GoOn, db
  <2> QED
    BY <2>1, <1>b DEF SeedInv, Ready
<1>3. CASE Ping
  <2>1. pc' = "lookup" /\ seed' = 1 /\ UNCHANGED <<registry, late>>
    BY <1>3 DEF Ping, SeedInv, db
  <2> QED
    BY <2>1, <1>b DEF SeedInv, Ready
<1>4. CASE Lookup
  <2>1. UNCHANGED <<registry, late, degraded>> /\ pc = "lookup"
    BY <1>4 DEF Lookup, db
  <2>2. CASE registry[Seeds[seed]] # None
    <3>1. \A i \in 1..seed : Registered(Seeds[i])
      BY <1>a, <2>1, <2>2 DEF SeedInv, Registered
    <3>2. \A i \in 1..seed : Registered(Seeds[i])'
      BY <2>1, <3>1 DEF Registered
    <3>3. NextSeed
      BY <1>4, <2>2 DEF Lookup
    <3>4. /\ pc' \in {"lookup", "announce"}
          /\ pc' = "lookup" => \A i \in 1..(seed' - 1) : Registered(Seeds[i])'
          /\ pc' = "announce" => \A a \in Assets : Registered(a)'
      BY <3>2, <3>3, NextSeedFacts
    <3> QED
      BY <1>b, <2>1, <3>4 DEF SeedInv, Ready, Registered
  <2>3. CASE registry[Seeds[seed]] = None
    <3>1. /\ pc' = (IF HostOf[Seeds[seed]] = None THEN "insert" ELSE "host")
          /\ seed' = seed
      BY <1>4, <2>3 DEF Lookup
    <3> QED
      BY <1>b, <2>1, <3>1 DEF SeedInv, Ready, Registered
  <2> QED
    BY <2>2, <2>3
<1>5. CASE LookupHost
  <2>1. /\ UNCHANGED <<registry, late, seed>> /\ pc = "host"
        /\ pc' = IF Registered(HostOf[Seeds[seed]]) THEN "insert" ELSE "down"
    BY <1>5 DEF LookupHost, db, Registered
  <2> QED
    BY <1>b, <2>1 DEF SeedInv, Ready, Registered
<1>6. CASE Insert
  <2>1. /\ pc = "insert" /\ UNCHANGED late /\ NextSeed
        /\ registry' = WithRow(Seeds[seed], SeedRow)
    BY <1>6 DEF Insert
  <2>2. \A a \in Assets : Registered(a)' <=> Registered(a) \/ a = Seeds[seed]
    BY <1>a, <2>1, SeedRowType, WithRowFacts
  <2>3. HostsRegistered'
    BY <1>a, <2>1, <2>2, HostsKept DEF SeedInv
  <2>4. \A i \in 1..seed : Registered(Seeds[i])'
    BY <1>a, <2>1, <2>2, SeedFacts DEF SeedInv, Registered
  <2>5. /\ pc' \in {"lookup", "announce"}
        /\ pc' = "lookup" => \A i \in 1..(seed' - 1) : Registered(Seeds[i])'
        /\ pc' = "announce" => \A a \in Assets : Registered(a)'
    BY <2>1, <2>4, NextSeedFacts
  <2>6. \A call \in late : call.op = "row" /\ HostOf[call.arg] # None
           => Registered(HostOf[call.arg])'
    <3> SUFFICES ASSUME NEW call \in late, call.op = "row", HostOf[call.arg] # None
                 PROVE  Registered(HostOf[call.arg])'
      OBVIOUS
    <3>1. CallOK(call) /\ Registered(HostOf[call.arg])
      BY DEF TypeOK, SeedInv
    <3>2. HostOf[call.arg] \in Assets
      BY <3>1, SeedFacts DEF CallOK
    <3> QED
      BY <1>0, <3>1, <3>2 DEF Registered
  <2> QED
    BY <2>1, <2>3, <2>5, <2>6 DEF SeedInv, Ready
<1>7. CASE Announce
  <2>1. UNCHANGED <<registry, late>> /\ pc = "announce" /\ pc' = "serving"
    BY <1>7 DEF Announce, db
  <2> QED
    BY <1>b, <2>1 DEF SeedInv, Ready, Registered
<1>8. CASE CallFails \/ Crash \/ \E r \in Releases : Deploy(r)
  <2>1. UNCHANGED registry
    BY <1>8 DEF CallFails, Crash, Deploy
  <2>2. \A call \in late' : call.op = "row" /\ HostOf[call.arg] # None
           => Registered(HostOf[call.arg])
    BY <1>8, CutOffSeed DEF CallFails, Crash, Deploy, SeedInv
  <2>3. pc' = "down" \/ (pc' = "serving" /\ degraded' = TRUE)
    BY <1>8 DEF CallFails, Crash, Deploy
  <2> QED
    BY <1>b, <2>1, <2>2, <2>3 DEF SeedInv, Ready, Registered
<1>9. ASSUME NEW call \in late, Land(call)
      PROVE  SeedInv'
  <2>1. UNCHANGED process /\ late' \subseteq late
    BY <1>9 DEF Land
  <2>2. HostsRegistered'
    <3>1. CallOK(call)
      BY DEF TypeOK
    <3>2. CASE call.op = "row"
      <4>1. call.arg \in Assets /\ call.row \in Row
        BY <3>1, <3>2 DEF CallOK
      <4>2. \A a \in Assets : Registered(a)' <=> Registered(a) \/ a = call.arg
        BY <1>9, <3>2, <4>1, WithRowFacts DEF Land
      <4>3. HostOf[call.arg] # None => Registered(HostOf[call.arg])
        BY <3>2 DEF SeedInv
      <4> QED
        BY <4>1, <4>2, <4>3, HostsKept DEF SeedInv
    <3>3. CASE call.op # "row"
      BY <1>9, <1>b, <3>3 DEF Land
    <3> QED
      BY <3>2, <3>3
  <2>3. \A other \in late : other.op = "row" /\ HostOf[other.arg] # None
           => Registered(HostOf[other.arg])'
    <3> SUFFICES ASSUME NEW other \in late, other.op = "row", HostOf[other.arg] # None
                 PROVE  Registered(HostOf[other.arg])'
      OBVIOUS
    <3>1. CallOK(other) /\ Registered(HostOf[other.arg])
      BY DEF TypeOK, SeedInv
    <3>2. HostOf[other.arg] \in Assets
      BY <3>1, SeedFacts DEF CallOK
    <3> QED
      BY <1>0, <3>1, <3>2 DEF Registered
  <2>4. \A i \in DOMAIN Seeds : Registered(Seeds[i]) => Registered(Seeds[i])'
    BY <1>0, SeedFacts DEF Registered
  <2> QED
    BY <1>0, <1>a, <2>1, <2>2, <2>3, <2>4, SeedFacts DEF SeedInv, Ready, process, Registered
<1>10. ASSUME NEW b \in Assets, Administer(b)
       PROVE  SeedInv'
  <2>1. UNCHANGED <<late, process>> /\ registry[b] # None
    BY <1>10 DEF Administer
  <2>2. \A a \in Assets : Registered(a)' => Registered(a)
    BY <1>10 DEF Administer, Registered, TypeOK
  <2>3. HostsRegistered'
    BY <2>1, <2>2, HostsKept DEF SeedInv, HostsRegistered, Registered
  <2>4. \A call \in late : call.op = "row" /\ HostOf[call.arg] # None
           => Registered(HostOf[call.arg])'
    <3> SUFFICES ASSUME NEW call \in late, call.op = "row", HostOf[call.arg] # None
                 PROVE  Registered(HostOf[call.arg])'
      OBVIOUS
    <3>1. CallOK(call) /\ Registered(HostOf[call.arg])
      BY DEF TypeOK, SeedInv
    <3>2. HostOf[call.arg] \in Assets
      BY <3>1, SeedFacts DEF CallOK
    <3> QED
      BY <1>0, <3>1, <3>2 DEF Registered
  <2>5. \A i \in DOMAIN Seeds : Registered(Seeds[i]) => Registered(Seeds[i])'
    BY <1>0, SeedFacts DEF Registered
  <2> QED
    BY <1>0, <1>a, <2>1, <2>3, <2>4, <2>5, SeedFacts DEF SeedInv, Ready, process, Registered
<1>11. CASE Outage \/ Recovery \/ UNCHANGED vars
  <2>1. UNCHANGED <<registry, late, process>>
    BY <1>11 DEF Outage, Recovery, vars, db
  <2> QED
    BY <1>b, <2>1 DEF SeedInv, Ready, process, Registered
<1> QED
  BY <1>1, <1>2, <1>3, <1>4, <1>5, <1>6, <1>7, <1>8, <1>9, <1>10, <1>11 DEF Next, Steps

\* No registered asset refers to a host that is not registered, for any list of
\* seed entries that names hosts first, wherever seeding is cut off.
THEOREM HostsAreRegistered == Spec => []HostsRegistered
<1>1. Init => SeedInv
  BY SeedFacts DEF Init, SeedInv, HostsRegistered, Ready
<1>2. SeedInv => HostsRegistered
  BY DEF SeedInv
<1> QED
  BY <1>1, <1>2, TypeCorrect, NextSeedInv, PTL DEF Spec

\* A backend that started without a degraded lifespan has the whole schema of its
\* release and every seed entry.
THEOREM ReadinessIsComplete == Spec => []ReadyIsComplete
<1>1. Init => SeedInv /\ SchemaInv
  BY SeedFacts DEF Init, SeedInv, HostsRegistered, SchemaInv, LedgerHonest, Ready
<1>2. SeedInv /\ SchemaInv => ReadyIsComplete
  BY DEF SeedInv, SchemaInv, ReadyIsComplete, Registered
<1> QED
  BY <1>1, <1>2, TypeCorrect, NextSeedInv, NextSchemaInv, PTL DEF Spec

-----------------------------------------------------------------------------
(* What operators change *)

\* Why a start that looks after an edit leaves it alone: one that found no row looked
\* before any edit of the row it is about to insert, and so did the one whose insert
\* lands late.
RowInv ==
    /\ seen <= clock
    /\ \A a \in Assets : Registered(a) => registry[a].rev <= clock
    /\ \A call \in late : call.op = "row" =>
          /\ call.row.by = "seed" /\ call.row.rev <= clock /\ call.row.since <= clock
          /\ Registered(call.arg) /\ registry[call.arg].by = "operator"
                => call.row.since < registry[call.arg].rev
    /\ pc \in {"host", "insert"} /\ Registered(Seeds[seed])
          /\ registry[Seeds[seed]].by = "operator"
          => seen < registry[Seeds[seed]].rev

\* A call that is cut off leaves at most a seed's row, whose start looked before the
\* edit of the asset's row, if there was one.
LEMMA CutOffRows ==
    ASSUME TypeOK, RowInv, CutOff, UNCHANGED <<registry, seen>>,
           pc' \notin {"host", "insert"}
    PROVE  RowInv'
<1>1. clock \in Nat /\ clock' \in Nat /\ clock <= clock' /\ seen \in Nat
  BY CutOffFacts DEF TypeOK
<1>2. \A a \in Assets : Registered(a) => registry[a].rev \in Nat
  BY DEF TypeOK, Registered, Row
<1>3. /\ \A a \in Assets : Registered(a) => registry[a].rev <= clock'
      /\ seen <= clock'
  BY <1>1, <1>2 DEF RowInv
<1>4. ASSUME NEW call \in late', call.op = "row"
      PROVE  /\ call.row.by = "seed"
             /\ call.row.rev <= clock' /\ call.row.since <= clock'
             /\ Registered(call.arg) /\ registry[call.arg].by = "operator"
                   => call.row.since < registry[call.arg].rev
  <2>1. CASE call \in late
    <3>1. call.row.rev \in Nat /\ call.row.since \in Nat
      BY <1>4, <2>1 DEF TypeOK, CallOK, Row
    <3>2. /\ call.row.by = "seed"
          /\ call.row.rev <= clock /\ call.row.since <= clock
          /\ Registered(call.arg) /\ registry[call.arg].by = "operator"
                => call.row.since < registry[call.arg].rev
      BY <1>4, <2>1 DEF RowInv
    <3> QED
      BY <1>1, <3>1, <3>2
  <2>2. CASE call \in Pending
    <3>1. /\ pc = "insert"
          /\ call.arg = Seeds[seed] /\ call.row = SeedRow
      BY <1>4, <2>2 DEF Pending
    <3>2. call.row.by = "seed" /\ call.row.rev = clock + 1 /\ call.row.since = seen
      BY <3>1 DEF SeedRow
    <3>3. clock' = clock + 1
      BY <3>1 DEF CutOff
    <3>4. Registered(Seeds[seed]) /\ registry[Seeds[seed]].by = "operator"
             => seen < registry[Seeds[seed]].rev
      BY <3>1 DEF RowInv
    <3>5. call.row.rev <= clock' /\ call.row.since <= clock'
      BY <1>1, <1>3, <3>2, <3>3
    <3> QED
      BY <3>1, <3>2, <3>4, <3>5
  <2> QED
    BY <1>4, <2>1, <2>2, CutOffFacts
<1> QED
  BY <1>3, <1>4 DEF RowInv, Registered

\* Beyond that, steps that leave the registry, the calls in flight and the clock
\* alone only matter when seeding comes to a row.
LEMMA QuietRows ==
    ASSUME RowInv, UNCHANGED <<registry, late, clock>>, seen' <= clock,
           pc' \in {"host", "insert"} /\ Registered(Seeds[seed'])
               /\ registry[Seeds[seed']].by = "operator"
               => seen' < registry[Seeds[seed']].rev
    PROVE  RowInv'
BY DEF RowInv, Registered

LEMMA NextRowInv == TypeOK /\ RowInv /\ [Next]_vars => RowInv'
<1> SUFFICES ASSUME TypeOK, RowInv, [Next]_vars
             PROVE  RowInv'
  OBVIOUS
<1>a. /\ clock \in Nat /\ seen \in Nat /\ seen <= clock
      /\ \A a \in Assets : Registered(a) => registry[a] \in Row /\ registry[a].rev \in Nat
  BY DEF TypeOK, Registered, Row, RowInv
<1>1. CASE Start
  <2>1. /\ seen' = 0 /\ pc' = "migrate" /\ UNCHANGED <<registry, late, clock>>
    BY <1>1 DEF Start, db
  <2> QED
    BY <1>a, <2>1, QuietRows
<1>2. CASE ReadLedger \/ Ping \/ Announce \/ Execute \/ Record
  <2>1. /\ UNCHANGED <<registry, late, clock, seen>>
        /\ pc' \notin {"host", "insert"}
    BY <1>2 DEF ReadLedger, GoOn, Ping, Announce, Execute, AfterStatement, Record, db
  <2> QED
    BY <1>a, <2>1, QuietRows
<1>3. CASE Lookup
  <2>1. UNCHANGED <<registry, late, clock>> /\ seen' = clock
    BY <1>3 DEF Lookup, db
  <2>2. CASE registry[Seeds[seed]] # None
    <3>1. pc' \notin {"host", "insert"}
      BY <1>3, <2>2 DEF Lookup, NextSeed
    <3> QED
      BY <1>a, <2>1, <3>1, QuietRows
  <2>3. CASE registry[Seeds[seed]] = None
    <3>1. seed' = seed /\ ~ Registered(Seeds[seed])
      BY <1>3, <2>3 DEF Lookup, Registered
    <3> QED
      BY <1>a, <2>1, <3>1, QuietRows
  <2> QED
    BY <2>2, <2>3
<1>4. CASE LookupHost
  <2>1. UNCHANGED <<registry, late, clock, seed, seen>> /\ pc = "host"
    BY <1>4 DEF LookupHost, db
  <2> QED
    BY <1>a, <2>1, QuietRows DEF RowInv
<1>5. CASE Insert
  <2> DEFINE row == SeedRow
  <2>1. /\ pc = "insert" /\ registry' = WithRow(Seeds[seed], row)
        /\ UNCHANGED <<late, seen>>
        /\ clock' = clock + 1 /\ pc' \in {"lookup", "announce"}
    BY <1>5 DEF Insert, NextSeed
  <2>2. row \in Row /\ Seeds[seed] \in Assets /\ row.by = "seed" /\ row.rev = clock + 1
    BY SeedRowType, SeedFacts DEF TypeOK, SeedRow
  <2> HIDE DEF row
  <2>3. \A a \in Assets :
           /\ Registered(a)' <=> Registered(a) \/ a = Seeds[seed]
           /\ registry'[a] = IF a = Seeds[seed] /\ Keeps(Seeds[seed], row)
                             THEN row ELSE registry[a]
    BY <2>1, <2>2, WithRowFacts
  <2>4. Registered(Seeds[seed]) => registry[Seeds[seed]].rev <= clock
    BY <2>2 DEF RowInv
  <2>5. Keeps(Seeds[seed], row)
    BY <1>a, <2>2, <2>4 DEF Keeps, Row, Registered
  <2>6. ASSUME NEW a \in Assets, Registered(a)'
        PROVE  registry'[a].rev <= clock'
    <3>1. CASE a = Seeds[seed]
      BY <1>a, <2>1, <2>2, <2>3, <2>5, <3>1
    <3>2. CASE a # Seeds[seed]
      <4>1. Registered(a) /\ registry'[a] = registry[a]
        BY <2>3, <2>6, <3>2
      <4>2. registry[a].rev <= clock /\ registry[a].rev \in Nat
        BY <1>a, <4>1 DEF RowInv
      <4> QED
        BY <1>a, <2>1, <4>1, <4>2
    <3> QED
      BY <3>1, <3>2
  <2>7. ASSUME NEW call \in late, call.op = "row"
        PROVE  /\ call.row.by = "seed"
               /\ call.row.rev <= clock' /\ call.row.since <= clock'
               /\ Registered(call.arg)' /\ registry'[call.arg].by = "operator"
                     => call.row.since < registry'[call.arg].rev
    <3>1. call.arg \in Assets /\ call.row \in Row
      BY <2>7 DEF TypeOK, CallOK
    <3>2. /\ call.row.by = "seed" /\ call.row.rev <= clock /\ call.row.since <= clock
          /\ call.row.rev \in Nat /\ call.row.since \in Nat
      BY <2>7, <3>1 DEF RowInv, Row
    <3>3. CASE call.arg = Seeds[seed]
      BY <1>a, <2>1, <2>2, <2>3, <2>5, <3>1, <3>2, <3>3
    <3>4. CASE call.arg # Seeds[seed]
      BY <1>a, <2>1, <2>3, <2>7, <3>1, <3>2, <3>4 DEF RowInv
    <3> QED
      BY <3>3, <3>4
  <2>8. seen' <= clock'
    BY <1>a, <2>1
  <2> QED
    BY <2>1, <2>6, <2>7, <2>8 DEF RowInv, Registered
<1>6. CASE CallFails \/ Crash \/ \E r \in Releases : Deploy(r)
  <2>1. CASE CallFails /\ ~ up
    BY <1>a, <2>1, QuietRows DEF CallFails
  <2>2. CASE CallFails /\ up
    BY <2>2, CutOffRows DEF CallFails
  <2>3. CASE Crash
    BY <2>3, CutOffRows DEF Crash
  <2>4. CASE \E r \in Releases : Deploy(r)
    BY <2>4, CutOffRows DEF Deploy
  <2> QED
    BY <1>6, <2>1, <2>2, <2>3, <2>4
<1>7. ASSUME NEW call \in late, Land(call)
      PROVE  RowInv'
  <2>1. UNCHANGED <<process, clock>> /\ late' = late \ {call}
    BY <1>7 DEF Land
  <2>2. CASE call.op # "row"
    <3>1. UNCHANGED registry
      BY <1>7, <2>2 DEF Land
    <3> QED
      BY <2>1, <3>1 DEF RowInv, Registered, process
  <2>3. CASE call.op = "row"
    <3>1. call.arg \in Assets /\ call.row \in Row
      BY <2>3 DEF TypeOK, CallOK
    <3>2. \A a \in Assets :
             /\ Registered(a)' <=> Registered(a) \/ a = call.arg
             /\ registry'[a] = IF a = call.arg /\ Keeps(call.arg, call.row)
                               THEN call.row ELSE registry[a]
      BY <1>7, <2>3, <3>1, WithRowFacts DEF Land
    <3>3. call.row.by = "seed" /\ call.row.rev <= clock
      BY <2>3 DEF RowInv
    <3>4. ~ Registered(call.arg) => Keeps(call.arg, call.row)
      BY DEF Keeps, Registered
    <3>5. \A a \in Assets : Registered(a)' => registry'[a].rev <= clock
      BY <3>2, <3>3, <3>4 DEF RowInv
    <3>6. \A a \in Assets : Registered(a)' /\ registry'[a].by = "operator"
             => Registered(a) /\ registry'[a] = registry[a]
      BY <3>2, <3>3, <3>4
    <3>7. ASSUME NEW other \in late, other.op = "row"
          PROVE  /\ other.row.by = "seed"
                 /\ other.row.rev <= clock /\ other.row.since <= clock
                 /\ Registered(other.arg)' /\ registry'[other.arg].by = "operator"
                       => other.row.since < registry'[other.arg].rev
      <4>1. other.arg \in Assets
        BY <3>7 DEF TypeOK, CallOK
      <4> QED
        BY <3>6, <3>7, <4>1 DEF RowInv
    <3>8. pc \in {"host", "insert"} /\ Registered(Seeds[seed])'
             /\ registry'[Seeds[seed]].by = "operator"
             => seen < registry'[Seeds[seed]].rev
      <4>1. Seeds[seed] \in Assets /\ seed' = seed
        BY <2>1, SeedFacts DEF TypeOK, process
      <4> QED
        BY <3>6, <4>1 DEF RowInv, Registered
    <3> QED
      BY <2>1, <3>5, <3>7, <3>8 DEF RowInv, Registered, process
  <2> QED
    BY <2>2, <2>3
<1>8. ASSUME NEW b \in Assets, Administer(b)
      PROVE  RowInv'
  <2>1. /\ clock' = clock + 1 /\ UNCHANGED <<late, pc, seed, seen>>
        /\ registry' = [registry EXCEPT ![b] = OperatorRow]
        /\ registry[b] # None
    BY <1>8 DEF Administer, process
  <2>2. \A a \in Assets :
           registry'[a] = IF a = b THEN OperatorRow
                                   ELSE registry[a]
    BY <2>1 DEF TypeOK
  <2>a. OperatorRow.rev = clock + 1
    BY DEF OperatorRow
  <2>3. \A a \in Assets : Registered(a)' => Registered(a)
    BY <2>1, <2>2 DEF Registered
  <2>4. /\ \A a \in Assets : Registered(a)' => registry'[a].rev <= clock'
        /\ seen' <= clock'
    BY <1>a, <2>1, <2>2, <2>a, <2>3 DEF RowInv, Row
  <2>5. ASSUME NEW call \in late, call.op = "row"
        PROVE  /\ call.row.by = "seed"
               /\ call.row.rev <= clock' /\ call.row.since <= clock'
               /\ Registered(call.arg)' /\ registry'[call.arg].by = "operator"
                     => call.row.since < registry'[call.arg].rev
    <3>1. call.arg \in Assets /\ call.row \in Row
      BY <2>5 DEF TypeOK, CallOK
    <3>2. /\ call.row.by = "seed" /\ call.row.rev <= clock /\ call.row.since <= clock
          /\ call.row.rev \in Nat /\ call.row.since \in Nat
      BY <2>5, <3>1 DEF RowInv, Row
    <3>3. /\ call.row.rev <= clock + 1 /\ call.row.since <= clock + 1
          /\ call.row.since < clock + 1
      BY <1>a, <3>2
    <3>4. CASE call.arg = b
      BY <2>1, <2>2, <2>a, <3>1, <3>2, <3>3, <3>4
    <3>5. CASE call.arg # b
      <4>1. registry'[call.arg] = registry[call.arg]
        BY <2>2, <3>1, <3>5
      <4>2. Registered(call.arg) /\ registry[call.arg].by = "operator"
               => call.row.since < registry[call.arg].rev
        BY <2>5 DEF RowInv
      <4> QED
        BY <2>1, <3>2, <3>3, <4>1, <4>2 DEF Registered
    <3> QED
      BY <3>4, <3>5
  <2>6. pc' \in {"host", "insert"} /\ Registered(Seeds[seed])'
           /\ registry'[Seeds[seed']].by = "operator"
           => seen' < registry'[Seeds[seed']].rev
    <3>1. Seeds[seed] \in Assets
      BY SeedFacts DEF TypeOK
    <3>2. CASE Seeds[seed] = b
      BY <1>a, <2>1, <2>2, <2>a, <3>1, <3>2
    <3>3. CASE Seeds[seed] # b
      <4>1. registry'[Seeds[seed]] = registry[Seeds[seed]]
        BY <2>2, <3>1, <3>3
      <4>2. pc \in {"host", "insert"} /\ Registered(Seeds[seed])
               /\ registry[Seeds[seed]].by = "operator"
               => seen < registry[Seeds[seed]].rev
        BY DEF RowInv
      <4> QED
        BY <2>1, <4>1, <4>2 DEF Registered
    <3> QED
      BY <3>2, <3>3
  <2>7. \A call \in late' : call.op = "row" =>
           /\ call.row.by = "seed"
           /\ call.row.rev <= clock' /\ call.row.since <= clock'
           /\ Registered(call.arg)' /\ registry'[call.arg].by = "operator"
                 => call.row.since < registry'[call.arg].rev
    BY <2>1, <2>5
  <2> QED
    BY <2>4, <2>6, <2>7 DEF RowInv, Registered
<1>9. CASE Outage \/ Recovery \/ UNCHANGED vars
  <2>1. UNCHANGED <<registry, late, clock, process>>
    BY <1>9 DEF Outage, Recovery, vars, db
  <2> QED
    BY <2>1 DEF RowInv, Registered, process
<1> QED
  BY <1>1, <1>2, <1>3, <1>4, <1>5, <1>6, <1>7, <1>8, <1>9 DEF Next, Steps

\* What a step may make of an operator's row.
Outlives(a) ==
    LET old == registry[a]  new == registry'[a]
    IN  (old # None /\ old.by = "operator") =>
            /\ new # None
            /\ new.by = "seed" => new.since < old.rev /\ old.rev < new.rev

\* In every step an operator's row stays, unless the row of a start that looked
\* before it is put over it.
LEMMA OutlivesStep ==
    ASSUME TypeOK, RowInv, [Next]_vars, NEW a \in Assets
    PROVE  Outlives(a)
<1> SUFFICES ASSUME registry[a] # None, registry[a].by = "operator"
             PROVE  /\ registry'[a] # None
                    /\ registry'[a].by = "seed"
                          => /\ registry'[a].since < registry[a].rev
                             /\ registry[a].rev < registry'[a].rev
  BY DEF Outlives
<1>0. registry'[a] # None
  BY RegistryGrows DEF Registered
<1>a. clock \in Nat /\ registry[a].rev \in Nat /\ registry[a].rev <= clock
  BY DEF TypeOK, Row, RowInv, Registered
<1>1. CASE Insert
  <2>1. registry' = WithRow(Seeds[seed], SeedRow) /\ pc = "insert"
    BY <1>1 DEF Insert
  <2>2. CASE Seeds[seed] = a
    <3>1. seen < registry[a].rev
      BY <2>1, <2>2 DEF RowInv, Registered
    <3>2. SeedRow.since = seen /\ SeedRow.rev = clock + 1
      BY DEF SeedRow
    <3>3. registry'[a] = SeedRow \/ registry'[a] = registry[a]
      BY <2>1, <2>2, SeedFacts, SeedRowType, WithRowFacts DEF TypeOK
    <3>4. CASE registry'[a] = SeedRow
      <4>1. registry'[a].since = seen /\ registry'[a].rev = clock + 1
        BY <3>2, <3>4
      <4>2. registry[a].rev < clock + 1
        BY <1>a
      <4> QED
        BY <1>0, <3>1, <4>1, <4>2
    <3>5. CASE registry'[a] = registry[a]
      BY <3>5
    <3> QED
      BY <1>0, <3>3, <3>4, <3>5
  <2>3. CASE Seeds[seed] # a
    BY <2>1, <2>3, SeedFacts, SeedRowType, WithRowFacts DEF TypeOK
  <2> QED
    BY <1>0, <2>2, <2>3
<1>2. ASSUME NEW call \in late, Land(call)
      PROVE  registry'[a].by = "seed"
                => /\ registry'[a].since < registry[a].rev
                   /\ registry[a].rev < registry'[a].rev
  <2>1. CASE call.op = "row" /\ call.arg = a
    <3>1. call.row.since < registry[a].rev
      BY <2>1 DEF RowInv, Registered
    <3>2. registry' = WithRow(a, call.row)
      BY <1>2, <2>1 DEF Land
    <3>3. CASE Keeps(a, call.row)
      <4>1. registry'[a] = call.row
        BY <3>2, <3>3 DEF WithRow, TypeOK
      <4> QED
        BY <3>1, <3>3, <4>1 DEF Keeps
    <3>4. CASE ~ Keeps(a, call.row)
      BY <3>2, <3>4 DEF WithRow
    <3> QED
      BY <3>3, <3>4
  <2>2. CASE call.op = "row" /\ call.arg # a
    <3>1. call.arg \in Assets /\ call.row \in Row
      BY <2>2 DEF TypeOK, CallOK
    <3> QED
      BY <1>2, <2>2, <3>1, WithRowFacts DEF Land
  <2>3. CASE call.op # "row"
    BY <1>2, <2>3 DEF Land
  <2> QED
    BY <2>1, <2>2, <2>3
<1>3. ASSUME NEW b \in Assets, Administer(b)
      PROVE  registry'[a].by = "operator"
  BY <1>3 DEF Administer, TypeOK, OperatorRow
<1>4. CASE registry' = registry
  BY <1>4
<1> QED
  BY <1>0, <1>1, <1>2, <1>3, <1>4
  DEF Next, Steps, Start, Execute, ReadLedger, Record, Ping, Lookup, LookupHost,
      Announce, CallFails, Crash, Deploy, Outage, Recovery, vars, db

\* An operator's change of a row outlives every start that looks the entry up after
\* it, and every insert of an earlier start that reaches the database before it,
\* whatever fails and whatever is executed late.
THEOREM EditsOutliveEveryStart == Spec => EditsOutliveStarts
<1>1. Init => RowInv
  BY DEF Init, RowInv, Registered
<1>2. TypeOK /\ RowInv /\ [Next]_vars => [\A a \in Assets : Outlives(a)]_vars
  BY OutlivesStep
<1>3. [\A a \in Assets : Outlives(a)]_vars
         => [\A a \in Assets :
               LET old == registry[a]  new == registry'[a]
               IN  (old # None /\ old.by = "operator") =>
                       /\ new # None
                       /\ new.by = "seed" => new.since < old.rev /\ old.rev < new.rev]_vars
  BY DEF Outlives
<1> QED
  BY <1>1, <1>2, <1>3, TypeCorrect, NextRowInv, PTL DEF Spec, EditsOutliveStarts
=============================================================================

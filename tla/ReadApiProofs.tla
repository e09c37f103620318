---------------------------- MODULE ReadApiProofs ----------------------------
(***************************************************************************)
(* For any registry, reports, requests and configurations, and however the *)
(* reads of a route interleave with ingestion, projection, time and        *)
(* outages: a server that runs names one identity per key, leaving signals *)
(* out never makes an asset look worse, an asset shown offline was silent  *)
(* or hidden by a late heartbeat, an absence that is answered is real, the *)
(* monitor page does not go back in time and keeps the notable events, and *)
(* no body over the limit is passed on.                                    *)
(***************************************************************************)
EXTENDS ReadApi, FiniteSetTheorems, WellFoundedInduction, TLAPS

-----------------------------------------------------------------------------
(* The greatest of some places *)

\* A set of numbers has a least element.
LEMMA Least ==
    ASSUME NEW T \in SUBSET Nat, T # {}
    PROVE  \E x \in T : \A y \in T : x <= y
<1> DEFINE R == {ss \in Nat \X Nat : ss[1] < ss[2]}
<1>1. R = OpToRel(<, Nat)
  BY DEF OpToRel
<1>2. IsWellFoundedOn(R, Nat)
  BY <1>1, NatLessThanWellFounded
<1> HIDE DEF R
<1>3. PICK x \in T : \A y \in T : ~ (<<y, x>> \in R)
  BY <1>2, WFMin
<1>4. \A m, n \in Nat : m < n => <<m, n>> \in R
  BY DEF R
<1>5. ASSUME NEW y \in T
      PROVE  x <= y
  <2>1. x \in Nat /\ y \in Nat
    OBVIOUS
  <2>2. ~ (y < x)
    BY <1>3, <1>4, <2>1
  <2> QED
    BY <2>1, <2>2
<1> QED
  BY <1>5

\* A bounded one has a greatest.
LEMMA Greatest ==
    ASSUME NEW n \in Nat, NEW T \in SUBSET (0..n), T # {}
    PROVE  \E x \in T : \A y \in T : y <= x
<1> DEFINE D == {n - y : y \in T}
<1>1. D \in SUBSET Nat /\ D # {}
  <2>1. \A y \in T : n - y \in Nat
    OBVIOUS
  <2>2. PICK y \in T : TRUE
    OBVIOUS
  <2>3. n - y \in D
    OBVIOUS
  <2> QED
    BY <2>1, <2>3
<1>2. PICK d \in D : \A e \in D : d <= e
  BY <1>1, Least
<1>3. PICK x \in T : d = n - x
  OBVIOUS
<1>4. \A y \in T : n - y \in D
  OBVIOUS
<1> HIDE DEF D
<1> QED
  BY <1>2, <1>3, <1>4
-----------------------------------------------------------------------------
(* Keys *)

\* A credential is given the identity of one of the bindings it matches.
LEMMA AuthenticateFacts ==
    ASSUME NEW c \in Configs, NEW key
    PROVE  \/ Keys!Authenticate(c, key) = None
           \/ \E i \in DOMAIN c.keys :
                 /\ c.keys[i].key = key /\ key \notin {None, Blank}
                 /\ Keys!Authenticate(c, key) = c.keys[i].collector
<1> DEFINE match == {i \in DOMAIN c.keys : c.keys[i].key = key}
<1>1. CASE key \in {None, Blank} \/ match = {}
  BY <1>1 DEF Keys!Authenticate
<1>2. CASE key \notin {None, Blank} /\ match # {}
  <2>1. Len(c.keys) \in Nat /\ match \in SUBSET (0..Len(c.keys))
    BY ReadAssumption
  <2>2. \E i \in match : \A j \in match : j <= i
    BY <1>2, <2>1, Greatest
  <2>3. PICK i \in match : i = CHOOSE k \in match : \A j \in match : j <= k
    BY <2>2
  <2>4. Keys!Authenticate(c, key) = c.keys[i].collector
    BY <1>2, <2>3 DEF Keys!Authenticate
  <2> QED
    BY <1>2, <2>4
<1> QED
  BY <1>1, <1>2

\* A key that is bound is given its identity.
LEMMA BoundFacts ==
    ASSUME NEW c \in Configs, Keys!Serves(c), NEW i \in DOMAIN c.keys
    PROVE  Keys!Authenticate(c, c.keys[i].key) = c.keys[i].collector
<1> DEFINE key == c.keys[i].key
           match == {k \in DOMAIN c.keys : c.keys[k].key = key}
<1>1. ~ Keys!Malformed(c.keys)
  BY DEF Keys!Serves, Keys!Problems
<1>2. key \notin {None, Blank}
  BY <1>1, ReadAssumption DEF Keys!Malformed
<1>3. i \in match
  OBVIOUS
<1>4. Len(c.keys) \in Nat /\ match \in SUBSET (0..Len(c.keys))
  BY ReadAssumption
<1>5. \E k \in match : \A j \in match : j <= k
  BY <1>3, <1>4, Greatest
<1>6. PICK k \in match : k = CHOOSE n \in match : \A j \in match : j <= n
  BY <1>5
<1>7. Keys!Authenticate(c, key) = c.keys[k].collector
  BY <1>2, <1>3, <1>6 DEF Keys!Authenticate
<1>8. c.keys[k].collector = c.keys[i].collector
  BY <1>1, <1>6 DEF Keys!Malformed, Keys!Shared
<1> QED
  BY <1>7, <1>8

\* The configuration stays; a route that reads is public or has a credential, and
\* every other one is refused before it has read anything.
Passed == request.route \in Public \/ Keys!Authenticate(config, request.key) # None
KeyInv ==
    /\ config \in Configs
    /\ phase # "exited" => Keys!Serves(config)
    /\ phase \in {"idle", "body", "auth"} => page = <<>>
    /\ phase = "reads" => Passed
    /\ phase = "answered" =>
          \/ Passed
          \/ status \in {400, 401, 413, 422} /\ page = <<>>

LEMMA NextKeyInv == KeyInv /\ [Next]_vars => KeyInv'
<1> SUFFICES ASSUME KeyInv, [Next]_vars PROVE KeyInv'
  OBVIOUS
<1> USE DEF KeyInv, Passed
<1>1. CASE Ingest \/ ProjectInventory \/ Tick \/ Outage \/ Recovery
  BY <1>1 DEF Ingest, ProjectInventory, Tick, Outage, Recovery
<1>2. ASSUME NEW r \in Requests, Arrive(r) PROVE KeyInv'
  BY <1>2 DEF Arrive, Reply
<1>3. CASE ReceiveBody
  BY <1>3 DEF ReceiveBody, Reply
<1>4. CASE Authorize
  BY <1>4 DEF Authorize, Reply
<1>5. CASE ReadNext
  BY <1>5 DEF ReadNext, Reply
<1>6. CASE ReadFails
  BY <1>6 DEF ReadFails, Reply
<1>7. CASE Finish
  BY <1>7 DEF Finish, Reply
<1>8. CASE UNCHANGED vars
  BY <1>8 DEF vars
<1> QED
  BY <1>1, <1>2, <1>3, <1>4, <1>5, <1>6, <1>7, <1>8 DEF Next, Serve

\* A server that runs knows each key by one identity, and reads nothing for a
\* protected route without a known key, for any bindings and any request.
THEOREM KeysAreIdentities == Spec => []KeysNameOneIdentity
<1>1. Init => KeyInv
  BY DEF Init, KeyInv
<1>2. KeyInv => KeysNameOneIdentity
  <2> SUFFICES ASSUME KeyInv, phase # "exited"
               PROVE  /\ config.keys # <<>>
                      /\ \A i \in DOMAIN config.keys :
                            Keys!Authenticate(config, config.keys[i].key)
                                = config.keys[i].collector
                      /\ Answered /\ request.route \notin Public
                         => \/ \E i \in DOMAIN config.keys :
                                   config.keys[i].key = request.key
                            \/ status \in {400, 401, 413, 422} /\ page = <<>>
    BY DEF KeysNameOneIdentity
  <2>1. config \in Configs /\ Keys!Serves(config)
    BY DEF KeyInv
  <2>2. config.keys # <<>>
    BY <2>1 DEF Keys!Serves, Keys!Problems
  <2>3. \A i \in DOMAIN config.keys :
            Keys!Authenticate(config, config.keys[i].key) = config.keys[i].collector
    BY <2>1, BoundFacts
  <2>4. ASSUME Answered, request.route \notin Public,
               ~ (status \in {400, 401, 413, 422} /\ page = <<>>)
        PROVE  \E i \in DOMAIN config.keys : config.keys[i].key = request.key
    <3>1. Keys!Authenticate(config, request.key) # None
      BY <2>4 DEF KeyInv, Passed, Answered
    <3> QED
      BY <3>1, <2>1, AuthenticateFacts
  <2> QED
    BY <2>2, <2>3, <2>4
<1> QED
  BY <1>1, <1>2, NextKeyInv, PTL DEF Spec
-----------------------------------------------------------------------------
(* Health *)

\* Fewer signals at or over the thresholds, and no less severe is no health.
LEMMA SeverityFacts ==
    ASSUME NEW beat, NEW m, NEW n, NEW t,
           Over(n, CriticalAt) \subseteq Over(m, CriticalAt),
           Over(n, WarningAt) \subseteq Over(m, WarningAt)
    PROVE  Severity(Health(beat, n, t)) <= Severity(Health(beat, m, t))
<1>1. Connectivity(beat, t) \in {"offline", "unknown", "online"}
  BY DEF Connectivity
<1>2. CASE Connectivity(beat, t) # "online"
  <2>1. Health(beat, n, t) = Health(beat, m, t)
        /\ Health(beat, m, t) \in {"Offline", "Unknown"}
    BY <1>1, <1>2 DEF Health
  <2> QED
    BY <2>1 DEF Severity
<1>3. CASE Connectivity(beat, t) = "online"
  <2> DEFINE Judged(k) == IF Over(k, CriticalAt) # {} THEN "Critical"
                          ELSE IF \/ Stale(beat, t) \/ Failing(beat)
                                  \/ Over(k, WarningAt) # {} THEN "Warning"
                          ELSE "Healthy"
  <2>1. Health(beat, n, t) = Judged(n) /\ Health(beat, m, t) = Judged(m)
    BY <1>3 DEF Health
  <2>2. Severity("Healthy") = 1 /\ Severity("Warning") = 2 /\ Severity("Critical") = 3
    BY DEF Severity
  <2>3. Judged(m) = "Warning" => Judged(n) \in {"Healthy", "Warning"}
    OBVIOUS
  <2>4. Judged(m) = "Healthy" => Judged(n) = "Healthy"
    OBVIOUS
  <2>5. Judged(m) \in {"Healthy", "Warning", "Critical"}
        /\ Judged(n) \in {"Healthy", "Warning", "Critical"}
    OBVIOUS
  <2> HIDE DEF Judged
  <2> QED
    BY <2>1, <2>2, <2>3, <2>4, <2>5
<1> QED
  BY <1>2, <1>3

\* Leaving signals out never makes the health worse, for any thresholds and any
\* measurements.
THEOREM MissingNeverHurts == Spec => []MissingIsNotPenalised
<1>1. MissingIsNotPenalised
  <2> SUFFICES ASSUME NEW id \in Viewed, ViewMetrics(id) # None,
                      NEW some \in SUBSET DOMAIN ViewMetrics(id)
               PROVE  Severity(Health(ViewHeartbeat(id),
                                      [s \in some |-> ViewMetrics(id)[s]], ViewTime(id)))
                          <= Severity(ViewHealth(id))
    BY DEF MissingIsNotPenalised
  <2> DEFINE m == ViewMetrics(id)
             n == [s \in some |-> m[s]]
  <2>1. \A threshold : Over(n, threshold) \subseteq Over(m, threshold)
    BY DEF Over
  <2> HIDE DEF m, n
  <2>2. Severity(Health(ViewHeartbeat(id), n, ViewTime(id)))
            <= Severity(Health(ViewHeartbeat(id), m, ViewTime(id)))
    BY <2>1, SeverityFacts
  <2> QED
    BY <2>2 DEF ViewHealth, m, n
<1> QED
  BY <1>1, PTL
-----------------------------------------------------------------------------
(* The reads a route makes *)

\* What is in a sequence, and in one that begins or ends with another.
In(s) == {s[k] : k \in 1..Len(s)}

IsList(s) == Len(s) \in Nat /\ s \in Seq(In(s))

LEMMA ListFacts ==
    ASSUME NEW S, NEW s \in Seq(S)
    PROVE  /\ Len(s) \in Nat /\ In(s) \subseteq S /\ s \in Seq(In(s))
           /\ s # <<>> => /\ Head(s) \in In(s) /\ Tail(s) \in Seq(In(s))
                          /\ Head(s) = s[1] /\ Len(s) >= 1
                          /\ Len(Tail(s)) = Len(s) - 1
                          /\ \A k \in 1..Len(Tail(s)) : Tail(s)[k] = s[k + 1]
                          /\ In(s) = {Head(s)} \cup In(Tail(s))
<1>1. Len(s) \in Nat /\ DOMAIN s = 1..Len(s) /\ \A k \in 1..Len(s) : s[k] \in S
  OBVIOUS
<1>2. s \in Seq(In(s))
  BY <1>1 DEF In
<1>3. ASSUME s # <<>>
      PROVE  /\ Head(s) \in In(s) /\ Tail(s) \in Seq(In(s))
             /\ Head(s) = s[1] /\ Len(s) >= 1
             /\ Len(Tail(s)) = Len(s) - 1
             /\ \A k \in 1..Len(Tail(s)) : Tail(s)[k] = s[k + 1]
             /\ In(s) = {Head(s)} \cup In(Tail(s))
  <2>1. Len(s) >= 1 /\ Head(s) = s[1] /\ Len(Tail(s)) = Len(s) - 1
        /\ Tail(s) \in Seq(In(s))
        /\ \A k \in 1..Len(Tail(s)) : Tail(s)[k] = s[k + 1]
    BY <1>1, <1>2, <1>3
  <2>2. Head(s) \in In(s)
    BY <2>1, <1>1 DEF In
  <2>3. ASSUME NEW k \in 1..Len(s) PROVE s[k] \in {Head(s)} \cup In(Tail(s))
    <3>1. CASE k = 1
      BY <3>1, <2>1
    <3>2. CASE k # 1
      <4>1. k - 1 \in 1..Len(Tail(s)) /\ Tail(s)[k - 1] = s[k]
        BY <3>2, <2>1, <1>1
      <4> QED
        BY <4>1 DEF In
    <3> QED
      BY <3>1, <3>2
  <2>4. ASSUME NEW k \in 1..Len(Tail(s)) PROVE Tail(s)[k] \in In(s)
    <3>1. k + 1 \in 1..Len(s) /\ Tail(s)[k] = s[k + 1]
      BY <2>1, <1>1
    <3> QED
      BY <3>1 DEF In
  <2>5. In(s) = {Head(s)} \cup In(Tail(s))
    <3>1. \A e \in In(s) : e \in {Head(s)} \cup In(Tail(s))
      BY <2>3 DEF In
    <3>2. \A e \in In(Tail(s)) : e \in In(s)
      BY <2>4 DEF In
    <3> QED
      BY <3>1, <3>2, <2>2
  <2> QED
    BY <2>1, <2>2, <2>5
<1>4. In(s) \subseteq S
  BY <1>1 DEF In
<1> QED
  BY <1>1, <1>2, <1>3, <1>4

LEMMA JoinFacts ==
    ASSUME NEW s, NEW t, s \in Seq(In(s)), t \in Seq(In(t))
    PROVE  /\ In(s \o t) = In(s) \cup In(t)
           /\ s \o t \in Seq(In(s \o t))
           /\ Len(s \o t) = Len(s) + Len(t) /\ Len(s) \in Nat /\ Len(t) \in Nat
           /\ \A k \in 1..Len(s) : (s \o t)[k] = s[k]
           /\ \A k \in 1..Len(t) : (s \o t)[Len(s) + k] = t[k]
<1> DEFINE u == s \o t
<1>1. Len(s) \in Nat /\ Len(t) \in Nat /\ Len(u) = Len(s) + Len(t)
  OBVIOUS
<1>2. /\ \A k \in 1..Len(s) : u[k] = s[k]
      /\ \A k \in 1..Len(t) : u[Len(s) + k] = t[k]
  BY <1>1
<1>3. u \in Seq(In(s) \cup In(t))
  <2>1. s \in Seq(In(s) \cup In(t)) /\ t \in Seq(In(s) \cup In(t))
    OBVIOUS
  <2> QED
    BY <2>1
<1>4. In(u) \subseteq In(s) \cup In(t) /\ u \in Seq(In(u))
  BY <1>3, ListFacts
<1>5. ASSUME NEW k \in 1..Len(s) PROVE s[k] \in In(u)
  <2>1. k \in 1..Len(u) /\ u[k] = s[k]
    BY <1>1, <1>2
  <2> QED
    BY <2>1 DEF In
<1>6. ASSUME NEW k \in 1..Len(t) PROVE t[k] \in In(u)
  <2>1. Len(s) + k \in 1..Len(u) /\ u[Len(s) + k] = t[k]
    BY <1>1, <1>2
  <2> QED
    BY <2>1 DEF In
<1>7. In(s) \cup In(t) \subseteq In(u)
  BY <1>5, <1>6 DEF In
<1> QED
  BY <1>1, <1>2, <1>4, <1>7

\* What is in the sequences a route puts together.
LEMMA TupleFacts ==
    /\ In(<<>>) = {} /\ <<>> \in Seq(In(<<>>))
    /\ \A a : In(<<a>>) = {a} /\ <<a>> \in Seq(In(<<a>>))
    /\ \A a, b : In(<<a, b>>) = {a, b} /\ <<a, b>> \in Seq(In(<<a, b>>))
    /\ \A a, b, c : In(<<a, b, c>>) = {a, b, c} /\ <<a, b, c>> \in Seq(In(<<a, b, c>>))
<1>1. In(<<>>) = {} /\ <<>> \in Seq(In(<<>>))
  BY DEF In
<1>2. ASSUME NEW a PROVE In(<<a>>) = {a} /\ <<a>> \in Seq(In(<<a>>))
  <2>1. <<a>> \in Seq({a}) /\ Len(<<a>>) = 1 /\ <<a>>[1] = a
    OBVIOUS
  <2>2. In(<<a>>) = {a}
    BY <2>1 DEF In
  <2> QED
    BY <2>1, <2>2
<1>3. ASSUME NEW a, NEW b PROVE In(<<a, b>>) = {a, b} /\ <<a, b>> \in Seq(In(<<a, b>>))
  <2>1. <<a, b>> \in Seq({a, b}) /\ Len(<<a, b>>) = 2
        /\ <<a, b>>[1] = a /\ <<a, b>>[2] = b
    OBVIOUS
  <2>2. 1..2 = {1, 2}
    OBVIOUS
  <2>3. In(<<a, b>>) = {a, b}
    BY <2>1, <2>2 DEF In
  <2> QED
    BY <2>1, <2>3
<1>4. ASSUME NEW a, NEW b, NEW c
      PROVE  In(<<a, b, c>>) = {a, b, c} /\ <<a, b, c>> \in Seq(In(<<a, b, c>>))
  <2>1. <<a, b, c>> \in Seq({a, b, c}) /\ Len(<<a, b, c>>) = 3
        /\ <<a, b, c>>[1] = a /\ <<a, b, c>>[2] = b /\ <<a, b, c>>[3] = c
    OBVIOUS
  <2>2. 1..3 = {1, 2, 3}
    OBVIOUS
  <2>3. In(<<a, b, c>>) = {a, b, c}
    BY <2>1, <2>2 DEF In
  <2> QED
    BY <2>1, <2>3
<1> QED
  BY <1>1, <1>2, <1>3, <1>4

\* The reads of the views of some assets.
Views(S) == {Read("view", type, id) : type \in {"heartbeat", "system_metrics"}, id \in S}

LEMMA ViewFacts ==
    ASSUME NEW id
    PROVE  /\ In(ViewReads(id)) = Views({id}) /\ ViewReads(id) \in Seq(In(ViewReads(id)))
           /\ ViewReads(id)[1] = Read("view", "heartbeat", id)
           /\ ViewReads(id)[2] = Read("view", "system_metrics", id)
BY TupleFacts DEF ViewReads, Views

LEMMA FleetFacts ==
    /\ In(FleetReads) = {Read("registry", "assets", None)} \cup Views(Ids)
    /\ FleetReads \in Seq(In(FleetReads))
<1> DEFINE n == Len(Registry)
           v == [i \in 1..(2 * n) |->
                    ViewReads(Registry[(i + 1) \div 2].id)[IF i % 2 = 1 THEN 1 ELSE 2]]
<1>1. n \in Nat /\ DOMAIN Registry = 1..n
  BY ReadAssumption
<1>2. \A i \in 1..(2 * n) : (i + 1) \div 2 \in 1..n
  BY <1>1
<1>3. ASSUME NEW i \in 1..(2 * n) PROVE v[i] \in Views(Ids)
  <2>1. Registry[(i + 1) \div 2].id \in Ids
    BY <1>1, <1>2 DEF Ids
  <2> QED
    BY <2>1, ViewFacts DEF Views
<1>4. v \in Seq(Views(Ids)) /\ Len(v) = 2 * n
  BY <1>1, <1>3
<1>5. ASSUME NEW id \in Ids, NEW type \in {"heartbeat", "system_metrics"}
      PROVE  Read("view", type, id) \in In(v)
  <2>1. PICK i \in 1..n : Registry[i].id = id
    BY <1>1 DEF Ids
  <2>2. /\ 2 * i - 1 \in 1..(2 * n) /\ (2 * i - 1) % 2 = 1
        /\ ((2 * i - 1) + 1) \div 2 = i
        /\ 2 * i \in 1..(2 * n) /\ (2 * i) % 2 # 1 /\ (2 * i + 1) \div 2 = i
    BY <1>1, <2>1
  <2>3. v[2 * i - 1] = Read("view", "heartbeat", id)
        /\ v[2 * i] = Read("view", "system_metrics", id)
    BY <2>1, <2>2, ViewFacts
  <2> QED
    BY <2>2, <2>3, <1>4 DEF In
<1>6. FleetReads = <<Read("registry", "assets", None)>> \o v
  BY DEF FleetReads
<1> HIDE DEF v
<1>7. In(v) = Views(Ids) /\ v \in Seq(In(v))
  <2>1. In(v) \subseteq Views(Ids) /\ v \in Seq(In(v))
    BY <1>4, ListFacts
  <2>2. ASSUME NEW q \in Views(Ids) PROVE q \in In(v)
    <3>1. PICK type \in {"heartbeat", "system_metrics"}, id \in Ids :
             q = Read("view", type, id)
      BY DEF Views
    <3> QED
      BY <3>1, <1>5
  <2> QED
    BY <2>1, <2>2
<1> DEFINE head == <<Read("registry", "assets", None)>>
<1>8. In(head) = {Read("registry", "assets", None)} /\ head \in Seq(In(head))
  BY TupleFacts
<1>9. FleetReads = head \o v
  BY <1>6
<1> HIDE DEF head
<1>10. In(head \o v) = In(head) \cup In(v) /\ head \o v \in Seq(In(head \o v))
  BY <1>7, <1>8, JoinFacts
<1> QED
  BY <1>7, <1>8, <1>9, <1>10

LEMMA AssetFacts ==
    ASSUME NEW id
    PROVE  /\ In(AssetReads(id)) = {Read("registry", "asset", id)} \cup Views({id})
           /\ AssetReads(id) \in Seq(In(AssetReads(id)))
<1> DEFINE head == <<Read("registry", "asset", id)>>
           tail == ViewReads(id)
<1>1. AssetReads(id) = head \o tail
  BY DEF AssetReads
<1>2. In(head) = {Read("registry", "asset", id)} /\ head \in Seq(In(head))
  BY TupleFacts
<1>3. In(tail) = Views({id}) /\ tail \in Seq(In(tail))
  BY ViewFacts
<1> HIDE DEF head, tail
<1>4. In(head \o tail) = In(head) \cup In(tail)
      /\ head \o tail \in Seq(In(head \o tail))
  BY <1>2, <1>3, JoinFacts
<1> QED
  BY <1>1, <1>2, <1>3, <1>4

\* The views are read before the host section, and both before the recent events.
Before(a, b) ==
    \/ a.part = "view" /\ b.part = "host"
    \/ a.part \in {"view", "host"} /\ b.type = "recent"
Ordered(s) == \A j, k \in 1..Len(s) : Before(s[k], s[j]) => k < j

LEMMA OrderedJoin ==
    ASSUME NEW s, NEW t, s \in Seq(In(s)), t \in Seq(In(t)), Ordered(s), Ordered(t),
           \A q \in In(t), p \in In(s) : ~ Before(q, p)
    PROVE  Ordered(s \o t)
<1> DEFINE u == s \o t
<1>1. /\ Len(u) = Len(s) + Len(t) /\ Len(s) \in Nat /\ Len(t) \in Nat
      /\ \A k \in 1..Len(s) : u[k] = s[k]
      /\ \A k \in 1..Len(t) : u[Len(s) + k] = t[k]
  BY JoinFacts
<1> HIDE DEF u
<1>2. (\A k \in 1..Len(s) : s[k] \in In(s)) /\ (\A k \in 1..Len(t) : t[k] \in In(t))
  BY DEF In
<1>3. ASSUME NEW j \in 1..Len(u), NEW k \in 1..Len(u), Before(u[k], u[j])
      PROVE  k < j
  <2>1. CASE k <= Len(s) /\ j <= Len(s)
    <3>1. k \in 1..Len(s) /\ j \in 1..Len(s) /\ u[k] = s[k] /\ u[j] = s[j]
      BY <2>1, <1>1
    <3> QED
      BY <3>1, <1>3 DEF Ordered
  <2>2. CASE k <= Len(s) /\ j > Len(s)
    BY <2>2, <1>1
  <2>3. CASE k > Len(s) /\ j <= Len(s)
    <3>1. /\ k - Len(s) \in 1..Len(t) /\ u[k] = t[k - Len(s)]
          /\ j \in 1..Len(s) /\ u[j] = s[j]
      BY <2>3, <1>1
    <3> QED
      BY <3>1, <1>2, <1>3
  <2>4. CASE k > Len(s) /\ j > Len(s)
    <3>1. k - Len(s) \in 1..Len(t) /\ u[k] = t[k - Len(s)]
      BY <2>4, <1>1
    <3>2. j - Len(s) \in 1..Len(t) /\ u[j] = t[j - Len(s)]
      BY <2>4, <1>1
    <3>3. k - Len(s) < j - Len(s)
      BY <3>1, <3>2, <1>3 DEF Ordered
    <3> QED
      BY <3>3, <1>1
  <2> QED
    BY <2>1, <2>2, <2>3, <2>4, <1>1
<1> QED
  BY <1>3 DEF Ordered, u

LEMMA OrderedWithout ==
    ASSUME NEW s, s \in Seq(In(s)), \A p, q \in In(s) : ~ Before(q, p)
    PROVE  Ordered(s)
BY DEF Ordered, In

\* What the routes read, as far as the properties ask.
PlaceTypes == {"heartbeat", "system_metrics", "docker_status", "host_inventory"}
Fits(r, q) ==
    /\ q.type = "asset" => q.of = r.of /\ q.part = "registry"
    /\ q.part \in {"view", "host"} => q.type \in PlaceTypes
    /\ q.part = "page" /\ q.type = "docker_status" => r.route = "docker"
    /\ q.part = "page" /\ q.type = "host_inventory" => r.route = "inventory"
    /\ q.part = "page" /\ q.type = "mission" => r.route = "mission"

\* A list of reads that may be the rest of a route's.
Plan(r, s) ==
    /\ s \in Seq(In(s))
    /\ \A q \in In(s) : Fits(r, q)
    /\ Ordered(s)
    /\ \A id : Read("view", "system_metrics", id) \in In(s)
                   => Read("view", "heartbeat", id) \in In(s)

LEMMA ViewsPaired ==
    ASSUME NEW S, NEW id
    PROVE  /\ Read("view", "system_metrics", id) \in Views(S)
                  => Read("view", "heartbeat", id) \in Views(S)
           /\ \A q \in Views(S) : q.part = "view" /\ q.type \in {"heartbeat", "system_metrics"}
<1>1. ASSUME NEW q \in Views(S)
      PROVE  \E type \in {"heartbeat", "system_metrics"}, i \in S : q = Read("view", type, i)
  BY DEF Views
<1>2. ASSUME NEW q \in Views(S)
      PROVE  q.part = "view" /\ q.type \in {"heartbeat", "system_metrics"}
  <2>1. PICK type \in {"heartbeat", "system_metrics"}, i \in S : q = Read("view", type, i)
    BY <1>1
  <2> QED
    BY <2>1 DEF Read
<1>3. ASSUME Read("view", "system_metrics", id) \in Views(S)
      PROVE  Read("view", "heartbeat", id) \in Views(S)
  <2>1. PICK type \in {"heartbeat", "system_metrics"}, i \in S :
           Read("view", "system_metrics", id) = Read("view", type, i)
    BY <1>1, <1>3
  <2>2. id = i
    <3>1. Read("view", "system_metrics", id).of = Read("view", type, i).of
      BY <2>1
    <3> QED
      BY <3>1 DEF Read
  <2> QED
    BY <2>2 DEF Views
<1> QED
  BY <1>2, <1>3

\* A plan stays one when other reads follow.
LEMMA PlanJoin ==
    ASSUME NEW r, NEW s, NEW t, Plan(r, s), t \in Seq(In(t)),
           \A q \in In(t) : q.part # "view" /\ Fits(r, q),
           Ordered(t), \A q \in In(t), p \in In(s) : ~ Before(q, p)
    PROVE  Plan(r, s \o t)
<1>1. /\ In(s \o t) = In(s) \cup In(t)
      /\ s \o t \in Seq(In(s \o t))
  BY JoinFacts DEF Plan
<1>2. Ordered(s \o t)
  BY OrderedJoin DEF Plan
<1>3. \A id : Read("view", "system_metrics", id) \notin In(t)
  BY DEF Read
<1> QED
  BY <1>1, <1>2, <1>3 DEF Plan

LEMMA FleetPlan ==
    ASSUME NEW r
    PROVE  Plan(r, FleetReads)
<1>1. ASSUME NEW q \in In(FleetReads) PROVE q.part # "host" /\ q.type # "recent" /\ Fits(r, q)
  <2>1. q = Read("registry", "assets", None) \/ q \in Views(Ids)
    BY FleetFacts
  <2>2. CASE q = Read("registry", "assets", None)
    BY <2>2 DEF Fits, Read
  <2>3. CASE q \in Views(Ids)
    BY <2>3, ViewsPaired DEF Fits, PlaceTypes
  <2> QED
    BY <2>1, <2>2, <2>3
<1>2. Ordered(FleetReads)
  BY <1>1, FleetFacts, OrderedWithout DEF Before
<1>3. ASSUME NEW id, Read("view", "system_metrics", id) \in In(FleetReads)
      PROVE  Read("view", "heartbeat", id) \in In(FleetReads)
  BY <1>3, FleetFacts, ViewsPaired DEF Read
<1> QED
  BY <1>1, <1>2, <1>3, FleetFacts DEF Plan

LEMMA AssetPlan ==
    ASSUME NEW r
    PROVE  Plan(r, AssetReads(r.of))
<1>1. ASSUME NEW q \in In(AssetReads(r.of)) PROVE q.part # "host" /\ q.type # "recent" /\ Fits(r, q)
  <2>1. q = Read("registry", "asset", r.of) \/ q \in Views({r.of})
    BY AssetFacts
  <2>2. CASE q = Read("registry", "asset", r.of)
    BY <2>2 DEF Fits, Read
  <2>3. CASE q \in Views({r.of})
    BY <2>3, ViewsPaired DEF Fits, PlaceTypes
  <2> QED
    BY <2>1, <2>2, <2>3
<1>2. Ordered(AssetReads(r.of))
  BY <1>1, AssetFacts, OrderedWithout DEF Before
<1>3. ASSUME NEW id, Read("view", "system_metrics", id) \in In(AssetReads(r.of))
      PROVE  Read("view", "heartbeat", id) \in In(AssetReads(r.of))
  BY <1>3, AssetFacts, ViewsPaired DEF Read
<1> QED
  BY <1>1, <1>2, <1>3, AssetFacts DEF Plan

\* A single read of the page.
LEMMA SinglePlan ==
    ASSUME NEW r, NEW q, q.part # "view", q.part # "host", Fits(r, q)
    PROVE  Plan(r, <<q>>)
<1>1. In(<<q>>) = {q} /\ <<q>> \in Seq(In(<<q>>))
  BY TupleFacts
<1>2. Ordered(<<q>>)
  BY <1>1, OrderedWithout DEF Before
<1>3. \A id : Read("view", "system_metrics", id) \notin In(<<q>>)
  BY <1>1 DEF Read
<1> QED
  BY <1>1, <1>2, <1>3 DEF Plan

LEMMA MonitorPlan ==
    ASSUME NEW r
    PROVE  Plan(r, MonitorReads)
<1> DEFINE first == <<Read("page", "missions", None), Read("page", "ping", None)>>
           second == HostReads
           third == <<Read("page", "recent", None)>>
           last == IF Agent = None THEN <<>> ELSE <<Read("agent", "agent_status", Agent)>>
           OK(t) == t \in Seq(In(t)) /\ \A q \in In(t) : q.part # "view" /\ Fits(r, q)
           Off(t) == \A q \in In(t) : q.part \notin {"view", "host"}
<1>1. OK(first) /\ Off(first) /\ \A q \in In(first) : q.type # "recent"
  <2>1. In(first) = {Read("page", "missions", None), Read("page", "ping", None)}
        /\ first \in Seq(In(first))
    BY TupleFacts
  <2> QED
    BY <2>1 DEF Fits, Read, PlaceTypes
<1>2. OK(second) /\ \A q \in In(second) : q.type # "recent"
  <2>1. CASE Host = None
    <3>1. second = <<>>
      BY <2>1 DEF HostReads
    <3> QED
      BY <3>1, TupleFacts
  <2>2. CASE Host # None
    <3>1. second = <<Read("host", "system_metrics", Host),
                     Read("host", "docker_status", Host),
                     Read("host", "host_inventory", Host)>>
      BY <2>2 DEF HostReads
    <3>2. In(second) = {Read("host", "system_metrics", Host),
                        Read("host", "docker_status", Host),
                        Read("host", "host_inventory", Host)}
          /\ second \in Seq(In(second))
      BY <3>1, TupleFacts
    <3> QED
      BY <3>2 DEF Fits, Read, PlaceTypes
  <2> QED
    BY <2>1, <2>2
<1>3. OK(third) /\ Off(third)
  <2>1. In(third) = {Read("page", "recent", None)} /\ third \in Seq(In(third))
    BY TupleFacts
  <2> QED
    BY <2>1 DEF Fits, Read, PlaceTypes
<1>4. OK(last) /\ Off(last)
  <2>1. CASE Agent = None
    <3>1. last = <<>>
      BY <2>1
    <3> QED
      BY <3>1, TupleFacts
  <2>2. CASE Agent # None
    <3>1. last = <<Read("agent", "agent_status", Agent)>>
      BY <2>2
    <3>2. In(last) = {Read("agent", "agent_status", Agent)} /\ last \in Seq(In(last))
      BY <3>1, TupleFacts
    <3> QED
      BY <3>2 DEF Fits, Read, PlaceTypes
  <2> QED
    BY <2>1, <2>2
<1>5. MonitorReads = FleetReads \o first \o second \o third \o last
  BY DEF MonitorReads
<1> HIDE DEF first, second, third, last
<1>6. ASSUME NEW t, OK(t), Off(t) PROVE Ordered(t)
  BY <1>6, OrderedWithout DEF Before
<1>7. ASSUME NEW s, NEW t, Plan(r, s), OK(t), Off(t) PROVE Plan(r, s \o t)
  BY <1>6, <1>7, PlanJoin DEF Before
<1> DEFINE upTo == FleetReads \o first
<1>8. Plan(r, upTo)
  BY <1>1, <1>7, FleetPlan
<1>9. Plan(r, upTo \o second)
  <2>1. In(upTo) = In(FleetReads) \cup In(first)
    BY <1>1, FleetFacts, JoinFacts
  <2>2. \A q \in In(FleetReads) : q.type # "recent"
    <3>1. Read("registry", "assets", None).type # "recent"
      BY DEF Read
    <3> QED
      BY <3>1, FleetFacts, ViewsPaired
  <2>3. Ordered(second)
    BY <1>2, OrderedWithout DEF Before
  <2> HIDE DEF upTo
  <2>4. \A q \in In(second), p \in In(upTo) : ~ Before(q, p)
    BY <1>1, <1>2, <2>1, <2>2 DEF Before
  <2> QED
    BY <1>2, <1>8, <2>3, <2>4, PlanJoin
<1>10. Plan(r, upTo \o second \o third)
  BY <1>3, <1>7, <1>9
<1>11. Plan(r, upTo \o second \o third \o last)
  BY <1>4, <1>7, <1>10
<1> QED
  BY <1>5, <1>11

\* Every route's reads are a plan.
LEMMA ReadsPlan ==
    ASSUME NEW r
    PROVE  Plan(r, Reads(r))
<1> DEFINE one(type, of) == <<Read("page", type, of)>>
<1>1. CASE r.route = "fleet"
  BY <1>1, FleetPlan DEF Reads
<1>2. CASE r.route = "asset"
  BY <1>2, AssetPlan DEF Reads
<1>3. CASE r.route \in {"inventory", "docker"}
  <2> DEFINE q == Read("page", IF r.route = "docker" THEN "docker_status"
                               ELSE "host_inventory", r.of)
  <2>1. Reads(r) = AssetReads(r.of) \o <<q>>
    BY <1>3 DEF Reads
  <2>2. q.part = "page" /\ Fits(r, q)
    BY <1>3 DEF Fits, Read
  <2> HIDE DEF q
  <2>3. In(<<q>>) = {q} /\ <<q>> \in Seq(In(<<q>>))
    BY TupleFacts
  <2>4. Ordered(<<q>>)
    BY <2>2, <2>3, OrderedWithout DEF Before
  <2>5. Plan(r, AssetReads(r.of) \o <<q>>)
    BY <2>2, <2>3, <2>4, AssetPlan, PlanJoin DEF Before
  <2> QED
    BY <2>1, <2>5
<1>4. CASE r.route \in {"missions", "mission", "events", "health"}
  <2> DEFINE q == CASE r.route = "missions" -> Read("page", "missions", None)
                    [] r.route = "mission"  -> Read("page", "mission", r.of)
                    [] r.route = "events"   -> Read("page", "events", r.of)
                    [] r.route = "health"   -> Read("page", "ping", None)
  <2>1. Reads(r) = <<q>>
    BY <1>4 DEF Reads
  <2>2. q.part # "view" /\ q.part # "host" /\ Fits(r, q)
    BY <1>4 DEF Fits, Read
  <2> HIDE DEF q
  <2> QED
    BY <2>1, <2>2, SinglePlan
<1>5. CASE r.route = "monitor"
  BY <1>5, MonitorPlan DEF Reads
<1>6. CASE r.route \notin {"fleet", "asset", "inventory", "docker", "missions", "mission",
                           "events", "health", "monitor"}
  <2>1. Reads(r) = <<>>
    BY <1>6 DEF Reads
  <2>2. In(<<>>) = {} /\ <<>> \in Seq(In(<<>>))
    BY TupleFacts
  <2>3. Ordered(<<>>)
    BY <2>2, OrderedWithout
  <2> QED
    BY <2>1, <2>2, <2>3 DEF Plan
<1> QED
  BY <1>1, <1>2, <1>3, <1>4, <1>5, <1>6
-----------------------------------------------------------------------------
(* The stream *)

Stored ==
    [collector : {r.collector : r \in Reports}, type : {r.type : r \in Reports},
     timestamp : 0..MaxTime, payload : {r.payload : r \in Reports}]

\* The stream is of reports, whose source timestamps are in no order.
StreamInv == now \in 0..MaxTime /\ stream \in Seq(Stored)

LEMMA StreamFacts ==
    ASSUME StreamInv
    PROVE  /\ Len(stream) \in Nat /\ MaxTime \in Nat /\ now \in Nat
           /\ \A i \in 1..Len(stream) : /\ stream[i] \in Stored
                                        /\ stream[i].timestamp \in Nat
<1>1. MaxTime \in Nat /\ now \in 0..MaxTime /\ stream \in Seq(Stored)
  BY ReadAssumption DEF StreamInv
<1>2. \A i \in 1..Len(stream) : stream[i] \in Stored
  BY <1>1
<1>3. \A e \in Stored : e.timestamp \in 0..MaxTime
  BY DEF Stored
<1>4. \A i \in 1..Len(stream) : stream[i].timestamp \in 0..MaxTime
  BY <1>2, <1>3
<1> QED
  BY <1>1, <1>2, <1>4

\* The stream grows by an event at a time.
LEMMA IngestFacts ==
    ASSUME StreamInv, Ingest
    PROVE  /\ StreamInv'
           /\ Len(stream') = Len(stream) + 1
           /\ \A i \in 1..Len(stream) : stream'[i] = stream[i]
<1>1. PICK r \in Reports, t \in 0..MaxTime : stream' = Append(stream,
           [collector |-> r.collector, type |-> r.type, timestamp |-> t,
            payload |-> r.payload])
  BY DEF Ingest
<1>2. PICK e : e = [collector |-> r.collector, type |-> r.type, timestamp |-> t,
                    payload |-> r.payload]
  OBVIOUS
<1>3. e \in Stored
  BY <1>2 DEF Stored
<1>4. stream' = Append(stream, e)
  BY <1>1, <1>2
<1>5. /\ stream' \in Seq(Stored) /\ Len(stream') = Len(stream) + 1 /\ Len(stream) \in Nat
      /\ \A i \in 1..Len(stream) : stream'[i] = stream[i]
  BY <1>3, <1>4 DEF StreamInv
<1>6. now' = now /\ now \in 0..MaxTime
  BY DEF Ingest, StreamInv
<1> QED
  BY <1>5, <1>6 DEF StreamInv

LEMMA NextStreamInv == StreamInv /\ [Next]_vars => StreamInv'
<1> SUFFICES ASSUME StreamInv, [Next]_vars PROVE StreamInv'
  OBVIOUS
<1>1. CASE Ingest
  BY <1>1, IngestFacts
<1>2. CASE Tick
  BY <1>2, StreamFacts DEF Tick, StreamInv
<1>3. CASE UNCHANGED <<now, stream>>
  BY <1>3 DEF StreamInv
<1>4. ASSUME NEW r \in Requests, Arrive(r) PROVE UNCHANGED <<now, stream>>
  BY <1>4 DEF Arrive
<1>5. ASSUME ProjectInventory \/ Outage \/ Recovery \/ Serve \/ UNCHANGED vars
      PROVE  UNCHANGED <<now, stream>>
  BY <1>5 DEF ProjectInventory, Outage, Recovery, Serve, ReceiveBody, Authorize, ReadNext,
              ReadFails, Finish, vars
<1> QED
  BY <1>1, <1>2, <1>3, <1>4, <1>5 DEF Next

\* The latest event of a kind among the first n.
LEMMA LatestFacts ==
    ASSUME StreamInv, NEW n \in 0..Len(stream), NEW id, NEW type
    PROVE  LET v == LatestOf(n, id, type)
           IN  /\ v \in 0..n
               /\ v # 0 => stream[v].collector = id /\ stream[v].type = type
               /\ \A i \in 1..n : stream[i].collector = id /\ stream[i].type = type => i <= v
<1> DEFINE same == {i \in 1..n : stream[i].collector = id /\ stream[i].type = type}
<1>1. n \in Nat /\ same \in SUBSET (0..n)
  BY StreamFacts
<1>2. CASE same = {}
  BY <1>1, <1>2 DEF LatestOf
<1>3. CASE same # {}
  <2>1. \E i \in same : \A j \in same : j <= i
    BY <1>1, <1>3, Greatest
  <2>2. PICK v \in same : v = CHOOSE i \in same : \A j \in same : j <= i
    BY <2>1
  <2>3. \A j \in same : j <= v
    BY <2>1, <2>2
  <2>4. LatestOf(n, id, type) = v
    BY <1>3, <2>2 DEF LatestOf
  <2> QED
    BY <1>1, <2>3, <2>4
<1> QED
  BY <1>2, <1>3
-----------------------------------------------------------------------------
(* A route on its way *)

Early == {"exited", "idle", "body", "auth"}

RouteInv ==
    /\ phase \in Early \cup {"reads", "answered"}
    /\ before \in 0..Len(stream) /\ at \in Nat
    /\ phase \in Early => DOMAIN page = {}
    /\ DOMAIN page \subseteq In(Reads(request))
    /\ phase = "reads" =>
          /\ todo \in Seq(In(todo)) /\ Ordered(todo)
          /\ In(todo) \subseteq In(Reads(request))
          /\ In(Reads(request)) \subseteq DOMAIN page \cup In(todo)
    /\ phase = "answered" /\ status = 200 => In(Reads(request)) \subseteq DOMAIN page
    /\ phase = "answered" /\ status = 404 =>
          \/ request.of \notin Ids \/ request.route = "mission"
          \/ Nothing(Read("page", "docker_status", request.of))
          \/ Nothing(Read("page", "host_inventory", request.of))

\* What was found is the latest of its kind at some moment of the request.
LatestTypes == {"heartbeat", "system_metrics", "docker_status", "agent_status"}
Found(q, v) ==
    /\ v \in 0..Len(stream)
    /\ v # 0 => stream[v].collector = q.of /\ stream[v].type = q.type
    /\ \A i \in 1..before : stream[i].collector = q.of /\ stream[i].type = q.type => i <= v
PageInv ==
    \A q \in DOMAIN page : q.type \in LatestTypes =>
        /\ Found(q, page[q].value)
        /\ q.type = "heartbeat" /\ page[q].value # 0 => page[q].begun \in Nat

\* The host section is read after the views, and found no less.
HostInv ==
    /\ phase = "reads" /\ (\E q \in DOMAIN page : q.part = "host")
           => \A q \in In(todo) : q.part # "view"
    /\ \A id : {Read("host", "system_metrics", id), Read("view", "system_metrics", id)}
                   \subseteq DOMAIN page
           => page[Read("host", "system_metrics", id)].value
                  >= page[Read("view", "system_metrics", id)].value

ReadInv == StreamInv /\ RouteInv /\ PageInv /\ HostInv

\* What a read adds to the page.
LEMMA ReadFacts ==
    ASSUME ReadInv, ReadNext
    PROVE  /\ phase = "reads" /\ todo # <<>>
           /\ Head(todo) \in In(todo) /\ In(todo) = {Head(todo)} \cup In(Tail(todo))
           /\ Tail(todo) \in Seq(In(Tail(todo))) /\ Ordered(Tail(todo))
           /\ \A q \in In(Tail(todo)) : ~ Before(q, Head(todo))
           /\ DOMAIN page' = DOMAIN page \cup {Head(todo)}
           /\ \A q \in DOMAIN page : q # Head(todo) => page'[q] = page[q]
           /\ Head(todo).type \in LatestTypes =>
                 page'[Head(todo)].value
                     = LatestOf(Len(stream), Head(todo).of, Head(todo).type)
           /\ Head(todo).type = "heartbeat" /\ page'[Head(todo)].value # 0
                  => page'[Head(todo)].begun \in Nat
<1> DEFINE q == Head(todo)
           t == Tail(todo)
<1>1. phase = "reads" /\ todo # <<>> /\ todo \in Seq(In(todo)) /\ Ordered(todo) /\ at \in Nat
  BY DEF ReadNext, ReadInv, RouteInv
<1>2. /\ q \in In(todo) /\ In(todo) = {q} \cup In(t)
      /\ t \in Seq(In(todo)) /\ q = todo[1] /\ Len(todo) >= 1 /\ Len(todo) \in Nat
      /\ Len(t) = Len(todo) - 1 /\ \A k \in 1..Len(t) : t[k] = todo[k + 1]
  BY <1>1, ListFacts
<1>3. t \in Seq(In(t))
  BY <1>2, ListFacts
<1>4. \A k \in 1..Len(t) : k \in Nat /\ k + 1 \in 1..Len(todo) /\ t[k] = todo[k + 1]
  BY <1>2
<1>5. ASSUME NEW j \in 1..Len(t), NEW k \in 1..Len(t), Before(t[k], t[j])
      PROVE  k < j
  <2>1. k + 1 < j + 1
    BY <1>1, <1>4, <1>5 DEF Ordered
  <2> QED
    BY <2>1, <1>4
<1>6. Ordered(t)
  BY <1>5 DEF Ordered
<1>7. ASSUME NEW k \in 1..Len(t), Before(t[k], q)
      PROVE  FALSE
  <2>1. k + 1 < 1
    BY <1>1, <1>2, <1>4, <1>7 DEF Ordered
  <2> QED
    BY <2>1, <1>4
<1>8. \A e \in In(t) : ~ Before(e, q)
  BY <1>7 DEF In
<1>9. page' = With(q, Value(q))
  BY DEF ReadNext
<1>10. /\ DOMAIN page' = DOMAIN page \cup {q}
       /\ \A e \in DOMAIN page : e # q => page'[e] = page[e]
       /\ page'[q] = Result(q, Value(q))
  BY <1>9 DEF With
<1>11. page'[q].value = Value(q)
  BY <1>10 DEF Result
<1>12. q.type \in LatestTypes => Value(q) = LatestOf(Len(stream), q.of, q.type)
  BY DEF Value, LatestTypes
<1>13. q.type = "heartbeat" /\ page'[q].value # 0 => page'[q].begun \in Nat
  BY <1>1, <1>10, <1>11 DEF Result
<1> QED
  BY <1>1, <1>2, <1>3, <1>6, <1>8, <1>10, <1>11, <1>12, <1>13

Still == UNCHANGED <<stream, phase, request, todo, page, before, at, status>>

LEMMA StillKeeps == RouteInv /\ PageInv /\ HostInv /\ Still => RouteInv' /\ PageInv' /\ HostInv'
BY DEF Still, RouteInv, PageInv, HostInv, Found, Nothing

\* A found event stays one when the stream grows.
LEMMA IngestKeeps == ReadInv /\ Ingest => RouteInv' /\ PageInv' /\ HostInv'
<1> SUFFICES ASSUME ReadInv, Ingest PROVE RouteInv' /\ PageInv' /\ HostInv'
  OBVIOUS
<1>1. /\ Len(stream') = Len(stream) + 1 /\ Len(stream) \in Nat
      /\ \A i \in 1..Len(stream) : stream'[i] = stream[i]
  BY IngestFacts, StreamFacts DEF ReadInv
<1>2. UNCHANGED <<phase, request, todo, page, before, at, status>>
  BY DEF Ingest
<1>3. before \in 0..Len(stream) /\ before \in 0..Len(stream') /\ before \in Nat
  BY <1>1 DEF ReadInv, RouteInv
<1>4. RouteInv'
  BY <1>2, <1>3 DEF ReadInv, RouteInv, Nothing
<1>5. ASSUME NEW q, NEW v, Found(q, v)
      PROVE  Found(q, v)'
  <2>1. v \in 0..Len(stream') /\ v \in 0..Len(stream)
    BY <1>1, <1>5 DEF Found
  <2>2. v # 0 => stream'[v] = stream[v]
    BY <1>1, <2>1
  <2>3. \A i \in 1..before : stream'[i] = stream[i]
    BY <1>1, <1>3
  <2> QED
    BY <1>2, <1>5, <2>1, <2>2, <2>3 DEF Found
<1>6. PageInv'
  <2> SUFFICES ASSUME NEW q \in DOMAIN page, q.type \in LatestTypes
               PROVE  /\ Found(q, page[q].value)'
                      /\ q.type = "heartbeat" /\ page[q].value # 0
                             => page[q].begun \in Nat
    BY <1>2 DEF PageInv
  <2>1. PICK v : v = page[q].value
    OBVIOUS
  <2>2. Found(q, v)
    BY <2>1 DEF ReadInv, PageInv
  <2>3. Found(q, v)'
    BY <2>2, <1>5
  <2>4. page'[q].value = v
    BY <1>2, <2>1
  <2> QED
    BY <2>3, <2>4 DEF ReadInv, PageInv, Found
<1>7. HostInv'
  BY <1>2 DEF ReadInv, HostInv
<1> QED
  BY <1>4, <1>6, <1>7

\* Before the reads the page is empty; a refusal is neither 200 nor 404.
LEMMA EarlyKeeps ==
    ASSUME ReadInv, phase \in Early, DOMAIN page = {} => DOMAIN page' = {},
           stream' = stream, before' \in 0..Len(stream), at' \in Nat,
           \/ phase' \in Early
           \/ phase' = "answered" /\ status' \notin {200, 404}
    PROVE  RouteInv' /\ PageInv' /\ HostInv'
<1>1. DOMAIN page' = {} /\ phase' \in Early \cup {"answered"} /\ phase' # "reads"
  BY DEF ReadInv, RouteInv, Early
<1>2. RouteInv'
  BY <1>1 DEF RouteInv, Early
<1>3. PageInv'
  BY <1>1 DEF PageInv
<1>4. HostInv'
  BY <1>1 DEF HostInv
<1> QED
  BY <1>2, <1>3, <1>4

LEMMA AuthorizeKeeps == ReadInv /\ Authorize => RouteInv' /\ PageInv' /\ HostInv'
<1> SUFFICES ASSUME ReadInv, Authorize PROVE RouteInv' /\ PageInv' /\ HostInv'
  OBVIOUS
<1>1. /\ phase = "auth" /\ DOMAIN page = {}
      /\ UNCHANGED <<stream, request, page, before>> /\ at' = now
      /\ before \in 0..Len(stream) /\ now \in Nat
  BY StreamFacts DEF Authorize, ReadInv, RouteInv, Early
<1>2. CASE phase' # "reads"
  <2>1. phase' = "answered" /\ status' = 401
    BY <1>2 DEF Authorize, Reply
  <2> QED
    BY <1>1, <2>1, EarlyKeeps DEF Early
<1>3. CASE phase' = "reads"
  <2>1. todo' = Reads(request)
    BY <1>3 DEF Authorize, Reply
  <2>2. Plan(request, Reads(request))
    BY ReadsPlan
  <2>3. RouteInv'
    BY <1>1, <1>3, <2>1, <2>2 DEF RouteInv, Early, Plan
  <2>4. PageInv' /\ HostInv'
    BY <1>1 DEF PageInv, HostInv
  <2> QED
    BY <2>3, <2>4
<1> QED
  BY <1>2, <1>3

\* A route that ends keeps what it has read.
LEMMA EndKeeps ==
    ASSUME ReadInv, UNCHANGED <<stream, request, page, before, at>>, phase' = "answered",
           status' = 200 => In(Reads(request)) \subseteq DOMAIN page,
           status' = 404 =>
              \/ request.of \notin Ids \/ request.route = "mission"
              \/ Nothing(Read("page", "docker_status", request.of))
              \/ Nothing(Read("page", "host_inventory", request.of))
    PROVE  RouteInv' /\ PageInv' /\ HostInv'
<1>1. RouteInv'
  BY DEF ReadInv, RouteInv, Nothing, Early
<1>2. PageInv'
  BY DEF ReadInv, PageInv, Found
<1>3. HostInv'
  BY DEF ReadInv, HostInv
<1> QED
  BY <1>1, <1>2, <1>3

LEMMA FinishKeeps == ReadInv /\ Finish => RouteInv' /\ PageInv' /\ HostInv'
<1> SUFFICES ASSUME ReadInv, Finish PROVE RouteInv' /\ PageInv' /\ HostInv'
  OBVIOUS
<1>1. /\ UNCHANGED <<stream, request, page, before, at>> /\ phase' = "answered"
      /\ phase = "reads" /\ todo = <<>>
  BY DEF Finish, Reply
<1>2. In(Reads(request)) \subseteq DOMAIN page
  BY <1>1, TupleFacts DEF ReadInv, RouteInv
<1>3. Nothing(Read("page", "mission", request.of)) => request.route = "mission"
  <2>1. Nothing(Read("page", "mission", request.of))
            => Read("page", "mission", request.of) \in In(Reads(request))
    BY DEF Nothing, ReadInv, RouteInv
  <2>2. Plan(request, Reads(request))
    BY ReadsPlan
  <2> QED
    BY <2>1, <2>2 DEF Plan, Fits, Read
<1>4. status' = 404 =>
          \/ request.route = "mission"
          \/ Nothing(Read("page", "docker_status", request.of))
          \/ Nothing(Read("page", "host_inventory", request.of))
  BY <1>3 DEF Finish, Reply
<1> QED
  BY <1>1, <1>2, <1>4, EndKeeps

LEMMA ReadKeepsPage == ReadInv /\ ReadNext => PageInv'
<1> SUFFICES ASSUME ReadInv, ReadNext PROVE PageInv'
  OBVIOUS
<1> DEFINE h == Head(todo)
<1>1. stream' = stream /\ before' = before
  BY DEF ReadNext
<1>2. /\ DOMAIN page' = DOMAIN page \cup {h}
      /\ \A q \in DOMAIN page : q # h => page'[q] = page[q]
      /\ h.type \in LatestTypes => page'[h].value = LatestOf(Len(stream), h.of, h.type)
      /\ h.type = "heartbeat" /\ page'[h].value # 0 => page'[h].begun \in Nat
  BY ReadFacts
<1>3. \A q, v : Found(q, v)' <=> Found(q, v)
  BY <1>1 DEF Found
<1>4. ASSUME h.type \in LatestTypes
      PROVE  Found(h, LatestOf(Len(stream), h.of, h.type))
  <2>1. Len(stream) \in 0..Len(stream) /\ before \in 0..Len(stream) /\ Len(stream) \in Nat
    BY StreamFacts DEF ReadInv, RouteInv
  <2>2. PICK v : v = LatestOf(Len(stream), h.of, h.type)
    OBVIOUS
  <2>3. /\ v \in 0..Len(stream)
        /\ v # 0 => stream[v].collector = h.of /\ stream[v].type = h.type
        /\ \A i \in 1..Len(stream) :
               stream[i].collector = h.of /\ stream[i].type = h.type => i <= v
    BY <2>1, <2>2, LatestFacts DEF ReadInv
  <2>4. Found(h, v)
    BY <2>1, <2>3 DEF Found
  <2> QED
    BY <2>2, <2>4
<1> HIDE DEF h
<1> SUFFICES ASSUME NEW q \in DOMAIN page', q.type \in LatestTypes
             PROVE  /\ Found(q, page'[q].value)
                    /\ q.type = "heartbeat" /\ page'[q].value # 0 => page'[q].begun \in Nat
  BY <1>3 DEF PageInv
<1>5. CASE q = h
  BY <1>2, <1>4, <1>5
<1>6. CASE q # h
  BY <1>2, <1>6 DEF ReadInv, PageInv
<1> QED
  BY <1>5, <1>6

LEMMA ReadKeepsHost == ReadInv /\ ReadNext => HostInv'
<1> SUFFICES ASSUME ReadInv, ReadNext PROVE HostInv'
  OBVIOUS
<1> DEFINE h == Head(todo)
           onHost(id) == Read("host", "system_metrics", id)
           onView(id) == Read("view", "system_metrics", id)
<1>1. /\ phase = "reads"
      /\ h \in In(todo) /\ In(todo) = {h} \cup In(Tail(todo))
      /\ \A q \in In(Tail(todo)) : ~ Before(q, h)
      /\ DOMAIN page' = DOMAIN page \cup {h}
      /\ \A q \in DOMAIN page : q # h => page'[q] = page[q]
      /\ h.type \in LatestTypes => page'[h].value = LatestOf(Len(stream), h.of, h.type)
  BY ReadFacts
<1>2. phase' = "reads" => todo' = Tail(todo)
  BY DEF ReadNext, Reply
<1> HIDE DEF h
<1>3. ASSUME phase' = "reads", NEW p \in DOMAIN page', p.part = "host"
      PROVE  \A q \in In(todo') : q.part # "view"
  <2>1. CASE p = h
    BY <2>1, <1>1, <1>2, <1>3 DEF Before
  <2>2. CASE p # h
    <3>1. \A q \in In(todo) : q.part # "view"
      BY <2>2, <1>1, <1>3 DEF ReadInv, HostInv
    <3> QED
      BY <3>1, <1>1, <1>2, <1>3
  <2> QED
    BY <2>1, <2>2
<1>4. ASSUME NEW id, {onHost(id), onView(id)} \subseteq DOMAIN page'
      PROVE  page'[onHost(id)].value >= page'[onView(id)].value
  <2>1. /\ onHost(id) # onView(id) /\ onHost(id).part = "host"
        /\ onView(id).part = "view" /\ onView(id).type \in LatestTypes
        /\ onHost(id).type \in LatestTypes
        /\ onView(id).of = id /\ onView(id).type = "system_metrics"
        /\ onHost(id).of = id /\ onHost(id).type = "system_metrics"
    BY DEF Read, LatestTypes
  <2> HIDE DEF onHost, onView
  <2>2. CASE h = onView(id)
    <3>1. onHost(id) \in DOMAIN page
      BY <2>1, <2>2, <1>1, <1>4
    <3>2. FALSE
      BY <3>1, <2>1, <2>2, <1>1 DEF ReadInv, HostInv
    <3> QED
      BY <3>2
  <2>3. CASE h = onHost(id)
    <3>1. onView(id) \in DOMAIN page /\ page'[onView(id)] = page[onView(id)]
      BY <2>1, <2>3, <1>1, <1>4
    <3>2. PICK v : v = page[onView(id)].value
      OBVIOUS
    <3>3. Found(onView(id), v)
      BY <2>1, <3>1, <3>2 DEF ReadInv, PageInv
    <3>4. v \in 0..Len(stream)
          /\ (v # 0 => stream[v].collector = id /\ stream[v].type = "system_metrics")
      BY <2>1, <3>3 DEF Found
    <3>5. PICK w : w = LatestOf(Len(stream), id, "system_metrics")
      OBVIOUS
    <3>6. Len(stream) \in 0..Len(stream) /\ Len(stream) \in Nat
      BY StreamFacts DEF ReadInv
    <3>7. /\ w \in 0..Len(stream)
          /\ \A i \in 1..Len(stream) :
                 stream[i].collector = id /\ stream[i].type = "system_metrics" => i <= w
      BY <3>5, <3>6, LatestFacts DEF ReadInv
    <3>8. w >= v
      BY <3>4, <3>6, <3>7
    <3>9. page'[onHost(id)].value = w
      BY <1>1, <2>1, <2>3, <3>5
    <3> QED
      BY <3>1, <3>2, <3>8, <3>9
  <2>4. CASE h # onHost(id) /\ h # onView(id)
    <3>1. {onHost(id), onView(id)} \subseteq DOMAIN page
      BY <2>4, <1>1, <1>4
    <3>2. page[onHost(id)].value >= page[onView(id)].value
      BY <3>1 DEF ReadInv, HostInv, onHost, onView
    <3> QED
      BY <3>1, <3>2, <2>4, <1>1
  <2> QED
    BY <2>2, <2>3, <2>4
<1> QED
  BY <1>3, <1>4 DEF HostInv

LEMMA ReadKeepsRoute == ReadInv /\ ReadNext => RouteInv'
<1> SUFFICES ASSUME ReadInv, ReadNext PROVE RouteInv'
  OBVIOUS
<1> DEFINE h == Head(todo)
<1>1. /\ phase = "reads" /\ h \in In(todo) /\ In(todo) = {h} \cup In(Tail(todo))
      /\ Tail(todo) \in Seq(In(Tail(todo))) /\ Ordered(Tail(todo))
      /\ DOMAIN page' = DOMAIN page \cup {h}
  BY ReadFacts
<1>2. /\ UNCHANGED <<stream, request, before>> /\ at' = now /\ now \in Nat
  BY StreamFacts DEF ReadNext, ReadInv
<1>3. /\ DOMAIN page' \subseteq In(Reads(request))
      /\ In(Tail(todo)) \subseteq In(Reads(request))
      /\ In(Reads(request)) \subseteq DOMAIN page' \cup In(Tail(todo))
  BY <1>1 DEF ReadInv, RouteInv
<1>4. before \in 0..Len(stream)
  BY DEF ReadInv, RouteInv
<1>5. CASE h.type = "asset" /\ h.of \notin Ids
  <2>1. phase' = "answered" /\ status' = 404
    BY <1>5 DEF ReadNext, Reply
  <2>2. Plan(request, Reads(request)) /\ h \in In(Reads(request))
    BY <1>1, ReadsPlan DEF ReadInv, RouteInv
  <2>3. request.of \notin Ids
    BY <1>5, <2>2 DEF Plan, Fits
  <2> HIDE DEF h
  <2> QED
    BY <1>2, <1>3, <1>4, <2>1, <2>3 DEF RouteInv, Early
<1>6. CASE ~ (h.type = "asset" /\ h.of \notin Ids)
  <2>1. phase' = "reads" /\ todo' = Tail(todo)
    BY <1>1, <1>6 DEF ReadNext
  <2> HIDE DEF h
  <2> QED
    BY <1>1, <1>2, <1>3, <1>4, <2>1 DEF RouteInv, Early
<1> QED
  BY <1>5, <1>6

LEMMA NextReadInv == ReadInv /\ [Next]_vars => ReadInv'
<1> SUFFICES ASSUME ReadInv, [Next]_vars PROVE ReadInv'
  OBVIOUS
<1>1. StreamInv'
  BY NextStreamInv DEF ReadInv
<1>2. RouteInv' /\ PageInv' /\ HostInv'
  <2>1. CASE Ingest
    BY <2>1, IngestKeeps
  <2>2. CASE ProjectInventory \/ Tick \/ Outage \/ Recovery \/ UNCHANGED vars
    <3>1. Still
      BY <2>2 DEF ProjectInventory, Tick, Outage, Recovery, vars, Still
    <3> QED
      BY <3>1, StillKeeps DEF ReadInv
  <2>3. ASSUME NEW r \in Requests, Arrive(r) PROVE RouteInv' /\ PageInv' /\ HostInv'
    <3>1. /\ phase = "idle" /\ UNCHANGED <<stream, page, at>> /\ before' = Len(stream)
          /\ \/ phase' \in {"body", "auth"}
             \/ phase' = "answered" /\ status' = 413
      BY <2>3 DEF Arrive, Reply
    <3>2. at \in Nat /\ Len(stream) \in 0..Len(stream)
      BY StreamFacts DEF ReadInv, RouteInv
    <3> QED
      BY <3>1, <3>2, EarlyKeeps DEF Early
  <2>4. CASE ReceiveBody
    <3>1. /\ phase = "body" /\ UNCHANGED <<stream, page, before, at>>
          /\ \/ phase' = "auth"
             \/ phase' = "answered" /\ status' \in {413, 400, 422}
      BY <2>4 DEF ReceiveBody, Reply
    <3>2. at \in Nat /\ before \in 0..Len(stream)
      BY DEF ReadInv, RouteInv
    <3> QED
      BY <3>1, <3>2, EarlyKeeps DEF Early
  <2>5. CASE Authorize
    BY <2>5, AuthorizeKeeps
  <2>6. CASE ReadNext
    BY <2>6, ReadKeepsPage, ReadKeepsHost, ReadKeepsRoute
  <2>7. CASE ReadFails
    <3>1. /\ UNCHANGED <<stream, request, page, before, at>> /\ phase' = "answered"
          /\ status' \in {500, 503}
      BY <2>7 DEF ReadFails, Reply
    <3> QED
      BY <3>1, EndKeeps
  <2>8. CASE Finish
    BY <2>8, FinishKeeps
  <2> QED
    BY <2>1, <2>2, <2>3, <2>4, <2>5, <2>6, <2>7, <2>8 DEF Next, Serve
<1> QED
  BY <1>1, <1>2 DEF ReadInv

LEMMA ReadInvariant == Spec => []ReadInv
<1>1. Init => ReadInv
  <2> SUFFICES ASSUME Init PROVE ReadInv
    OBVIOUS
  <2>1. stream = <<>> /\ Len(stream) = 0 /\ DOMAIN page = {} /\ MaxTime \in Nat
    BY ReadAssumption DEF Init
  <2>2. StreamInv
    BY <2>1 DEF Init, StreamInv
  <2>3. RouteInv
    BY <2>1 DEF Init, RouteInv, Early
  <2>4. PageInv /\ HostInv
    BY <2>1 DEF Init, PageInv, HostInv
  <2> QED
    BY <2>2, <2>3, <2>4 DEF ReadInv
<1> QED
  BY <1>1, NextReadInv, PTL DEF Spec
-----------------------------------------------------------------------------
(* What the answer shows *)

\* Both reads of a viewed asset's view are on the page.
LEMMA ViewedFacts ==
    ASSUME ReadInv, NEW id \in Viewed
    PROVE  /\ phase = "answered" /\ status = 200 /\ id \in Ids
           /\ Read("view", "system_metrics", id) \in DOMAIN page
           /\ Read("view", "heartbeat", id) \in DOMAIN page
<1>1. /\ phase = "answered" /\ status = 200 /\ id \in Ids
      /\ Read("view", "system_metrics", id) \in DOMAIN page
  BY DEF Viewed, Answered
<1>2. Plan(request, Reads(request))
  BY ReadsPlan
<1>3. Read("view", "heartbeat", id) \in In(Reads(request))
  BY <1>1, <1>2 DEF ReadInv, RouteInv, Plan
<1>4. In(Reads(request)) \subseteq DOMAIN page
  BY <1>1 DEF ReadInv, RouteInv
<1> QED
  BY <1>1, <1>3, <1>4

\* The heartbeat of a view, and when the view was begun.
LEMMA ViewedHeartbeat ==
    ASSUME ReadInv, NEW id \in Viewed
    PROVE  LET read == page[Read("view", "heartbeat", id)]
           IN  /\ read.value \in 0..Len(stream)
               /\ \A i \in 1..before :
                     stream[i].collector = id /\ stream[i].type = "heartbeat"
                         => i <= read.value
               /\ read.value # 0 =>
                     /\ read.begun \in Nat
                     /\ ViewHeartbeat(id) # None
                     /\ ViewHeartbeat(id).timestamp = stream[read.value].timestamp
<1> DEFINE q == Read("view", "heartbeat", id)
<1>1. q \in DOMAIN page /\ q.of = id /\ q.type = "heartbeat" /\ q.type \in LatestTypes
  BY ViewedFacts DEF Read, LatestTypes
<1>2. Found(q, page[q].value) /\ (page[q].value # 0 => page[q].begun \in Nat)
  BY <1>1 DEF ReadInv, PageInv
<1>3. ViewHeartbeat(id) = Heartbeat(page[q].value)
  BY DEF ViewHeartbeat
<1> HIDE DEF q
<1>4. PICK v : v = page[q].value
  OBVIOUS
<1>5. v \in 0..Len(stream)
  BY <1>2, <1>4 DEF Found
<1>6. ASSUME v # 0
      PROVE  Heartbeat(v) # None /\ Heartbeat(v).timestamp = stream[v].timestamp
  <2>1. v \in 1..Len(stream)
    BY <1>5, <1>6, StreamFacts DEF ReadInv
  <2>2. stream[v] \in Stored
    BY <2>1, StreamFacts DEF ReadInv
  <2>3. PICK r \in Reports : stream[v].payload = r.payload
    BY <2>2 DEF Stored
  <2>4. stream[v].timestamp \in 0..MaxTime
    BY <2>2 DEF Stored
  <2>5. Heartbeat(v) = [timestamp |-> stream[v].timestamp, failures |-> r.payload]
    BY <1>6, <2>3 DEF Heartbeat
  <2> QED
    BY <2>4, <2>5, ReadAssumption
<1>7. \A i \in 1..before :
          stream[i].collector = id /\ stream[i].type = "heartbeat" => i <= v
  BY <1>1, <1>2, <1>4 DEF Found
<1> QED
  BY <1>2, <1>3, <1>4, <1>5, <1>6, <1>7 DEF q

\* An asset shown offline had no recent heartbeat when the view was begun, of those
\* stored when the request arrived, unless it is the one shown that came late; however
\* the view was interleaved with ingestion and time, for any timeout and timestamps.
THEOREM OfflineViewsAreSilent == Spec => []OfflineIsSilent
<1>1. ReadInv => OfflineIsSilent
  <2> SUFFICES ASSUME ReadInv, NEW id \in Viewed, ViewConnectivity(id) = "offline",
                      NEW i \in 1..before, BeatOf(i, id)
               PROVE  LET shown == page[Read("view", "heartbeat", id)]
                      IN  \/ shown.begun - stream[i].timestamp > OfflineTimeout
                          \/ /\ shown.value > i
                             /\ stream[shown.value].timestamp < stream[i].timestamp
    BY DEF OfflineIsSilent
  <2>1. PICK v, b : /\ v = page[Read("view", "heartbeat", id)].value
                    /\ b = page[Read("view", "heartbeat", id)].begun
    OBVIOUS
  <2>2. /\ v \in 0..Len(stream) /\ i <= v
        /\ v # 0 => /\ b \in Nat
                    /\ ViewHeartbeat(id) # None
                    /\ ViewHeartbeat(id).timestamp = stream[v].timestamp
    BY <2>1, ViewedHeartbeat DEF BeatOf
  <2>3. Len(stream) \in Nat /\ before \in 0..Len(stream)
    BY StreamFacts DEF ReadInv, RouteInv
  <2>4. v \in 1..Len(stream) /\ i \in 1..Len(stream)
    BY <2>2, <2>3
  <2>5. stream[i].timestamp \in Nat /\ stream[v].timestamp \in Nat
    BY <2>4, StreamFacts DEF ReadInv
  <2>6. b - stream[v].timestamp > OfflineTimeout
    <3>1. Connectivity(ViewHeartbeat(id), b) = "offline"
      BY <2>1 DEF ViewConnectivity, ViewTime
    <3>2. Age(ViewHeartbeat(id), b) > OfflineTimeout
      BY <3>1 DEF Connectivity
    <3> QED
      BY <2>2, <2>4, <3>2 DEF Age
  <2>7. OfflineTimeout \in Nat /\ b \in Nat
    BY <2>2, <2>4, ViewAssumption
  <2>8. CASE stream[i].timestamp <= stream[v].timestamp
    BY <2>1, <2>5, <2>6, <2>7, <2>8
  <2>9. CASE stream[v].timestamp < stream[i].timestamp
    <3>1. i # v
      BY <2>5, <2>9
    <3>2. v > i
      BY <2>2, <2>3, <2>4, <3>1
    <3> QED
      BY <2>1, <2>9, <3>2
  <2> QED
    BY <2>5, <2>8, <2>9
<1> QED
  BY <1>1, ReadInvariant, PTL

(* The inventories *)

\* A result is what was there when the read was answered.
LEMMA ReadValue ==
    ASSUME ReadNext
    PROVE  /\ DOMAIN page' = DOMAIN page \cup {Head(todo)}
           /\ \A q \in DOMAIN page : q # Head(todo) => page'[q] = page[q]
           /\ page'[Head(todo)].value = Value(Head(todo))
<1> DEFINE h == Head(todo)
<1>1. page' = With(h, Value(h))
  BY DEF ReadNext
<1> HIDE DEF h
<1>2. /\ DOMAIN page' = DOMAIN page \cup {h}
      /\ \A q \in DOMAIN page : q # h => page'[q] = page[q]
      /\ page'[h] = Result(h, Value(h))
  BY <1>1 DEF With
<1>3. Result(h, Value(h)).value = Value(h)
  BY DEF Result
<1> QED
  BY <1>2, <1>3 DEF h

\* A row of the projection stays, and the inventory is read from it.
InventoryInv ==
    /\ applying \subseteq 1..Len(stream)
    /\ inventories \in [Reporters -> 0..Len(stream)]
    /\ kept # 0 => InventoryOf(request.of) # 0
    /\ \A q \in DOMAIN page :
          q.type = "host_inventory" /\ q.of = request.of /\ page[q].value = 0 => kept = 0

LEMMA NextInventoryInv == ReadInv /\ InventoryInv /\ [Next]_vars => InventoryInv'
<1> SUFFICES ASSUME ReadInv, InventoryInv, [Next]_vars PROVE InventoryInv'
  OBVIOUS
<1>1. ASSUME UNCHANGED <<stream, inventories, applying, kept, request, page>>
      PROVE  InventoryInv'
  BY <1>1 DEF InventoryInv, InventoryOf
<1>2. CASE Ingest
  <2>1. Len(stream') = Len(stream) + 1 /\ Len(stream) \in Nat
    BY <1>2, IngestFacts, StreamFacts DEF ReadInv
  <2>2. applying' \subseteq applying \cup {Len(stream) + 1}
    BY <1>2 DEF Ingest
  <2>3. applying' \subseteq 1..Len(stream')
    BY <2>1, <2>2 DEF InventoryInv
  <2>4. inventories \in [Reporters -> 0..Len(stream')]
    BY <2>1 DEF InventoryInv
  <2> QED
    BY <1>2, <2>3, <2>4 DEF Ingest, InventoryInv, InventoryOf
<1>3. CASE ProjectInventory
  <2>1. PICK i \in applying :
           /\ inventories' = [inventories EXCEPT ![stream[i].collector] = i]
           /\ applying' = applying \ {i}
    BY <1>3 DEF ProjectInventory
  <2>2. i \in 0..Len(stream) /\ i # 0
    BY <2>1, StreamFacts DEF ReadInv, InventoryInv
  <2>3. inventories' \in [Reporters -> 0..Len(stream)]
    BY <2>1, <2>2 DEF InventoryInv
  <2>4. \A id : InventoryOf(id) # 0 => InventoryOf(id)' # 0
    BY <2>1, <2>2 DEF InventoryOf, InventoryInv
  <2>5. UNCHANGED <<stream, kept, request, page>>
    BY <1>3 DEF ProjectInventory
  <2>6. kept' # 0 => InventoryOf(request.of)' # 0
    BY <2>4, <2>5 DEF InventoryInv, InventoryOf
  <2> QED
    BY <2>1, <2>3, <2>5, <2>6 DEF InventoryInv
<1>4. ASSUME NEW r \in Requests, Arrive(r) PROVE InventoryInv'
  <2>1. /\ UNCHANGED <<stream, inventories, applying, page>> /\ request' = r
        /\ kept' = InventoryOf(r.of) /\ DOMAIN page = {}
    BY <1>4 DEF Arrive, ReadInv, RouteInv, Early
  <2> QED
    BY <2>1 DEF InventoryInv, InventoryOf
<1>5. CASE ReadNext
  <2> DEFINE h == Head(todo)
  <2>1. /\ DOMAIN page' = DOMAIN page \cup {h}
        /\ \A q \in DOMAIN page : q # h => page'[q] = page[q]
        /\ page'[h].value = Value(h)
    BY <1>5, ReadValue
  <2>2. h.type = "host_inventory" => Value(h) = InventoryOf(h.of)
    BY DEF Value
  <2>3. UNCHANGED <<stream, inventories, applying, kept, request>>
    BY <1>5 DEF ReadNext, projection
  <2> HIDE DEF h
  <2>4. ASSUME NEW q \in DOMAIN page', q.type = "host_inventory", q.of = request.of,
               page'[q].value = 0
        PROVE  kept = 0
    <3>1. CASE q = h
      BY <2>1, <2>2, <2>4, <3>1 DEF InventoryInv
    <3>2. CASE q # h
      BY <2>1, <2>4, <3>2 DEF InventoryInv
    <3> QED
      BY <3>1, <3>2
  <2> QED
    BY <2>3, <2>4 DEF InventoryInv, InventoryOf
<1>6. CASE Tick \/ Outage \/ Recovery \/ ReceiveBody \/ Authorize \/ ReadFails \/ Finish
           \/ UNCHANGED vars
  <2>1. UNCHANGED <<stream, projection, request, page>>
    BY <1>6 DEF Tick, Outage, Recovery, ReceiveBody, Authorize, ReadFails, Finish, vars
  <2> QED
    BY <1>1, <2>1 DEF projection
<1> QED
  BY <1>2, <1>3, <1>4, <1>5, <1>6 DEF Next, Serve

LEMMA InventoryInvariant == Spec => [](ReadInv /\ InventoryInv)
<1>1. Init => InventoryInv
  BY DEF Init, InventoryInv
<1> QED
  BY <1>1, NextInventoryInv, ReadInvariant, PTL DEF Spec

\* "unknown" and 404 are answered only for what was absent when the request
\* arrived, an inventory from its projection: no outage between two reads is taken
\* for it.
THEOREM AbsencesAreReal == Spec => []AbsenceIsReal
<1>1. ASSUME ReadInv, NEW id \in Viewed, ViewConnectivity(id) = "unknown"
      PROVE  LatestOf(before, id, "heartbeat") = 0
  <2>1. PICK v : v = page[Read("view", "heartbeat", id)].value
    OBVIOUS
  <2>2. /\ v \in 0..Len(stream)
        /\ \A i \in 1..before :
               stream[i].collector = id /\ stream[i].type = "heartbeat" => i <= v
        /\ v # 0 => ViewHeartbeat(id) # None
    BY <1>1, <2>1, ViewedHeartbeat
  <2>3. ViewHeartbeat(id) = None
    BY <1>1 DEF ViewConnectivity, Connectivity
  <2>4. v = 0
    BY <2>2, <2>3
  <2>5. \A i \in 1..before : ~ (stream[i].collector = id /\ stream[i].type = "heartbeat")
    BY <2>2, <2>4
  <2> QED
    BY <2>5 DEF LatestOf
<1>2. ASSUME ReadInv, Nothing(Read("page", "docker_status", request.of))
      PROVE  /\ LatestOf(before, request.of, "docker_status") = 0
             /\ request.route = "docker"
  <2> DEFINE q == Read("page", "docker_status", request.of)
  <2>1. q \in DOMAIN page /\ page[q].value = 0 /\ q.of = request.of
        /\ q.type = "docker_status" /\ q.part = "page" /\ q.type \in LatestTypes
    BY <1>2 DEF Nothing, Read, LatestTypes
  <2>2. Found(q, 0)
    BY <1>2, <2>1 DEF ReadInv, PageInv
  <2>3. \A i \in 1..before :
            ~ (stream[i].collector = request.of /\ stream[i].type = "docker_status")
    BY <2>1, <2>2 DEF Found
  <2>4. q \in In(Reads(request)) /\ Plan(request, Reads(request))
    BY <1>2, <2>1, ReadsPlan DEF ReadInv, RouteInv
  <2> QED
    BY <2>1, <2>3, <2>4 DEF LatestOf, Plan, Fits
<1>3. ASSUME ReadInv, InventoryInv, Nothing(Read("page", "host_inventory", request.of))
      PROVE  kept = 0 /\ request.route = "inventory"
  <2> DEFINE q == Read("page", "host_inventory", request.of)
  <2>1. q \in DOMAIN page /\ page[q].value = 0 /\ q.of = request.of
        /\ q.type = "host_inventory" /\ q.part = "page"
    BY <1>3 DEF Nothing, Read
  <2>2. q \in In(Reads(request)) /\ Plan(request, Reads(request))
    BY <1>3, <2>1, ReadsPlan DEF ReadInv, RouteInv
  <2> QED
    BY <1>3, <2>1, <2>2 DEF InventoryInv, Plan, Fits
<1>4. ASSUME ReadInv, InventoryInv, Answered, status = 404, request.route # "mission",
             request.of \in Ids
      PROVE  \/ request.route = "docker" /\ LatestOf(before, request.of, "docker_status") = 0
             \/ request.route = "inventory" /\ kept = 0
  <2>1. \/ Nothing(Read("page", "docker_status", request.of))
        \/ Nothing(Read("page", "host_inventory", request.of))
    BY <1>4 DEF ReadInv, RouteInv, Answered
  <2> QED
    BY <1>2, <1>3, <1>4, <2>1
<1>5. ReadInv /\ InventoryInv => AbsenceIsReal
  BY <1>1, <1>4 DEF AbsenceIsReal
<1> QED
  BY <1>5, InventoryInvariant, PTL

\* The monitor page reads its host section.
LEMMA MonitorSections ==
    Host # None => Read("host", "system_metrics", Host) \in In(MonitorReads)
<1> DEFINE first == <<Read("page", "missions", None), Read("page", "ping", None)>>
           third == <<Read("page", "recent", None)>>
           last == IF Agent = None THEN <<>> ELSE <<Read("agent", "agent_status", Agent)>>
<1>1. Host # None => Read("host", "system_metrics", Host) \in In(HostReads)
  BY TupleFacts DEF HostReads
<1>2. HostReads \in Seq(In(HostReads))
  BY TupleFacts DEF HostReads
<1>3. first \in Seq(In(first)) /\ third \in Seq(In(third)) /\ last \in Seq(In(last))
  BY TupleFacts
<1>4. MonitorReads = FleetReads \o first \o HostReads \o third \o last
  BY DEF MonitorReads
<1> HIDE DEF first, third, last
<1>5. FleetReads \o first \in Seq(In(FleetReads \o first))
  BY <1>3, FleetFacts, JoinFacts
<1>6. /\ FleetReads \o first \o HostReads \in Seq(In(FleetReads \o first \o HostReads))
      /\ In(HostReads) \subseteq In(FleetReads \o first \o HostReads)
  BY <1>2, <1>5, JoinFacts
<1> DEFINE upTo == FleetReads \o first \o HostReads
<1>7. /\ upTo \in Seq(In(upTo)) /\ In(HostReads) \subseteq In(upTo)
      /\ MonitorReads = upTo \o third \o last
  BY <1>4, <1>5, <1>6
<1> HIDE DEF upTo
<1>8. upTo \o third \in Seq(In(upTo \o third)) /\ In(upTo) \subseteq In(upTo \o third)
  BY <1>3, <1>7, JoinFacts
<1>9. In(upTo \o third) \subseteq In(upTo \o third \o last)
  BY <1>3, <1>8, JoinFacts
<1> QED
  BY <1>1, <1>7, <1>8, <1>9

\* The host section of the page shows metrics no older than those its health badge
\* was computed from, whatever arrives while the page is gathered.
THEOREM HostSectionIsNotOlder == Spec => []HostSectionNotOlder
<1>1. Host \in Ids => Read("host", "system_metrics", Host) \in In(MonitorReads)
  BY MonitorSections, ReadAssumption DEF Ids
<1>2. ReadInv => HostSectionNotOlder
  <2> SUFFICES ASSUME ReadInv, Answered, status = 200, request.route = "monitor",
                      Host \in Viewed
               PROVE  page[Read("host", "system_metrics", Host)].value
                          >= page[Read("view", "system_metrics", Host)].value
    BY DEF HostSectionNotOlder
  <2>1. Host \in Ids /\ Read("view", "system_metrics", Host) \in DOMAIN page
    BY ViewedFacts
  <2>2. Reads(request) = MonitorReads
    BY DEF Reads
  <2>3. Read("host", "system_metrics", Host) \in DOMAIN page
    BY <1>1, <2>1, <2>2 DEF ReadInv, RouteInv, Answered
  <2> QED
    BY <2>1, <2>3 DEF ReadInv, HostInv
<1> QED
  BY <1>2, ReadInvariant, PTL

-----------------------------------------------------------------------------
(* The newest of some places *)

\* How many of the places are newer.
Rank(P, i) == Cardinality({j \in P : j > i})

LEMMA RankFacts ==
    ASSUME NEW n \in Nat, NEW P \in SUBSET (1..n)
    PROVE  /\ IsFiniteSet(P) /\ Cardinality(P) \in Nat
           /\ \A i \in P : Rank(P, i) \in 0..(Cardinality(P) - 1)
           /\ \A i, j \in P : i < j => Rank(P, j) < Rank(P, i)
<1>1. IsFiniteSet(1..n)
  BY FS_Interval
<1>2. IsFiniteSet(P) /\ Cardinality(P) \in Nat
  BY <1>1, FS_Subset, FS_CardinalityType
<1>3. ASSUME NEW i \in P
      PROVE  Rank(P, i) \in 0..(Cardinality(P) - 1)
  <2> DEFINE newer == {j \in P : j > i}
  <2>1. newer \in SUBSET P /\ i \notin newer /\ newer # P
    OBVIOUS
  <2>2. /\ IsFiniteSet(newer) /\ Cardinality(newer) <= Cardinality(P)
        /\ Cardinality(newer) # Cardinality(P)
    BY <1>2, <2>1, FS_Subset
  <2>3. Cardinality(newer) \in Nat
    BY <2>2, FS_CardinalityType
  <2>4. Rank(P, i) = Cardinality(newer)
    BY DEF Rank
  <2> HIDE DEF newer
  <2> QED
    BY <1>2, <2>2, <2>3, <2>4
<1>4. ASSUME NEW i \in P, NEW j \in P, i < j
      PROVE  Rank(P, j) < Rank(P, i)
  <2> DEFINE fewer == {k \in P : k > j}
             more == {k \in P : k > i}
  <2>1. more \in SUBSET P /\ j \in more /\ j \notin fewer
    BY <1>4
  <2>2. fewer \in SUBSET more
    <3>1. i \in Int /\ j \in Int /\ P \subseteq Int
      OBVIOUS
    <3>2. ASSUME NEW k \in P, k > j PROVE k > i
      BY <1>4, <3>1, <3>2
    <3> QED
      BY <3>2
  <2>3. IsFiniteSet(more)
    BY <1>2, <2>1, FS_Subset
  <2>4. /\ IsFiniteSet(fewer) /\ Cardinality(fewer) <= Cardinality(more)
        /\ Cardinality(fewer) # Cardinality(more)
    BY <2>1, <2>2, <2>3, FS_Subset
  <2>5. Cardinality(fewer) \in Nat /\ Cardinality(more) \in Nat
    BY <2>3, <2>4, FS_CardinalityType
  <2>6. Rank(P, j) = Cardinality(fewer) /\ Rank(P, i) = Cardinality(more)
    BY DEF Rank
  <2> HIDE DEF fewer, more
  <2> QED
    BY <2>4, <2>5, <2>6
<1> QED
  BY <1>2, <1>3, <1>4

\* Every rank is that of one place.
LEMMA RankTaken ==
    ASSUME NEW n \in Nat, NEW P \in SUBSET (1..n), NEW r \in 0..(Cardinality(P) - 1)
    PROVE  \E i \in P : Rank(P, i) = r
<1> DEFINE c == Cardinality(P)
           f == [i \in P |-> Rank(P, i)]
<1>1. /\ IsFiniteSet(P) /\ c \in Nat
      /\ \A i \in P : Rank(P, i) \in 0..(c - 1)
      /\ \A i, j \in P : i < j => Rank(P, j) < Rank(P, i)
  BY RankFacts
<1>2. f \in [P -> 0..(c - 1)]
  BY <1>1
<1>3. ASSUME NEW i \in P, NEW j \in P, f[i] = f[j] PROVE i = j
  <2>1. i \in Int /\ j \in Int /\ f[i] \in Int /\ f[j] \in Int
    BY <1>1
  <2>2. ~ (i < j) /\ ~ (j < i)
    BY <1>1, <1>3, <2>1
  <2> QED
    BY <2>1, <2>2
<1>4. f \in Injection(P, 0..(c - 1))
  BY <1>2, <1>3, Zenon DEF Injection, IsInjective
<1>5. IsFiniteSet(0..(c - 1)) /\ Cardinality(0..(c - 1)) = c
  BY <1>1, FS_Interval
<1>6. f \in Surjection(P, 0..(c - 1))
  BY <1>4, <1>5, FS_Injection
<1> QED
  BY <1>6 DEF Surjection

\* A place that is not among the newest has been pushed out by newer ones only.
LEMMA NewestFacts ==
    ASSUME NEW n \in Nat, NEW P \in SUBSET (1..n), NEW limit \in Nat, NEW i \in P
    PROVE  LET s == Newest(P, limit)
           IN  \/ i \in {s[k] : k \in DOMAIN s}
               \/ Len(s) = limit /\ \A k \in DOMAIN s : s[k] > i
<1> DEFINE c == Cardinality(P)
           m == IF c > limit THEN limit ELSE c
           At(k) == CHOOSE x \in P : Cardinality({j \in P : j > x}) = k - 1
           s == Newest(P, limit)
<1>1. /\ c \in Nat
      /\ \A x \in P : x \in Int /\ Rank(P, x) \in Int /\ Rank(P, x) \in 0..(c - 1)
      /\ \A x, y \in P : x < y => Rank(P, y) < Rank(P, x)
  <2>1. P \subseteq Int
    OBVIOUS
  <2>2. /\ Cardinality(P) \in Nat
        /\ \A x \in P : Rank(P, x) \in 0..(Cardinality(P) - 1)
        /\ \A x, y \in P : x < y => Rank(P, y) < Rank(P, x)
    BY RankFacts
  <2>3. \A x \in P : Rank(P, x) \in Int
    BY <2>2
  <2> QED
    BY <2>1, <2>2, <2>3
<1>2. m \in Nat /\ m <= c /\ m <= limit
  BY <1>1
<1>3. s = [k \in 1..m |-> At(k)]
  BY DEF Newest
<1>4. DOMAIN s = 1..m /\ \A k \in 1..m : s[k] = At(k)
  BY <1>3
<1>5. ASSUME NEW k \in 1..m
      PROVE  s[k] \in P /\ Rank(P, s[k]) = k - 1
  <2>1. k - 1 \in 0..(c - 1)
    BY <1>1, <1>2
  <2>2. \E x \in P : Rank(P, x) = k - 1
    BY <2>1, RankTaken
  <2>3. At(k) \in P /\ Cardinality({j \in P : j > At(k)}) = k - 1
    BY <2>2 DEF Rank
  <2> QED
    BY <1>4, <2>3 DEF Rank
<1> HIDE DEF m, At, s
<1>6. CASE Rank(P, i) + 1 <= m
  <2> DEFINE k == Rank(P, i) + 1
  <2>1. k \in 1..m /\ k - 1 = Rank(P, i)
    BY <1>1, <1>2, <1>6
  <2>2. s[k] \in P /\ Rank(P, s[k]) = Rank(P, i)
    BY <1>5, <2>1
  <2>3. s[k] \in Int /\ i \in Int /\ Rank(P, i) \in Int
    BY <1>1, <2>2
  <2>4. s[k] = i
    BY <1>1, <2>2, <2>3
  <2> QED
    BY <1>4, <2>1, <2>4 DEF s
<1>7. CASE ~ (Rank(P, i) + 1 <= m)
  <2>1. m = limit
    BY <1>1, <1>2, <1>7 DEF m
  <2>2. Len(s) = m
    BY <1>2, <1>3
  <2>3. ASSUME NEW k \in 1..m PROVE s[k] > i
    <3>1. s[k] \in P /\ Rank(P, s[k]) = k - 1
      BY <1>5
    <3>2. /\ s[k] \in Int /\ i \in Int /\ Rank(P, i) \in Int
          /\ k \in Int /\ k <= m
      <4>1. s[k] \in Int /\ i \in Int /\ Rank(P, i) \in Int
        BY <1>1, <3>1
      <4>2. k \in Int /\ k <= m
        BY <1>2
      <4> QED
        BY <4>1, <4>2
    <3>3. k - 1 < Rank(P, i)
      BY <1>2, <1>7, <3>2
    <3>4. Rank(P, s[k]) < Rank(P, i)
      BY <3>1, <3>3
    <3>5. ~ (s[k] < i) /\ s[k] # i
      BY <1>1, <3>1, <3>2, <3>4
    <3> QED
      BY <3>2, <3>5
  <2> QED
    BY <1>4, <2>1, <2>2, <2>3 DEF s
<1> QED
  BY <1>6, <1>7

-----------------------------------------------------------------------------
(* What the page shows of the recent events *)

Notable(n) == {i \in 1..n : stream[i].type \in NotableTypes}

\* The recent events on the page are the newest notable ones at some moment of the
\* request, when the sections above them had been read.
Above(q) == q.part \in {"view", "host"}
RecentAt(q, n) ==
    /\ page[q].value = Newest(Notable(n), RecentLimit)
    /\ \A r \in DOMAIN page : Above(r) => page[r].value <= n
RecentInv ==
    /\ \A q \in DOMAIN page : Above(q) => page[q].value \in 0..Len(stream)
    /\ phase = "reads" /\ (\E q \in DOMAIN page : q.type = "recent")
           => \A q \in In(todo) : ~ Above(q)
    /\ \A q \in DOMAIN page : q.type = "recent" =>
          \E n \in before..Len(stream) : RecentAt(q, n)

\* What the page shows of a moment stays when the stream grows.
LEMMA IngestKeepsRecent == ReadInv /\ RecentInv /\ Ingest => RecentInv'
<1> SUFFICES ASSUME ReadInv, RecentInv, Ingest PROVE RecentInv'
  OBVIOUS
<1>1. /\ Len(stream') = Len(stream) + 1 /\ Len(stream) \in Nat
      /\ \A i \in 1..Len(stream) : stream'[i] = stream[i]
  BY IngestFacts, StreamFacts DEF ReadInv
<1>2. UNCHANGED <<page, before, phase, todo>> /\ before \in Nat
  BY <1>1 DEF Ingest, ReadInv, RouteInv
<1>3. ASSUME NEW n \in before..Len(stream)
      PROVE  n \in before..Len(stream') /\ Notable(n)' = Notable(n)
  <2>1. n \in before..Len(stream') /\ \A i \in 1..n : i \in 1..Len(stream)
    BY <1>1, <1>2
  <2>2. \A i \in 1..n : stream'[i] = stream[i]
    BY <1>1, <2>1
  <2> QED
    BY <2>1, <2>2 DEF Notable
<1>4. ASSUME NEW q \in DOMAIN page, q.type = "recent"
      PROVE  \E n \in before..Len(stream') : RecentAt(q, n)'
  <2>1. PICK n \in before..Len(stream) : RecentAt(q, n)
    BY <1>4 DEF RecentInv
  <2>2. n \in before..Len(stream') /\ Notable(n)' = Notable(n)
    BY <1>3
  <2>3. RecentAt(q, n)'
    BY <1>2, <2>1, <2>2 DEF RecentAt, Newest
  <2> QED
    BY <2>2, <2>3
<1>5. ASSUME NEW q \in DOMAIN page, Above(q) PROVE page[q].value \in 0..Len(stream')
  <2>1. page[q].value \in 0..Len(stream)
    BY <1>5 DEF RecentInv
  <2> QED
    BY <1>1, <2>1
<1> QED
  BY <1>2, <1>4, <1>5 DEF RecentInv

\* A read for a section finds a place in the stream.
LEMMA AboveFacts ==
    ASSUME ReadInv, InventoryInv, phase = "reads", NEW q \in In(todo), Above(q)
    PROVE  Value(q) \in 0..Len(stream)
<1>1. Fits(request, q)
  <2>1. q \in In(Reads(request)) /\ Plan(request, Reads(request))
    BY ReadsPlan DEF ReadInv, RouteInv
  <2> QED
    BY <2>1 DEF Plan
<1>2. q.type \in PlaceTypes
  BY <1>1 DEF Fits, Above
<1>3. Len(stream) \in Nat /\ Len(stream) \in 0..Len(stream) /\ 0 \in 0..Len(stream)
  BY StreamFacts DEF ReadInv
<1>4. CASE q.type = "host_inventory"
  <2>1. Value(q) = InventoryOf(q.of)
    BY <1>4 DEF Value
  <2> QED
    BY <1>3, <2>1 DEF InventoryOf, InventoryInv
<1>5. CASE q.type # "host_inventory"
  <2>1. Value(q) = LatestOf(Len(stream), q.of, q.type)
    BY <1>2, <1>5 DEF Value, PlaceTypes
  <2>2. LatestOf(Len(stream), q.of, q.type) \in 0..Len(stream)
    BY <1>3, LatestFacts DEF ReadInv
  <2> QED
    BY <2>1, <2>2
<1> QED
  BY <1>4, <1>5

LEMMA ReadKeepsRecent == ReadInv /\ InventoryInv /\ RecentInv /\ ReadNext => RecentInv'
<1> SUFFICES ASSUME ReadInv, InventoryInv, RecentInv, ReadNext PROVE RecentInv'
  OBVIOUS
<1> DEFINE h == Head(todo)
<1>1. /\ DOMAIN page' = DOMAIN page \cup {h}
      /\ \A q \in DOMAIN page : q # h => page'[q] = page[q]
      /\ page'[h].value = Value(h)
  BY ReadValue
<1>2. /\ phase = "reads" /\ h \in In(todo) /\ In(todo) = {h} \cup In(Tail(todo))
      /\ \A q \in In(Tail(todo)) : ~ Before(q, h)
  BY ReadFacts
<1>3. UNCHANGED <<stream, before>> /\ (phase' = "reads" => todo' = Tail(todo))
  BY DEF ReadNext, Reply
<1>4. Above(h) => Value(h) \in 0..Len(stream)
  BY <1>2, AboveFacts
<1> HIDE DEF h
<1>5. /\ Len(stream) \in before..Len(stream) /\ DOMAIN stream = 1..Len(stream)
      /\ \A n : Notable(n)' = Notable(n)
  <2>1. stream \in Seq(Stored) /\ Len(stream) \in Nat /\ before \in 0..Len(stream)
    BY StreamFacts DEF ReadInv, StreamInv, RouteInv
  <2> QED
    BY <1>3, <2>1 DEF Notable
<1>6. h.type = "recent" => Value(h) = Newest(Notable(Len(stream)), RecentLimit)
  BY <1>5 DEF Value, Recent, NotablePlaces, Notable
<1>7. ASSUME NEW q \in DOMAIN page', Above(q) PROVE page'[q].value \in 0..Len(stream)
  <2>1. CASE q = h
    BY <1>1, <1>4, <1>7, <2>1
  <2>2. CASE q # h
    <3>1. q \in DOMAIN page /\ page'[q] = page[q]
      BY <1>1, <2>2
    <3> QED
      BY <1>7, <3>1 DEF RecentInv
  <2> QED
    BY <2>1, <2>2
<1>8. ASSUME phase' = "reads", NEW p \in DOMAIN page', p.type = "recent"
      PROVE  \A q \in In(todo') : ~ Above(q)
  <2>1. CASE p = h
    BY <1>2, <1>3, <1>8, <2>1 DEF Before, Above
  <2>2. CASE p # h
    <3>1. p \in DOMAIN page
      BY <1>1, <2>2
    <3>2. \A q \in In(todo) : ~ Above(q)
      BY <1>2, <1>8, <3>1 DEF RecentInv
    <3> QED
      BY <1>2, <1>3, <1>8, <3>2
  <2> QED
    BY <2>1, <2>2
<1>9. ASSUME NEW q \in DOMAIN page', q.type = "recent"
      PROVE  \E n \in before..Len(stream) : RecentAt(q, n)'
  <2>1. CASE q = h
    <3>1. \A r \in DOMAIN page' : Above(r) => page'[r].value <= Len(stream)
      BY <1>7
    <3>2. page'[q].value = Newest(Notable(Len(stream)), RecentLimit)
      BY <1>1, <1>6, <1>9, <2>1
    <3>3. RecentAt(q, Len(stream))'
      BY <1>3, <1>5, <3>1, <3>2 DEF RecentAt, Newest
    <3> QED
      BY <1>3, <1>5, <3>3
  <2>2. CASE q # h
    <3>1. q \in DOMAIN page /\ page'[q] = page[q]
      BY <1>1, <2>2
    <3>2. PICK n \in before..Len(stream) : RecentAt(q, n)
      BY <1>9, <3>1 DEF RecentInv
    <3>3. ~ Above(h)
      BY <1>2, <1>9, <3>1 DEF RecentInv
    <3>4. ASSUME NEW r \in DOMAIN page', Above(r) PROVE page'[r].value <= n
      <4>1. r # h /\ r \in DOMAIN page /\ page'[r] = page[r]
        BY <1>1, <3>3, <3>4
      <4> QED
        BY <3>2, <3>4, <4>1 DEF RecentAt
    <3>5. page'[q].value = Newest(Notable(n)', RecentLimit)
      BY <1>5, <3>1, <3>2 DEF RecentAt
    <3>6. RecentAt(q, n)'
      BY <3>4, <3>5 DEF RecentAt, Newest
    <3> QED
      BY <1>3, <3>6
  <2> QED
    BY <2>1, <2>2
<1> QED
  BY <1>3, <1>7, <1>8, <1>9 DEF RecentInv

LEMMA NextRecentInv == ReadInv /\ InventoryInv /\ RecentInv /\ [Next]_vars => RecentInv'
<1> SUFFICES ASSUME ReadInv, InventoryInv, RecentInv, [Next]_vars PROVE RecentInv'
  OBVIOUS
<1>1. ASSUME UNCHANGED <<stream, page, before>>,
             phase' = "reads" => (phase = "reads" /\ todo' = todo) \/ DOMAIN page = {}
      PROVE  RecentInv'
  <2>1. \A n : Notable(n)' = Notable(n)
    BY <1>1 DEF Notable
  <2>2. \A q, n : RecentAt(q, n) => RecentAt(q, n)'
    BY <1>1, <2>1 DEF RecentAt, Newest
  <2>3. \A q \in DOMAIN page : q.type = "recent" =>
            \E n \in before..Len(stream) : RecentAt(q, n)'
    BY <2>2 DEF RecentInv
  <2> QED
    BY <1>1, <2>3 DEF RecentInv
<1>2. CASE Ingest
  BY <1>2, IngestKeepsRecent
<1>3. CASE ProjectInventory \/ Tick \/ Outage \/ Recovery
  BY <1>1, <1>3 DEF ProjectInventory, Tick, Outage, Recovery
<1>4. ASSUME NEW r \in Requests, Arrive(r) PROVE RecentInv'
  <2>1. page' = page /\ DOMAIN page = {}
    BY <1>4 DEF Arrive, ReadInv, RouteInv, Early
  <2> QED
    BY <2>1 DEF RecentInv
<1>5. CASE ReceiveBody
  BY <1>1, <1>5 DEF ReceiveBody, Reply
<1>6. CASE Authorize
  <2>1. DOMAIN page = {} /\ UNCHANGED <<stream, page, before>>
    BY <1>6 DEF Authorize, ReadInv, RouteInv, Early
  <2> QED
    BY <1>1, <2>1
<1>7. CASE ReadNext
  BY <1>7, ReadKeepsRecent
<1>8. CASE ReadFails
  BY <1>1, <1>8 DEF ReadFails, Reply
<1>9. CASE Finish
  BY <1>1, <1>9 DEF Finish, Reply
<1>10. CASE UNCHANGED vars
  BY <1>1, <1>10 DEF vars
<1> QED
  BY <1>2, <1>3, <1>4, <1>5, <1>6, <1>7, <1>8, <1>9, <1>10 DEF Next, Serve

LEMMA RecentInvariant == Spec => [](ReadInv /\ RecentInv)
<1>1. Init => RecentInv
  BY DEF Init, RecentInv
<1> QED
  BY <1>1, NextRecentInv, InventoryInvariant, PTL DEF Spec

\* A notable event among those the page looked at is shown, or newer ones fill the
\* list.
LEMMA ShownFacts ==
    ASSUME ReadInv, NEW n \in Nat, NEW i \in Notable(n)
    PROVE  LET s == Newest(Notable(n), RecentLimit)
           IN  \/ i \in {s[k] : k \in DOMAIN s}
               \/ Len(s) = RecentLimit /\ \A k \in DOMAIN s : s[k] > i
<1>1. Notable(n) \in SUBSET (1..n) /\ RecentLimit \in Nat
  BY ReadAssumption DEF Notable
<1>2. PICK P : P = Notable(n)
  OBVIOUS
<1>3. P \in SUBSET (1..n) /\ i \in P
  BY <1>1, <1>2
<1>4. \/ i \in {Newest(P, RecentLimit)[k] : k \in DOMAIN Newest(P, RecentLimit)}
      \/ /\ Len(Newest(P, RecentLimit)) = RecentLimit
         /\ \A k \in DOMAIN Newest(P, RecentLimit) : Newest(P, RecentLimit)[k] > i
  BY <1>1, <1>3, NewestFacts
<1> QED
  BY <1>2, <1>4

\* Every notable event that was stored when the request arrived is among the recent
\* ones, or newer notable ones have taken all the places, for any limit.
THEOREM RecentEventsAreNotable == Spec => []RecentKeepsNotable
<1>1. ReadInv /\ RecentInv => RecentKeepsNotable
  <2> DEFINE q == Read("page", "recent", None)
  <2> SUFFICES ASSUME ReadInv, RecentInv, Answered, q \in DOMAIN page,
                      NEW i \in {k \in 1..before : stream[k].type \in NotableTypes}
               PROVE  LET shown == page[q].value
                      IN  \/ i \in {shown[k] : k \in DOMAIN shown}
                          \/ Len(shown) = RecentLimit
                             /\ \A k \in DOMAIN shown : shown[k] > i
    BY DEF RecentKeepsNotable
  <2>1. q.type = "recent"
    BY DEF Read
  <2> HIDE DEF q
  <2>2. PICK n \in before..Len(stream) : page[q].value = Newest(Notable(n), RecentLimit)
    BY <2>1 DEF RecentInv, RecentAt
  <2>3. n \in Nat /\ before \in Nat /\ before <= n
    BY StreamFacts DEF ReadInv, RouteInv
  <2>4. i \in Notable(n)
    BY <2>3 DEF Notable
  <2> QED
    BY <2>2, <2>3, <2>4, ShownFacts
<1> QED
  BY <1>1, RecentInvariant, PTL

\* What happened before the newest report that a badge or the host section shows is
\* in the list of recent events, or newer notable ones fill it, whatever arrives while
\* the page is gathered.
THEOREM RecentEventsAreNotOlder == Spec => []RecentNotOlder
<1>1. ReadInv /\ RecentInv => RecentNotOlder
  <2> DEFINE q == Read("page", "recent", None)
  <2> SUFFICES ASSUME ReadInv, RecentInv, q \in DOMAIN page, NEW i \in NotablePlaces,
                      NEW r \in DOMAIN page, r.part \in {"view", "host"},
                      i < page[r].value
               PROVE  LET shown == page[q].value
                      IN  \/ i \in {shown[k] : k \in DOMAIN shown}
                          \/ Len(shown) = RecentLimit
                             /\ \A k \in DOMAIN shown : shown[k] > i
    BY DEF RecentNotOlder
  <2>1. q.type = "recent"
    BY DEF Read
  <2> HIDE DEF q
  <2>2. PICK n \in before..Len(stream) : RecentAt(q, n)
    BY <2>1 DEF RecentInv
  <2>3. n \in Nat /\ page[r].value \in 0..Len(stream) /\ Len(stream) \in Nat
        /\ before \in Nat
    BY StreamFacts DEF ReadInv, RouteInv, RecentInv, Above
  <2>4. page[r].value <= n
    BY <2>2 DEF RecentAt, Above
  <2>5. i \in 1..Len(stream) /\ stream[i].type \in NotableTypes
    BY DEF NotablePlaces, ReadInv, StreamInv
  <2>6. i \in Notable(n)
    BY <2>3, <2>4, <2>5 DEF Notable
  <2> QED
    BY <2>2, <2>3, <2>6, ShownFacts DEF RecentAt
<1> QED
  BY <1>1, RecentInvariant, PTL

-----------------------------------------------------------------------------
(* The bytes of a body *)

\* f counts the bytes of the first n chunks.
Counts(s, n, f) == f = [i \in 0..n |-> IF i = 0 THEN 0 ELSE f[i - 1] + s[i]]

\* The chunks can be counted, in natural numbers.
LEMMA CountExists ==
    ASSUME NEW s \in Seq(Nat), NEW n \in 0..Len(s)
    PROVE  \E f \in [0..n -> Nat] : Counts(s, n, f)
<1> DEFINE Counted(k) == \E f \in [0..k -> Nat] : Counts(s, k, f)
           T == {k \in 0..Len(s) : ~ Counted(k)}
<1>1. Len(s) \in Nat /\ \A i \in 1..Len(s) : s[i] \in Nat
  OBVIOUS
<1>2. Counted(0)
  <2> DEFINE f == [i \in 0..0 |-> 0]
  <2>1. f \in [0..0 -> Nat] /\ Counts(s, 0, f)
    BY DEF Counts
  <2> QED
    BY <2>1
<1>3. ASSUME NEW k \in 1..Len(s), Counted(k - 1) PROVE Counted(k)
  <2>1. PICK f \in [0..(k - 1) -> Nat] : Counts(s, k - 1, f)
    BY <1>3
  <2> DEFINE g == [i \in 0..k |-> IF i = k THEN f[k - 1] + s[k] ELSE f[i]]
  <2>2. k \in Nat /\ k >= 1 /\ k - 1 \in 0..(k - 1) /\ f[k - 1] \in Nat /\ s[k] \in Nat
    BY <1>1
  <2>3. g \in [0..k -> Nat]
    BY <2>2
  <2>4. ASSUME NEW i \in 0..k
        PROVE  g[i] = IF i = 0 THEN 0 ELSE g[i - 1] + s[i]
    <3>1. CASE i = k
      BY <2>2, <3>1
    <3>2. CASE i # k
      <4>1. i \in 0..(k - 1) /\ g[i] = f[i]
        BY <2>2, <3>2
      <4>2. f[i] = IF i = 0 THEN 0 ELSE f[i - 1] + s[i]
        BY <2>1, <4>1 DEF Counts
      <4>3. i # 0 => i - 1 \in 0..k /\ i - 1 # k /\ g[i - 1] = f[i - 1]
        BY <2>2, <4>1
      <4> QED
        BY <4>1, <4>2, <4>3
    <3> QED
      BY <3>1, <3>2
  <2>5. Counts(s, k, g)
    BY <2>3, <2>4 DEF Counts
  <2> QED
    BY <2>3, <2>5
<1> HIDE DEF Counted
<1>4. ASSUME T # {} PROVE FALSE
  <2>1. T \in SUBSET Nat
    OBVIOUS
  <2>2. PICK k \in T : \A j \in T : k <= j
    BY <1>4, <2>1, Least
  <2>3. k \in 1..Len(s)
    BY <1>1, <1>2
  <2>4. k - 1 \in 0..Len(s) /\ ~ (k <= k - 1)
    BY <1>1, <2>3
  <2>5. Counted(k - 1)
    BY <2>2, <2>4
  <2> QED
    BY <1>3, <2>3, <2>5
<1> QED
  BY <1>4 DEF Counted

\* Counting further does not change what has been counted.
LEMMA CountUnique ==
    ASSUME NEW s \in Seq(Nat), NEW n \in 0..Len(s), NEW m \in 0..n,
           NEW f, Counts(s, m, f), NEW g \in [0..n -> Nat], Counts(s, n, g)
    PROVE  \A i \in 0..m : f[i] = g[i]
<1> DEFINE T == {i \in 0..m : f[i] # g[i]}
<1>1. /\ \A i \in 0..m : f[i] = IF i = 0 THEN 0 ELSE f[i - 1] + s[i]
      /\ \A i \in 0..n : g[i] = IF i = 0 THEN 0 ELSE g[i - 1] + s[i]
  BY DEF Counts
<1>2. ASSUME T # {} PROVE FALSE
  <2>1. T \in SUBSET Nat /\ m \in Nat /\ n \in Nat /\ m <= n
    OBVIOUS
  <2>2. PICK i \in T : \A j \in T : i <= j
    BY <1>2, <2>1, Least
  <2>3. i \in 0..m /\ i \in 0..n /\ f[i] # g[i]
    BY <2>1
  <2>4. i # 0
    BY <1>1, <2>3
  <2>5. i - 1 \in 0..m /\ ~ (i <= i - 1)
    BY <2>3, <2>4
  <2>6. f[i - 1] = g[i - 1]
    BY <2>2, <2>5
  <2> QED
    BY <1>1, <2>3, <2>4, <2>6
<1> QED
  BY <1>2

\* The bytes received are numbers that do not shrink, and the size of the body is
\* what has been received in the end.
LEMMA ReceivedFacts ==
    ASSUME NEW s \in Seq(Nat)
    PROVE  /\ Size(s) \in Nat
           /\ \A n \in DOMAIN s : Received(s, n) \in Nat /\ Received(s, n) <= Size(s)
           /\ s # <<>> => Len(s) \in DOMAIN s /\ Received(s, Len(s)) = Size(s)
           /\ s = <<>> => Size(s) = 0
<1> DEFINE len == Len(s)
           U(n) == CHOOSE f : f = [i \in 0..n |-> IF i = 0 THEN 0 ELSE f[i - 1] + s[i]]
<1>1. len \in Nat /\ DOMAIN s = 1..len /\ \A i \in 1..len : s[i] \in Nat
      /\ (s = <<>> <=> len = 0)
  OBVIOUS
<1>2. Size(s) = U(len)[len] /\ \A n : Received(s, n) = U(n)[n]
  BY DEF Size, Received
<1>3. ASSUME NEW n \in 0..len PROVE Counts(s, n, U(n))
  <2>1. \E f : Counts(s, n, f)
    BY CountExists
  <2> QED
    BY <2>1 DEF Counts
<1> HIDE DEF U
<1>4. PICK g \in [0..len -> Nat] : Counts(s, len, g)
  BY <1>1, CountExists
<1>5. ASSUME NEW n \in 0..len PROVE U(n)[n] = g[n]
  <2>1. n \in 0..n /\ len \in 0..len
    BY <1>1
  <2> QED
    BY <1>3, <1>4, <2>1, CountUnique
<1>6. Size(s) = g[len] /\ \A n \in 0..len : Received(s, n) = g[n]
  BY <1>1, <1>2, <1>5
<1>7. \A n \in 0..len : g[n] = IF n = 0 THEN 0 ELSE g[n - 1] + s[n]
  BY <1>4 DEF Counts
<1>8. \A n \in 0..len : g[n] <= g[len]
  <2> DEFINE T == {n \in 0..len : g[n] > g[len]}
  <2>1. ASSUME T # {} PROVE FALSE
    <3>1. T \in SUBSET (0..len)
      OBVIOUS
    <3>2. PICK n \in T : \A k \in T : k <= n
      BY <1>1, <2>1, <3>1, Greatest
    <3>3. n \in 0..len /\ g[n] > g[len] /\ g[n] \in Nat /\ g[len] \in Nat
      BY <1>1
    <3>4. n # len
      BY <3>3
    <3>5. n + 1 \in 1..len /\ n + 1 \in 0..len /\ ~ (n + 1 <= n) /\ n + 1 # 0
          /\ (n + 1) - 1 = n
      <4>1. n \in Nat /\ n <= len /\ len \in Nat
        BY <1>1, <3>3
      <4> HIDE DEF len, T
      <4> QED
        BY <3>4, <4>1
    <3>6. g[n + 1] = g[n] + s[n + 1] /\ s[n + 1] \in Nat
      BY <1>1, <1>7, <3>5
    <3>7. g[n + 1] > g[len]
      BY <3>3, <3>6
    <3> QED
      BY <3>2, <3>5, <3>7
  <2>2. \A n \in 0..len : g[n] \in Nat /\ g[len] \in Nat
    BY <1>1
  <2> QED
    BY <2>1, <2>2
<1>9. \A n \in 0..len : g[n] \in Nat
  OBVIOUS
<1>10. len \in 0..len /\ \A n \in DOMAIN s : n \in 0..len
  BY <1>1
<1>11. s = <<>> => g[len] = 0
  BY <1>1, <1>7, <1>10
<1>12. s # <<>> => Len(s) \in DOMAIN s
  BY <1>1
<1> HIDE DEF len
<1> QED
  BY <1>6, <1>8, <1>9, <1>10, <1>11, <1>12 DEF len

\* A request that has come is one of those there may be; one refused for its size has
\* too large a body or none with a length; a body that is passed on fits.
BodyInv ==
    /\ phase \notin {"exited", "idle"} => request \in Requests
    /\ status = 413 => Size(request.chunks) > MaxBytes \/ request.declared < 0
    /\ phase # "answered" => status # 413
    /\ handed <= MaxBytes

LEMMA NextBodyInv == BodyInv /\ [Next]_vars => BodyInv'
<1> SUFFICES ASSUME BodyInv, [Next]_vars PROVE BodyInv'
  OBVIOUS
<1> USE DEF BodyInv
<1>1. CASE Ingest \/ ProjectInventory \/ Tick \/ Outage \/ Recovery \/ UNCHANGED vars
  BY <1>1 DEF Ingest, ProjectInventory, Tick, Outage, Recovery, vars
<1>2. ASSUME NEW r \in Requests, Arrive(r) PROVE BodyInv'
  <2>1. CASE r.declared # None /\ (r.declared > MaxBytes \/ r.declared < 0)
    BY <1>2, <2>1, Framing DEF Arrive, Reply
  <2>2. CASE ~ (r.declared # None /\ (r.declared > MaxBytes \/ r.declared < 0))
    BY <1>2, <2>2 DEF Arrive, Reply
  <2> QED
    BY <2>1, <2>2
<1>3. CASE ReceiveBody
  <2>1. /\ phase = "body" /\ UNCHANGED request /\ request \in Requests
        /\ request.chunks \in Seq(Nat) /\ MaxBytes \in Nat
    BY <1>3, Framing, ReadAssumption DEF ReceiveBody
  <2>2. PICK s \in Seq(Nat) : s = request.chunks
    BY <2>1
  <2>3. /\ Size(s) \in Nat
        /\ \A n \in DOMAIN s : Received(s, n) \in Nat /\ Received(s, n) <= Size(s)
        /\ s # <<>> => Len(s) \in DOMAIN s /\ Received(s, Len(s)) = Size(s)
        /\ s = <<>> => Size(s) = 0
    BY ReceivedFacts
  <2>4. CASE \E n \in DOMAIN s : Received(s, n) > MaxBytes
    <3>1. Size(s) > MaxBytes
      BY <2>1, <2>3, <2>4
    <3>2. UNCHANGED handed /\ phase' = "answered"
      BY <1>3, <2>2, <2>4 DEF ReceiveBody, Reply
    <3> QED
      BY <2>1, <2>2, <3>1, <3>2
  <2>5. CASE ~ \E n \in DOMAIN s : Received(s, n) > MaxBytes
    <3>1. Size(s) <= MaxBytes
      BY <2>1, <2>3, <2>5
    <3>2. /\ handed' = Size(s)
          /\ UNCHANGED status \/ status' = 422
      BY <1>3, <2>2, <2>5 DEF ReceiveBody, Reply
    <3> QED
      BY <2>1, <3>1, <3>2
  <2> QED
    BY <2>4, <2>5
<1>4. CASE Authorize
  BY <1>4 DEF Authorize, Reply
<1>5. CASE ReadNext
  BY <1>5 DEF ReadNext, Reply
<1>6. CASE ReadFails
  BY <1>6 DEF ReadFails, Reply
<1>7. CASE Finish
  BY <1>7 DEF Finish, Reply
<1> QED
  BY <1>1, <1>2, <1>3, <1>4, <1>5, <1>6, <1>7 DEF Next, Serve

\* No body over the limit reaches a handler and none within it is refused for its
\* size, for any limit and any chunks.
THEOREM BodiesAreWithinLimit == Spec => []BodyWithinLimit
<1>1. Init => BodyInv
  <2>1. None # 413 /\ 0 <= MaxBytes
    BY ReadAssumption
  <2> QED
    BY <2>1 DEF Init, BodyInv
<1>2. BodyInv => BodyWithinLimit
  BY DEF BodyInv, BodyWithinLimit
<1> QED
  BY <1>1, <1>2, NextBodyInv, PTL DEF Spec

=============================================================================

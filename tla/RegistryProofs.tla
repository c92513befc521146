--------------------------- MODULE RegistryProofs ---------------------------
(***************************************************************************)
(* What pruning and the model sync do to the registry, for any nodes,      *)
(* models, limits and delays, and for clocks that lag or run ahead.        *)
(***************************************************************************)
EXTENDS Registry, TLAPS

(***************************************************************************)
(* The invariant the theorems rest on.  Dated relates the age of LastSeen  *)
(* to when the node was heard and when the model sync named it; a lagging  *)
(* clock can make a record look older than Cap, where ages end.  Supported *)
(* follows a model from the node's configuration through heartbeats, the   *)
(* DHT and the model sync into the registry.                               *)
(***************************************************************************)
Dated == \A n \in Nodes : nodes[n] # Absent =>
    heard[n] <= nodes[n].age + Ahead[n] \/ listed[n] <= nodes[n].age \/ nodes[n].age >= Cap

Supported ==
    /\ \A n \in Nodes, m \in Models : Claims(n, m) => claimed[n][m] = 0
    /\ \A msg \in gossip : \A m \in msg.models : claimed[msg.node][m] <= msg.age

Inv == TypeOK /\ FreshAsHeard /\ Dated /\ Supported /\ RoutesFollowNews

\* What the invariant says of the record of one node.
RecordOK(n, record, h, l, t, c) ==
    /\ record.age <= h + MaxDelay + Lag(n)
    /\ h <= record.age + Ahead[n] \/ l <= record.age \/ record.age >= Cap
    /\ \A m \in record.models : c[m] <= t + MaxDelay

Records == \A n \in Nodes : nodes[n] # Absent =>
    RecordOK(n, nodes[n], heard[n], listed[n], told[n], claimed[n])

\* The three invariants about records in one.
LEMMA RecordsAgree ==
    ASSUME TypeOK
    PROVE  Records <=> FreshAsHeard /\ Dated /\ RoutesFollowNews
<1>1. \A n \in Nodes : nodes[n] # Absent => nodes[n].models \subseteq Models
  BY DEF TypeOK, Record
<1>2. \A n \in Nodes, m \in Models :
          n \in NodesForModel(m) <=> nodes[n] # Absent /\ m \in nodes[n].models
  BY DEF NodesForModel, ModelsOf
<1>3. RoutesFollowNews <=>
          \A n \in Nodes : nodes[n] # Absent =>
              \A m \in nodes[n].models : claimed[n][m] <= told[n] + MaxDelay
  <2>1. RoutesFollowNews <=> \A m \in Models : \A n \in Nodes :
            n \in NodesForModel(m) => claimed[n][m] <= told[n] + MaxDelay
    BY DEF RoutesFollowNews, NodesForModel
  <2> QED
    BY <1>1, <1>2, <2>1, Zenon
<1>4. Records <=> FreshAsHeard /\ Dated /\
          \A n \in Nodes : nodes[n] # Absent =>
              \A m \in nodes[n].models : claimed[n][m] <= told[n] + MaxDelay
  BY DEF Records, RecordOK, FreshAsHeard, Dated
<1> QED
  BY <1>3, <1>4

\* The same of the next state.
LEMMA RecordsAgreeNext ==
    ASSUME TypeOK'
    PROVE  Records' <=> FreshAsHeard' /\ Dated' /\ RoutesFollowNews'
<1>1. \A n \in Nodes : nodes'[n] # Absent => nodes'[n].models \subseteq Models
  BY DEF TypeOK, Record
<1>2. \A n \in Nodes, m \in Models :
          n \in NodesForModel(m)' <=> nodes'[n] # Absent /\ m \in nodes'[n].models
  BY DEF NodesForModel, ModelsOf
<1>3. RoutesFollowNews' <=>
          \A n \in Nodes : nodes'[n] # Absent =>
              \A m \in nodes'[n].models : claimed'[n][m] <= told'[n] + MaxDelay
  <2>1. RoutesFollowNews' <=> \A m \in Models : \A n \in Nodes :
            n \in NodesForModel(m)' => claimed'[n][m] <= told'[n] + MaxDelay
    BY DEF RoutesFollowNews, NodesForModel
  <2> QED
    BY <1>1, <1>2, <2>1, Zenon
<1>4. Records' <=> FreshAsHeard' /\ Dated' /\
          \A n \in Nodes : nodes'[n] # Absent =>
              \A m \in nodes'[n].models : claimed'[n][m] <= told'[n] + MaxDelay
  BY DEF Records, RecordOK, FreshAsHeard, Dated
<1> QED
  BY <1>3, <1>4

\* The bound on ages, and what one interval does to an age.
LEMMA CapIsNat == Cap \in Nat /\ Cap > MissedLimit /\ Cap > MaxDelay
BY LimitAssumption DEF Cap

\* A clock lags by nothing or by something.
LEMMA LagIsNat == \A n \in Nodes : Ahead[n] \in Int /\ Lag(n) \in Nat /\ 0 <= Lag(n) + Ahead[n]
BY ClockAssumption DEF Lag

\* One interval later an age is an age.
LEMMA OlderBounds ==
    ASSUME NEW age \in Int
    PROVE  Older(age) \in Int
BY CapIsNat DEF Older

\* A bounded age stays in its bounds.
LEMMA OlderInRange ==
    ASSUME NEW age \in 0..Cap
    PROVE  Older(age) \in 0..Cap
<1>1. Cap \in Nat /\ age \in Nat /\ age <= Cap
  BY CapIsNat
<1> QED
  BY <1>1 DEF Older

\* A record of the registry is not the absence of one.
LEMMA RecordPresent ==
    ASSUME NEW age \in Int, NEW models \in SUBSET Models
    PROVE  [age |-> age, models |-> models] # Absent
BY AbsentAssumption

\* The invariant holds before anything was heard.
LEMMA InitInv == Init => Inv
<1> SUFFICES ASSUME Init PROVE Inv
  OBVIOUS
<1>1. Cap \in Nat /\ 0 \in 0..Cap /\ Cap \in 0..Cap
  BY CapIsNat
<1>2. TypeOK
  BY <1>1 DEF Init, TypeOK
<1>3. FreshAsHeard /\ Dated /\ RoutesFollowNews
  BY DEF Init, FreshAsHeard, Dated, RoutesFollowNews, NodesForModel, ModelsOf
<1>4. Supported
  BY DEF Init, Supported, Claims
<1> QED
  BY <1>2, <1>3, <1>4 DEF Inv

\* A heartbeat that comes in dates its node's record, and names its models if it has any.
LEMMA ApplyHealthStep ==
    ASSUME Inv, NEW msg, ApplyHealthJSON(msg)
    PROVE  Inv'
<1> DEFINE n == msg.node
           new == [age |-> msg.age - Ahead[n],
                   models |-> IF msg.models # {} THEN msg.models ELSE ModelsOf(n)]
<1>1. /\ msg \in gossip /\ n \in Nodes /\ msg.age \in 0..MaxDelay
      /\ msg.models \in SUBSET Models
  BY DEF Inv, TypeOK, Message, ApplyHealthJSON, Hears
<1>2. Ahead[n] \in Int /\ Lag(n) \in Nat /\ 0 <= Lag(n) + Ahead[n]
  BY <1>1, LagIsNat
<1>3. new.age \in Int /\ new.age <= MaxDelay + Lag(n) /\ 0 <= new.age + Ahead[n]
  BY <1>1, <1>2, LimitAssumption
<1>4. ModelsOf(n) \in SUBSET Models
  BY <1>1 DEF Inv, TypeOK, Record, ModelsOf
<1>5. new \in Record /\ new # Absent
  BY <1>1, <1>3, <1>4, RecordPresent DEF Record
<1>6. /\ nodes' = [nodes EXCEPT ![n] = new]
      /\ heard' = [heard EXCEPT ![n] = 0]
      /\ told' = IF msg.models = {} THEN told ELSE [told EXCEPT ![n] = 0]
      /\ gossip' = gossip \ {msg}
      /\ UNCHANGED <<up, offers, changes, dht, found, merging, listed, claimed>>
  BY DEF ApplyHealthJSON, Hears
<1>7. \A m \in new.models : claimed[n][m] <= told'[n] + MaxDelay
  <2>1. CASE msg.models # {}
    <3>1. told'[n] = 0
      BY <1>1, <1>6, <2>1 DEF Inv, TypeOK
    <3>2. \A m \in msg.models : claimed[n][m] \in 0..Cap /\ claimed[n][m] <= msg.age
      BY <1>1 DEF Inv, TypeOK, Supported
    <3> QED
      BY <1>1, <2>1, <3>1, <3>2, LimitAssumption, CapIsNat
  <2>2. CASE msg.models = {}
    <3>1. told'[n] = told[n]
      BY <1>6, <2>2
    <3>2. \A m \in ModelsOf(n) : n \in NodesForModel(m)
      BY <1>1 DEF NodesForModel
    <3> QED
      BY <1>4, <2>2, <3>1, <3>2 DEF Inv, RoutesFollowNews
  <2> QED
    BY <2>1, <2>2
<1> HIDE DEF n, new
<1>8. TypeOK'
  BY <1>1, <1>5, <1>6, CapIsNat DEF Inv, TypeOK
<1>9. ASSUME NEW k \in Nodes, nodes'[k] # Absent
      PROVE  RecordOK(k, nodes'[k], heard'[k], listed'[k], told'[k], claimed'[k])
  <2>1. CASE k = n
    <3>1. nodes'[k] = new /\ heard'[k] = 0
      BY <1>1, <1>6, <2>1 DEF Inv, TypeOK
    <3> QED
      BY <3>1, <1>2, <1>3, <1>6, <1>7, <2>1, LimitAssumption DEF RecordOK
  <2>2. CASE k # n
    <3>1. nodes'[k] = nodes[k] /\ heard'[k] = heard[k] /\ told'[k] = told[k]
          /\ listed'[k] = listed[k] /\ claimed'[k] = claimed[k]
      BY <1>6, <2>2 DEF Inv, TypeOK
    <3> QED
      BY <3>1, <1>9, RecordsAgree DEF Inv, Records
  <2> QED
    BY <2>1, <2>2
<1>10. Records'
  BY <1>9 DEF Records
<1>11. Supported'
  BY <1>6 DEF Inv, Supported, Claims
<1> QED
  BY <1>8, <1>10, <1>11, RecordsAgreeNext DEF Inv

\* A record the model sync merges is as young as it can be, and its models are advertised.
LEMMA AnnounceStep ==
    ASSUME Inv, NEW n \in Nodes, ApplyNodeAnnounceProto(n)
    PROVE  Inv'
<1> DEFINE models == {m \in Models : <<n, m>> \in merging}
           new == [age |-> 0, models |-> models]
<1>1. models \in SUBSET Models /\ \A m \in models : claimed[n][m] = 0
  BY DEF Inv, Supported, Claims
<1>2. /\ nodes' = [nodes EXCEPT ![n] = new]
      /\ listed' = [listed EXCEPT ![n] = 0]
      /\ merging' \subseteq merging
      /\ UNCHANGED <<up, offers, changes, gossip, dht, found, heard, told, claimed>>
  BY DEF ApplyNodeAnnounceProto
<1> HIDE DEF models
<1>3. new \in Record /\ new.age = 0 /\ new.models = models
  BY <1>1 DEF Record
<1> HIDE DEF new
<1>4. TypeOK'
  BY <1>1, <1>2, <1>3, CapIsNat DEF Inv, TypeOK
<1>5. ASSUME NEW k \in Nodes, nodes'[k] # Absent
      PROVE  RecordOK(k, nodes'[k], heard'[k], listed'[k], told'[k], claimed'[k])
  <2>1. CASE k = n
    <3>1. nodes'[k] = new /\ listed'[k] = 0
      BY <1>2, <2>1 DEF Inv, TypeOK
    <3>2. heard'[k] \in Nat /\ told'[k] \in Nat /\ claimed'[k] = claimed[n]
      BY <1>2, <1>4, <2>1, CapIsNat DEF TypeOK
    <3>3. Lag(k) \in Nat
      BY LagIsNat
    <3> QED
      BY <3>1, <3>2, <3>3, <1>1, <1>3, <2>1, LimitAssumption DEF RecordOK
  <2>2. CASE k # n
    <3>1. nodes'[k] = nodes[k] /\ listed'[k] = listed[k]
          /\ heard'[k] = heard[k] /\ told'[k] = told[k] /\ claimed'[k] = claimed[k]
      BY <1>2, <2>2 DEF Inv, TypeOK
    <3> QED
      BY <3>1, <1>5, RecordsAgree DEF Inv, Records
  <2> QED
    BY <2>1, <2>2
<1>6. Supported'
  BY <1>2 DEF Inv, Supported, Claims
<1> QED
  BY <1>4, <1>5, <1>6, RecordsAgreeNext DEF Inv, Records

\* An interval ages everything by the same step.
LEMMA IntervalStep ==
    ASSUME Inv, IntervalPasses
    PROVE  Inv'
<1>1. ASSUME NEW n \in Nodes
      PROVE  /\ heard'[n] = Older(heard[n]) /\ heard[n] \in 0..Cap
             /\ listed'[n] = Older(listed[n]) /\ listed[n] \in 0..Cap
             /\ told'[n] = Older(told[n]) /\ told[n] \in 0..Cap
  BY DEF Inv, TypeOK, IntervalPasses
<1>2. ASSUME NEW n \in Nodes, NEW m \in Models
      PROVE  /\ claimed[n][m] \in 0..Cap
             /\ claimed'[n][m] = IF Claims(n, m) THEN 0 ELSE Older(claimed[n][m])
             /\ claimed'[n][m] \in 0..Cap
  <2>1. claimed[n][m] \in 0..Cap
    BY DEF Inv, TypeOK
  <2>2. claimed'[n][m] = IF Claims(n, m) THEN 0 ELSE Older(claimed[n][m])
    BY DEF IntervalPasses
  <2>3. Older(claimed[n][m]) \in 0..Cap
    BY <2>1, OlderInRange
  <2> QED
    BY <2>1, <2>2, <2>3, CapIsNat
<1>3. ASSUME NEW n \in Nodes, nodes[n] = Absent
      PROVE  nodes'[n] = Absent
  BY <1>3 DEF IntervalPasses
<1>4. ASSUME NEW n \in Nodes, nodes[n] # Absent
      PROVE  /\ nodes[n] \in Record
             /\ nodes'[n].age = Older(nodes[n].age)
             /\ nodes'[n].models = nodes[n].models
             /\ nodes'[n] \in Record
  <2>1. nodes[n] \in Record
    BY <1>4 DEF Inv, TypeOK
  <2>2. nodes'[n] = [nodes[n] EXCEPT !.age = Older(@)]
    BY <1>4 DEF IntervalPasses
  <2>3. Older(nodes[n].age) \in Int
    BY <2>1, OlderBounds DEF Record
  <2> QED
    BY <2>1, <2>2, <2>3 DEF Record
<1>5. ASSUME NEW msg \in gossip
      PROVE  /\ msg \in Message /\ [msg EXCEPT !.age = @ + 1] \in Message
             /\ [msg EXCEPT !.age = @ + 1].age = msg.age + 1
             /\ [msg EXCEPT !.age = @ + 1].node = msg.node
             /\ [msg EXCEPT !.age = @ + 1].models = msg.models
  <2>1. msg \in Message /\ msg.age < MaxDelay
    BY DEF Inv, TypeOK, IntervalPasses
  <2> QED
    BY <2>1, LimitAssumption DEF Message
<1>6. gossip' = {[msg EXCEPT !.age = @ + 1] : msg \in gossip}
      /\ UNCHANGED <<up, offers, changes, dht, found, merging>>
  BY DEF IntervalPasses
<1>7. TypeOK'
  <2>1. ASSUME NEW n \in Nodes
        PROVE  Older(heard[n]) \in 0..Cap /\ Older(listed[n]) \in 0..Cap
               /\ Older(told[n]) \in 0..Cap
    BY <1>1, OlderInRange
  <2>2. /\ heard' \in [Nodes -> 0..Cap] /\ listed' \in [Nodes -> 0..Cap]
        /\ told' \in [Nodes -> 0..Cap]
    BY <2>1 DEF IntervalPasses
  <2>3. claimed' \in [Nodes -> [Models -> 0..Cap]]
    <3>1. claimed' = [n \in Nodes |-> [m \in Models |-> claimed'[n][m]]]
      BY DEF IntervalPasses
    <3> QED
      BY <1>2, <3>1
  <2>4. ASSUME NEW n \in Nodes
        PROVE  nodes'[n] \in Record \union {Absent}
    <3>1. CASE nodes[n] = Absent
      BY <1>3, <3>1
    <3>2. CASE nodes[n] # Absent
      BY <1>4, <3>2
    <3> QED
      BY <3>1, <3>2
  <2>5. nodes' \in [Nodes -> Record \union {Absent}]
    <3>1. nodes' = [n \in Nodes |-> nodes'[n]]
      BY DEF IntervalPasses
    <3> QED
      BY <3>1, <2>4
  <2>6. gossip' \in SUBSET Message
    BY <1>5, <1>6
  <2> QED
    BY <1>6, <2>2, <2>3, <2>5, <2>6 DEF Inv, TypeOK
<1>8. ASSUME NEW n \in Nodes, nodes'[n] # Absent
      PROVE  RecordOK(n, nodes'[n], heard'[n], listed'[n], told'[n], claimed'[n])
  <2>1. nodes[n] # Absent
    BY <1>3, <1>8
  <2>2. RecordOK(n, nodes[n], heard[n], listed[n], told[n], claimed[n])
    BY <2>1, RecordsAgree DEF Inv, Records
  <2> DEFINE age == nodes[n].age
  <2>3. /\ age \in Int /\ nodes[n].models \in SUBSET Models
        /\ nodes'[n].age = Older(age) /\ nodes'[n].models = nodes[n].models
    BY <1>4, <2>1 DEF Record
  <2>4. /\ heard[n] \in Int /\ 0 <= heard[n] /\ heard[n] <= Cap
        /\ listed[n] \in Int /\ 0 <= listed[n] /\ listed[n] <= Cap
        /\ told[n] \in Int /\ 0 <= told[n] /\ told[n] <= Cap
        /\ Ahead[n] \in Int /\ Lag(n) \in Nat /\ MaxDelay \in Nat /\ Cap \in Nat
    BY <1>1, CapIsNat, LagIsNat, LimitAssumption
  <2>5. /\ age <= heard[n] + MaxDelay + Lag(n)
        /\ heard[n] <= age + Ahead[n] \/ listed[n] <= age \/ age >= Cap
    BY <2>2 DEF RecordOK
  <2> HIDE DEF age
  <2>6. Older(age) <= Older(heard[n]) + MaxDelay + Lag(n)
    BY <2>3, <2>4, <2>5 DEF Older
  <2>7. \/ Older(heard[n]) <= Older(age) + Ahead[n] \/ Older(listed[n]) <= Older(age)
        \/ Older(age) >= Cap
    BY <2>3, <2>4, <2>5 DEF Older
  <2>8. ASSUME NEW m \in nodes[n].models
        PROVE  claimed'[n][m] <= Older(told[n]) + MaxDelay
    <3>1. claimed[n][m] <= told[n] + MaxDelay
      BY <2>2 DEF RecordOK
    <3>2. claimed[n][m] \in 0..Cap /\ claimed'[n][m] \in {0, Older(claimed[n][m])}
      BY <1>2, <2>3
    <3>3. Older(claimed[n][m]) <= Older(told[n]) + MaxDelay /\ Older(told[n]) \in Nat
      BY <2>4, <3>1, <3>2 DEF Older
    <3> QED
      BY <2>4, <3>2, <3>3
  <2>9. heard'[n] = Older(heard[n]) /\ listed'[n] = Older(listed[n]) /\ told'[n] = Older(told[n])
    BY <1>1
  <2> QED
    BY <2>3, <2>6, <2>7, <2>8, <2>9 DEF RecordOK
<1>9. Supported'
  <2>1. ASSUME NEW n \in Nodes, NEW m \in Models, Claims(n, m)'
        PROVE  claimed'[n][m] = 0
    <3>1. Claims(n, m)
      BY <1>6, <2>1 DEF Claims
    <3> QED
      BY <1>2, <3>1
  <2>2. ASSUME NEW msg \in gossip, NEW m \in msg.models
        PROVE  claimed'[msg.node][m] <= msg.age + 1
    <3>1. /\ msg.node \in Nodes /\ m \in Models /\ msg.age \in Nat
          /\ claimed[msg.node][m] <= msg.age
      <4>1. msg \in Message
        BY <1>5
      <4>2. msg.node \in Nodes /\ m \in Models /\ msg.age \in Nat
        BY <4>1, LimitAssumption DEF Message
      <4> QED
        BY <4>2 DEF Inv, Supported
    <3>2. claimed[msg.node][m] \in 0..Cap
          /\ claimed'[msg.node][m] \in {0, Older(claimed[msg.node][m])}
      BY <1>2, <3>1
    <3> QED
      BY <3>1, <3>2, CapIsNat DEF Older
  <2>3. ASSUME NEW new \in gossip', NEW m \in new.models
        PROVE  claimed'[new.node][m] <= new.age
    <3>1. PICK msg \in gossip : new = [msg EXCEPT !.age = @ + 1]
      BY <1>6
    <3>2. new.node = msg.node /\ new.models = msg.models /\ new.age = msg.age + 1
      BY <1>5, <3>1
    <3> QED
      BY <2>2, <2>3, <3>2
  <2> QED
    BY <2>1, <2>3 DEF Supported
<1> QED
  BY <1>7, <1>8, <1>9, RecordsAgreeNext DEF Inv, Records

\* The steps that leave the dates of the records alone.
LEMMA PruneStep ==
    ASSUME Inv, PruneStale
    PROVE  Inv'
<1>1. /\ \A n \in Nodes : nodes'[n] # Absent => nodes'[n] = nodes[n]
      /\ UNCHANGED <<up, offers, changes, gossip, dht, found, merging, history>>
  BY DEF PruneStale
<1>2. nodes' \in [Nodes -> Record \union {Absent}]
  BY DEF PruneStale, Inv, TypeOK
<1>3. TypeOK'
  BY <1>1, <1>2 DEF Inv, TypeOK, history
<1>4. Records'
  BY <1>1, RecordsAgree DEF Inv, Records, history
<1>5. Supported'
  BY <1>1 DEF Inv, Supported, Claims, history
<1> QED
  BY <1>3, <1>4, <1>5, RecordsAgreeNext DEF Inv

\* A node that starts is configured with its models, and with no others.
LEMMA StartStep ==
    ASSUME Inv, NEW n \in Nodes, NodeStarts(n)
    PROVE  Inv'
<1>1. up' \in SUBSET Nodes /\ UNCHANGED <<nodes, gossip, dht, found, merging, heard, listed, told>>
  BY DEF NodeStarts, Inv, TypeOK
<1>2. CASE UNCHANGED <<offers, changes, claimed>>
  <2>1. TypeOK' /\ Supported'
    BY <1>1, <1>2 DEF Inv, TypeOK, Supported, Claims
  <2>2. Records'
    BY <1>1, <1>2, RecordsAgree DEF Inv, Records
  <2> QED
    BY <2>1, <2>2, RecordsAgreeNext DEF Inv
<1>3. ASSUME NEW models \in Configs[n], changes' = changes + 1,
             offers' = [offers EXCEPT ![n] = models],
             claimed' = [claimed EXCEPT ![n] =
                            [m \in Models |-> IF m \in models THEN 0 ELSE @[m]]]
      PROVE  Inv'
  <2>1. models \in SUBSET Models
    BY ConfigsAssumption
  <2>2. ASSUME NEW k \in Nodes, NEW m \in Models
        PROVE  /\ claimed[k][m] \in 0..Cap
               /\ claimed'[k][m] = IF k = n /\ m \in models THEN 0 ELSE claimed[k][m]
    BY <1>3 DEF Inv, TypeOK
  <2>3. TypeOK'
    BY <1>1, <1>3, <2>1, CapIsNat DEF Inv, TypeOK
  <2>4. \A k \in Nodes, m \in Models :
            claimed'[k][m] \in {0, claimed[k][m]} /\ claimed[k][m] \in Nat
    BY <2>2, CapIsNat
  <2>5. Supported'
    <3>1. ASSUME NEW k \in Nodes, NEW m \in Models, Claims(k, m)'
          PROVE  claimed'[k][m] = 0
      <4>1. Claims(k, m) \/ (k = n /\ m \in models)
        BY <1>1, <1>3, <3>1 DEF Claims, Inv, TypeOK
      <4> QED
        BY <2>2, <2>4, <4>1 DEF Inv, Supported
    <3>2. ASSUME NEW msg \in gossip', NEW m \in msg.models
          PROVE  claimed'[msg.node][m] <= msg.age
      <4>1. msg.node \in Nodes /\ m \in Models /\ msg.age \in Nat
            /\ claimed[msg.node][m] <= msg.age
        BY <1>1, <3>2, LimitAssumption DEF Inv, TypeOK, Message, Supported
      <4> QED
        BY <2>4, <4>1
    <3> QED
      BY <3>1, <3>2 DEF Supported
  <2>6. Records'
    <3> SUFFICES ASSUME NEW k \in Nodes, nodes'[k] # Absent
                 PROVE  RecordOK(k, nodes'[k], heard'[k], listed'[k], told'[k], claimed'[k])
      BY DEF Records
    <3>1. RecordOK(k, nodes[k], heard[k], listed[k], told[k], claimed[k])
      BY <1>1, RecordsAgree DEF Inv, Records
    <3>2. nodes[k].models \in SUBSET Models /\ told[k] \in Nat /\ MaxDelay \in Nat
      BY <1>1, CapIsNat, LimitAssumption DEF Inv, TypeOK, Record
    <3> QED
      BY <1>1, <2>4, <3>1, <3>2 DEF RecordOK
  <2> QED
    BY <2>3, <2>5, <2>6, RecordsAgreeNext DEF Inv
<1> QED
  BY <1>2, <1>3 DEF NodeStarts

\* Heartbeats and provider records only name models their node is configured with.
LEMMA SendStep ==
    ASSUME Inv, NEW n \in Nodes, Heartbeat(n) \/ Provide(n)
    PROVE  Inv'
<1>1. UNCHANGED <<nodes, up, offers, changes, found, merging, history>>
  BY DEF Heartbeat, Provide
<1>2. offers[n] \in SUBSET Models /\ \A m \in offers[n] : claimed[n][m] = 0
  BY DEF Inv, TypeOK, Supported, Claims
<1>3. Records'
  BY <1>1, RecordsAgree DEF Inv, Records, history
<1>4. CASE Heartbeat(n)
  <2> DEFINE msg == [node |-> n, age |-> 0, models |-> offers[n]]
  <2>1. msg \in Message /\ msg.node = n /\ msg.age = 0 /\ msg.models = offers[n]
    BY <1>2, LimitAssumption DEF Message
  <2>2. gossip' = gossip \union {msg} /\ dht' = dht
    BY <1>4 DEF Heartbeat
  <2> HIDE DEF msg
  <2>3. TypeOK' /\ Supported'
    BY <1>1, <1>2, <2>1, <2>2 DEF Inv, TypeOK, Supported, Claims, history
  <2> QED
    BY <1>3, <2>3, RecordsAgreeNext DEF Inv
<1>5. CASE Provide(n)
  <2>1. PICK models \in SUBSET offers[n] \ {{}} : dht' = dht \union ({n} \X models)
    BY <1>5 DEF Provide
  <2>2. gossip' = gossip /\ dht' \subseteq Offer
    BY <1>2, <1>5, <2>1 DEF Provide, Offer, Inv, TypeOK
  <2>3. TypeOK'
    BY <1>1, <2>2 DEF Inv, TypeOK, history
  <2>4. \A k \in Nodes, m \in Models : Claims(k, m)' => Claims(k, m)
    BY <1>1, <2>1 DEF Claims
  <2>5. Supported'
    BY <1>1, <2>2, <2>4 DEF Inv, Supported, history
  <2> QED
    BY <1>3, <2>3, <2>5, RecordsAgreeNext DEF Inv
<1> QED
  BY <1>4, <1>5

\* The rest moves provider records around or takes something away.
LEMMA QuietStep ==
    ASSUME Inv, UNCHANGED <<nodes, offers, changes, history>>,
           up' \subseteq up, gossip' \subseteq gossip, dht' \subseteq dht,
           found' \subseteq found \union dht, merging' \subseteq merging \union found
    PROVE  Inv'
<1>1. TypeOK'
  BY DEF Inv, TypeOK, history
<1>2. Records'
  BY RecordsAgree DEF Inv, Records, history
<1>3. \A k \in Nodes, m \in Models : Claims(k, m)' => Claims(k, m)
  BY DEF Claims
<1>4. Supported'
  BY <1>3 DEF Inv, Supported, history
<1> QED
  BY <1>1, <1>2, <1>4, RecordsAgreeNext DEF Inv

\* Every step keeps the invariant.
LEMMA NextInv == Inv /\ [Next]_vars => Inv'
<1> SUFFICES ASSUME Inv, [Next]_vars PROVE Inv'
  OBVIOUS
<1>1. ASSUME NEW n \in Nodes, NodeStops(n) PROVE Inv'
  BY <1>1, QuietStep DEF NodeStops
<1>2. ASSUME NEW n \in Nodes, NEW m \in Models, ExpireRecord(n, m) PROVE Inv'
  BY <1>2, QuietStep DEF ExpireRecord
<1>3. ASSUME NEW msg \in gossip, LoseHeartbeat(msg) PROVE Inv'
  BY <1>3, QuietStep DEF LoseHeartbeat
<1>4. CASE ListModelAvailability
  BY <1>4, QuietStep DEF ListModelAvailability
<1>5. CASE BuildKnownNodeModelMap
  BY <1>5, QuietStep DEF BuildKnownNodeModelMap
<1>6. CASE UNCHANGED vars
  BY <1>6, QuietStep DEF vars
<1> QED
  BY <1>1, <1>2, <1>3, <1>4, <1>5, <1>6, ApplyHealthStep, AnnounceStep, IntervalStep,
     PruneStep, StartStep, SendStep DEF Next, DeliverOrLose, Merge

\* The invariant holds for ever.
LEMMA InvAlways == Spec => []Inv
BY InitInv, NextInv, PTL DEF Spec

(***************************************************************************)
(* The registry keeps its shape, LastSeen trails the last heartbeat by no  *)
(* more than its delay and the lag of its sender's clock, and the models   *)
(* of before are off the routes once something newer is known.             *)
(***************************************************************************)
THEOREM RegistryCorrect == Spec => [](TypeOK /\ FreshAsHeard /\ RoutesFollowNews)
<1>1. Inv => TypeOK /\ FreshAsHeard /\ RoutesFollowNews
  BY DEF Inv
<1> QED
  BY <1>1, InvAlways, PTL

(***************************************************************************)
(* Whatever is delayed, lost, merged or restarted, a node that is pruned   *)
(* was silent for all of the window that gossip's delay and the lag of its *)
(* clock leave.                                                            *)
(***************************************************************************)
THEOREM HeardNodesAreKept == Spec => HeardNodesStay
<1> DEFINE Stay == \A n \in Nodes : nodes[n] # Absent /\ nodes'[n] = Absent =>
                       heard[n] + MaxDelay + Lag(n) > MissedLimit
<1>1. Inv /\ [Next]_vars => [Stay]_vars
  <2> SUFFICES ASSUME Inv, Next, NEW n \in Nodes, nodes[n] # Absent, nodes'[n] = Absent
               PROVE  heard[n] + MaxDelay + Lag(n) > MissedLimit
    OBVIOUS
  <2>1. PruneStale
    <3>1. ASSUME nodes' = nodes PROVE FALSE
      BY <3>1
    <3>2. ASSUME NEW msg \in gossip, ApplyHealthJSON(msg) PROVE FALSE
      <4>1. /\ msg.node \in Nodes /\ msg.age - Ahead[msg.node] \in Int
            /\ msg.models \in SUBSET Models /\ ModelsOf(msg.node) \in SUBSET Models
        BY ClockAssumption, LimitAssumption DEF Inv, TypeOK, Message, Record, ModelsOf
      <4> QED
        BY <3>2, <4>1, RecordPresent DEF ApplyHealthJSON, Inv, TypeOK
    <3>3. ASSUME NEW k \in Nodes, ApplyNodeAnnounceProto(k) PROVE FALSE
      <4> DEFINE models == {m \in Models : <<k, m>> \in merging}
      <4>1. nodes' = [nodes EXCEPT ![k] = [age |-> 0, models |-> models]]
        BY <3>3 DEF ApplyNodeAnnounceProto
      <4>2. models \in SUBSET Models
        OBVIOUS
      <4> HIDE DEF models
      <4>3. [age |-> 0, models |-> models] # Absent
        BY <4>2, RecordPresent
      <4> QED
        BY <4>1, <4>3 DEF Inv, TypeOK
    <3>4. ASSUME IntervalPasses PROVE FALSE
      <4>1. nodes[n] \in [age : Int, models : SUBSET Models]
        BY DEF Inv, TypeOK, Record
      <4>2. nodes'[n] = [nodes[n] EXCEPT !.age = Older(@)]
        BY <3>4 DEF IntervalPasses
      <4>3. nodes'[n] = [age |-> Older(nodes[n].age), models |-> nodes[n].models]
        BY <4>1, <4>2
      <4>4. nodes[n].age \in Int /\ nodes[n].models \in SUBSET Models
        BY <4>1
      <4>5. Older(nodes[n].age) \in Int
        BY <4>4, OlderBounds
      <4>6. nodes'[n] # Absent
        BY <4>3, <4>4, <4>5, RecordPresent
      <4> QED
        BY <4>6
    <3> QED
      BY <3>1, <3>2, <3>3, <3>4 DEF Next, DeliverOrLose, Merge, Heartbeat, Provide,
         NodeStops, NodeStarts, ExpireRecord, LoseHeartbeat, ListModelAvailability,
         BuildKnownNodeModelMap
  <2>2. nodes[n].age > MissedLimit
    BY <2>1 DEF PruneStale, IsStale
  <2>3. /\ nodes[n].age \in Int /\ heard[n] \in Int
        /\ MissedLimit \in Int /\ MaxDelay \in Int /\ Lag(n) \in Int
    BY CapIsNat, LimitAssumption, LagIsNat DEF Inv, TypeOK, Record
  <2> QED
    BY <2>2, <2>3 DEF Inv, FreshAsHeard
<1> QED
  BY <1>1, InvAlways, PTL DEF Spec, HeardNodesStay

(***************************************************************************)
(* A node that survives a pruning was heard, or merged by the model sync,  *)
(* within the window that its own clock measures.                          *)
(***************************************************************************)
THEOREM KeptNodesAreRecent == Spec => NobodyStaysForNothing
<1> DEFINE Recent == PruneStale => \A n \in Nodes : nodes'[n] # Absent =>
                         heard[n] <= MissedLimit + Ahead[n] \/ listed[n] <= MissedLimit
<1>1. Inv /\ [Next]_vars => [Recent]_vars
  <2> SUFFICES ASSUME Inv, PruneStale, NEW n \in Nodes, nodes'[n] # Absent
               PROVE  heard[n] <= MissedLimit + Ahead[n] \/ listed[n] <= MissedLimit
    OBVIOUS
  <2>1. nodes[n] # Absent /\ ~(nodes[n].age > MissedLimit)
    BY DEF PruneStale, IsStale
  <2>2. /\ nodes[n].age \in Int /\ heard[n] \in Int /\ listed[n] \in Int
        /\ MissedLimit \in Int /\ Ahead[n] \in Int /\ Cap \in Int /\ Cap > MissedLimit
    BY <2>1, CapIsNat, LimitAssumption, ClockAssumption DEF Inv, TypeOK, Record
  <2> QED
    BY <2>1, <2>2 DEF Inv, Dated
<1> QED
  BY <1>1, InvAlways, PTL DEF Spec, NobodyStaysForNothing

(***************************************************************************)
(* Nothing brings a forgotten node back: once a node is down, with no      *)
(* heartbeat under way and no provider record in the DHT or in the model   *)
(* sync, it stays forgotten until it starts again; it does not return to   *)
(* the registry, and a record that is still there gains no model and no    *)
(* date, grows older with every interval and goes with the first pruning   *)
(* past the window.  With time and pruning going on this is                *)
(* StoppedNodesGo.                                                         *)
(***************************************************************************)
Forgotten(n) ==
    /\ n \notin up
    /\ \A msg \in gossip : msg.node # n
    /\ \A offer \in dht \union found \union merging : offer[1] # n

OnlyFades(n) ==
    \/ nodes'[n] = Absent
    \/ /\ nodes[n] # Absent
       /\ nodes'[n].models = nodes[n].models
       /\ nodes'[n].age = IF IntervalPasses THEN Older(nodes[n].age) ELSE nodes[n].age
       /\ ~(PruneStale /\ nodes[n].age > MissedLimit)

ForgottenFade ==
    \A n \in Nodes : Forgotten(n) /\ n \notin up' => Forgotten(n)' /\ OnlyFades(n)

\* What a step that is no interval and no pruning may do to a node it does not touch.
LEMMA LeftAlone ==
    ASSUME NEW n \in Nodes, nodes'[n] = nodes[n], ~IntervalPasses, ~PruneStale
    PROVE  OnlyFades(n)
BY DEF OnlyFades

LEMMA FadeStep ==
    ASSUME Inv, Next, NEW n \in Nodes, Forgotten(n), n \notin up'
    PROVE  Forgotten(n)' /\ OnlyFades(n)
<1>0. n \notin up /\ TypeOK
  BY DEF Forgotten, Inv
<1>1. CASE IntervalPasses
  <2>1. OnlyFades(n)
    <3>1. CASE nodes[n] = Absent
      BY <1>1, <3>1 DEF IntervalPasses, OnlyFades
    <3>2. CASE nodes[n] # Absent
      <4>1. nodes[n] \in [age : Int, models : SUBSET Models]
            /\ nodes'[n] = [nodes[n] EXCEPT !.age = Older(@)]
        BY <1>0, <1>1, <3>2 DEF TypeOK, Record, IntervalPasses
      <4>2. ~(PruneStale /\ nodes[n].age > MissedLimit)
        <5>1. ASSUME PruneStale, nodes[n].age > MissedLimit PROVE FALSE
          <6>1. nodes'[n] = Absent
            BY <3>2, <5>1 DEF PruneStale, IsStale
          <6>2. nodes'[n] = [age |-> Older(nodes[n].age), models |-> nodes[n].models]
            BY <4>1
          <6>3. nodes[n].age \in Int /\ nodes[n].models \in SUBSET Models
            BY <4>1
          <6>4. Older(nodes[n].age) \in Int
            BY <6>3, OlderBounds
          <6> QED
            BY <6>1, <6>2, <6>3, <6>4, RecordPresent
        <5> QED
          BY <5>1
      <4> QED
        BY <1>1, <3>2, <4>1, <4>2 DEF OnlyFades
    <3> QED
      BY <3>1, <3>2
  <2>2. \A msg \in gossip' : msg.node # n
    <3>1. \A msg \in gossip : [msg EXCEPT !.age = @ + 1].node = msg.node
      BY <1>0 DEF TypeOK, Message
    <3>2. gossip' = {[msg EXCEPT !.age = @ + 1] : msg \in gossip}
      BY <1>1 DEF IntervalPasses
    <3> QED
      BY <3>1, <3>2 DEF Forgotten
  <2>3. UNCHANGED <<up, dht, found, merging>>
    BY <1>1 DEF IntervalPasses
  <2> QED
    BY <2>1, <2>2, <2>3 DEF Forgotten
<1>2. CASE PruneStale /\ ~IntervalPasses
  BY <1>2 DEF PruneStale, IsStale, Forgotten, OnlyFades
<1>3. CASE ~IntervalPasses /\ ~PruneStale
  <2>1. ASSUME NEW k \in Nodes, Heartbeat(k) \/ Provide(k) \/ NodeStops(k) \/ NodeStarts(k)
        PROVE  Forgotten(n)' /\ nodes' = nodes
    <3>1. CASE Heartbeat(k) \/ Provide(k)
      <4>1. k # n
        BY <1>0, <3>1 DEF Heartbeat, Provide
      <4> QED
        BY <3>1, <4>1 DEF Heartbeat, Provide, Forgotten
    <3>2. CASE NodeStops(k) \/ NodeStarts(k)
      BY <3>2 DEF NodeStops, NodeStarts, Forgotten
    <3> QED
      BY <2>1, <3>1, <3>2
  <2>2. ASSUME \/ \E k \in Nodes, m \in Models : ExpireRecord(k, m)
               \/ \E msg \in gossip : LoseHeartbeat(msg)
               \/ ListModelAvailability \/ BuildKnownNodeModelMap
        PROVE  Forgotten(n)' /\ nodes' = nodes
    BY <2>2 DEF ExpireRecord, LoseHeartbeat, ListModelAvailability, BuildKnownNodeModelMap,
                Forgotten
  <2>3. ASSUME NEW msg \in gossip, ApplyHealthJSON(msg)
        PROVE  Forgotten(n)' /\ nodes'[n] = nodes[n]
    <3>1. msg.node # n
      BY DEF Forgotten
    <3> QED
      BY <1>0, <2>3, <3>1 DEF ApplyHealthJSON, Hears, Forgotten, TypeOK
  <2>4. ASSUME NEW k \in Nodes, ApplyNodeAnnounceProto(k)
        PROVE  Forgotten(n)' /\ nodes'[n] = nodes[n]
    <3>1. PICK m \in Models : <<k, m>> \in merging
      BY <2>4 DEF ApplyNodeAnnounceProto
    <3>2. k # n
      BY <3>1 DEF Forgotten
    <3> QED
      BY <1>0, <2>4, <3>2 DEF ApplyNodeAnnounceProto, Forgotten, TypeOK
  <2> QED
    BY <1>3, <2>1, <2>2, <2>3, <2>4, LeftAlone DEF Next, DeliverOrLose, Merge
<1> QED
  BY <1>1, <1>2, <1>3

THEOREM ForgottenNodesFade == Spec => [][ForgottenFade]_vars
<1>1. Inv /\ [Next]_vars => [ForgottenFade]_vars
  BY FadeStep DEF ForgottenFade
<1> QED
  BY <1>1, InvAlways, PTL DEF Spec

=============================================================================

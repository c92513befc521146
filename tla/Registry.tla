------------------------------ MODULE Registry ------------------------------
(***************************************************************************)
(* The gateway's registry of provider nodes: health heartbeats that gossip *)
(* delivers late, out of order or not at all, the pruning of stale nodes,  *)
(* and the model sync that merges the provider records of the DHT.         *)
(*                                                                         *)
(* Time is counted in heartbeat intervals, and a point in time is kept as  *)
(* its age: how long ago it was, up to Cap, beyond which nothing tells two *)
(* ages apart.  A sender whose clock is ahead leaves an age that is too    *)
(* small, even a negative one, and one whose clock lags one too large.     *)
(***************************************************************************)
EXTENDS Integers

CONSTANTS
    Nodes, Models,
    Configs,        \* the lists of models a node may be configured to advertise
    Advertised,     \* the models the gateway looks up in the model sync
    MissedLimit,    \* intervals without an update before a node is stale
    MaxDelay,       \* bound: a heartbeat takes at most this long or is lost
    MaxChanges,     \* bound: how often a node starts with another list
    Ahead,          \* how far a node's clock is ahead of the gateway's; if it lags, < 0
    Absent          \* a node without a record

ASSUME LimitAssumption == MissedLimit \in Nat \ {0} /\ MaxDelay \in Nat
ASSUME ConfigsAssumption ==
    Configs \in [Nodes -> SUBSET SUBSET Models] /\ Advertised \subseteq Models
ASSUME ChangesAssumption == MaxChanges \in Nat
ASSUME ClockAssumption == Ahead \in [Nodes -> Int]
ASSUME AbsentAssumption == Absent \notin [age : Int, models : SUBSET Models]

VARIABLES
    nodes,      \* node -> its record (the age of LastSeen, Models) or Absent
    up,         \* the nodes that run
    offers,     \* node -> the models it is configured to advertise
    changes,    \* how often a node has started with another list
    gossip,     \* heartbeats on their way, each with its age and its models
    dht,        \* provider records: pairs of a node and a model
    found,      \* provider records the model sync got and has not used yet
    merging,    \* those it is merging into the registry, of known nodes
    heard,      \* node -> how long ago its last heartbeat came in
    listed,     \* node -> how long ago the model sync last merged it
    told,       \* node -> how long ago its last heartbeat that named a model came in
    claimed     \* node -> model -> how long ago the node was configured with the model,
                \* or a provider record that says so was in the DHT or in the model sync

history == <<heard, listed, told, claimed>>
vars == <<nodes, up, offers, changes, gossip, dht, found, merging, history>>

Cap == MissedLimit + MaxDelay + 1
Offer == Nodes \X Models
Record == [age : Int, models : SUBSET Models]
Message == [node : Nodes, age : 0..MaxDelay, models : SUBSET Models]

(***************************************************************************)
(* A record is an age and models, messages and ages stay within their      *)
(* bounds, and the DHT holds pairs of a node and a model.                  *)
(***************************************************************************)
TypeOK ==
    /\ nodes \in [Nodes -> Record \union {Absent}]
    /\ up \in SUBSET Nodes
    /\ offers \in [Nodes -> SUBSET Models]
    /\ changes \in Nat
    /\ gossip \in SUBSET Message
    /\ dht \in SUBSET Offer
    /\ found \in SUBSET Offer
    /\ merging \in SUBSET Offer
    /\ heard \in [Nodes -> 0..Cap]
    /\ listed \in [Nodes -> 0..Cap]
    /\ told \in [Nodes -> 0..Cap]
    /\ claimed \in [Nodes -> [Models -> 0..Cap]]

\* The model m of node n is in its configuration, or in a record that is not gone.
Claims(n, m) == m \in offers[n] \/ <<n, m>> \in dht \union found \union merging

Init ==
    /\ nodes = [n \in Nodes |-> Absent]
    /\ up \in SUBSET Nodes
    /\ offers \in [Nodes -> SUBSET Models] /\ \A n \in Nodes : offers[n] \in Configs[n]
    /\ changes = 0
    /\ gossip = {} /\ dht = {} /\ found = {} /\ merging = {}
    /\ heard = [n \in Nodes |-> Cap]
    /\ listed = [n \in Nodes |-> Cap]
    /\ told = [n \in Nodes |-> Cap]
    /\ claimed = [n \in Nodes |-> [m \in Models |-> IF m \in offers[n] THEN 0 ELSE Cap]]

Known == {n \in Nodes : nodes[n] # Absent}
ModelsOf(n) == IF nodes[n] = Absent THEN {} ELSE nodes[n].models
NodesForModel(model) == {n \in Nodes : model \in ModelsOf(n)}

-----------------------------------------------------------------------------
\* publishHealthUpdate: the timestamp is the node's own clock.
Heartbeat(n) ==
    /\ n \in up
    /\ gossip' = gossip \union {[node |-> n, age |-> 0, models |-> offers[n]]}
    /\ UNCHANGED <<nodes, up, offers, changes, dht, found, merging, history>>

Hears(msg) ==
    /\ msg \in gossip
    /\ gossip' = gossip \ {msg}
    /\ heard' = [heard EXCEPT ![msg.node] = 0]
    /\ told' = IF msg.models = {} THEN told ELSE [told EXCEPT ![msg.node] = 0]
    /\ UNCHANGED <<up, offers, changes, dht, found, merging, listed, claimed>>

\* Mutants: LastSeen is set when the record is made; models are added to those of before.
ApplyHealthJSONSeenOnce(msg) ==
    LET n == msg.node IN
    /\ Hears(msg)
    /\ nodes' = [nodes EXCEPT ![n] =
           [age |-> IF @ = Absent THEN msg.age - Ahead[n] ELSE @.age,
            models |-> IF msg.models # {} THEN msg.models ELSE ModelsOf(n)]]
ApplyHealthJSONAppending(msg) ==
    LET n == msg.node IN
    /\ Hears(msg)
    /\ nodes' = [nodes EXCEPT ![n] =
           [age |-> msg.age - Ahead[n], models |-> ModelsOf(n) \union msg.models]]

\* LastSeen is the sender's timestamp, whatever was there before; no models, no change.
ApplyHealthJSON(msg) ==
    LET n == msg.node IN
    /\ Hears(msg)
    /\ nodes' = [nodes EXCEPT ![n] =
           [age |-> msg.age - Ahead[n],
            models |-> IF msg.models # {} THEN msg.models ELSE ModelsOf(n)]]

LoseHeartbeat(msg) ==
    /\ msg \in gossip
    /\ gossip' = gossip \ {msg}
    /\ UNCHANGED <<nodes, up, offers, changes, dht, found, merging, history>>

\* Mutant: the last interval of the window is already too late.
IsStaleEarly(n) == nodes[n] # Absent /\ nodes[n].age >= MissedLimit

IsStale(n) == nodes[n] # Absent /\ nodes[n].age > MissedLimit

\* Mutant: the loop ends with the first stale node.
PruneFirst ==
    /\ \E n \in Nodes : IsStale(n) /\ nodes' = [nodes EXCEPT ![n] = Absent]
    /\ UNCHANGED <<up, offers, changes, gossip, dht, found, merging, history>>

PruneStale ==
    /\ \E n \in Nodes : IsStale(n)
    /\ nodes' = [n \in Nodes |-> IF IsStale(n) THEN Absent ELSE nodes[n]]
    /\ UNCHANGED <<up, offers, changes, gossip, dht, found, merging, history>>

-----------------------------------------------------------------------------
\* advertiseCapabilities: the provider records outlive the node.
Provide(n) ==
    /\ n \in up
    /\ \E models \in SUBSET offers[n] \ {{}} : dht' = dht \union ({n} \X models)
    /\ UNCHANGED <<nodes, up, offers, changes, gossip, found, merging, history>>

ExpireRecord(n, m) ==
    /\ <<n, m>> \in dht
    /\ dht' = dht \ {<<n, m>>}
    /\ UNCHANGED <<nodes, up, offers, changes, gossip, found, merging, history>>

\* Mutant: answers from a cache that keeps records the DHT dropped.
ListModelAvailabilityCached ==
    /\ found = {} /\ merging = {}
    /\ found' \in SUBSET {offer \in Offer : offer[2] \in Advertised}
    /\ UNCHANGED <<nodes, up, offers, changes, gossip, dht, merging, history>>

\* A lookup that runs out of its 8 seconds returns what it has.
ListModelAvailability ==
    /\ found = {} /\ merging = {}
    /\ found' \in SUBSET {offer \in dht : offer[2] \in Advertised}
    /\ UNCHANGED <<nodes, up, offers, changes, gossip, dht, merging, history>>

\* reg.List and buildKnownNodeModelMap: only nodes known by now are merged.
BuildKnownNodeModelMap ==
    /\ found # {}
    /\ merging' = {offer \in found : offer[1] \in Known}
    /\ found' = {}
    /\ UNCHANGED <<nodes, up, offers, changes, gossip, dht, history>>

ApplyNodeAnnounceProto(n) ==
    LET models == {m \in Models : <<n, m>> \in merging} IN
    /\ models # {}
    /\ nodes' = [nodes EXCEPT ![n] = [age |-> 0, models |-> models]]
    /\ merging' = merging \ ({n} \X models)
    /\ listed' = [listed EXCEPT ![n] = 0]
    /\ UNCHANGED <<up, offers, changes, gossip, dht, found, heard, told, claimed>>

-----------------------------------------------------------------------------
NodeStops(n) ==
    /\ n \in up
    /\ up' = up \ {n}
    /\ UNCHANGED <<nodes, offers, changes, gossip, dht, found, merging, history>>

\* A node reads its configuration when it starts and at no other time.
NodeStarts(n) ==
    /\ n \notin up
    /\ up' = up \union {n}
    /\ \/ UNCHANGED <<offers, changes, claimed>>
       \/ /\ changes < MaxChanges /\ changes' = changes + 1
          /\ \E models \in Configs[n] \ {offers[n]} :
                 /\ offers' = [offers EXCEPT ![n] = models]
                 /\ claimed' = [claimed EXCEPT ![n] =
                        [m \in Models |-> IF m \in models THEN 0 ELSE @[m]]]
    /\ UNCHANGED <<nodes, gossip, dht, found, merging, heard, listed, told>>

\* The merge loop of the model sync waits for nothing, so no interval passes in it.
Older(age) == IF age < Cap THEN age + 1 ELSE Cap
IntervalPasses ==
    /\ merging = {}
    /\ \A msg \in gossip : msg.age < MaxDelay
    /\ gossip' = {[msg EXCEPT !.age = @ + 1] : msg \in gossip}
    /\ nodes' = [n \in Nodes |->
           IF nodes[n] = Absent THEN Absent ELSE [nodes[n] EXCEPT !.age = Older(@)]]
    /\ heard' = [n \in Nodes |-> Older(heard[n])]
    /\ listed' = [n \in Nodes |-> Older(listed[n])]
    /\ told' = [n \in Nodes |-> Older(told[n])]
    /\ claimed' = [n \in Nodes |-> [m \in Models |->
           IF Claims(n, m) THEN 0 ELSE Older(claimed[n][m])]]
    /\ UNCHANGED <<up, offers, changes, dht, found, merging>>

DeliverOrLose(msg) == ApplyHealthJSON(msg) \/ LoseHeartbeat(msg)
Merge == BuildKnownNodeModelMap \/ \E n \in Nodes : ApplyNodeAnnounceProto(n)

Next ==
    \/ \E n \in Nodes : Heartbeat(n) \/ Provide(n) \/ NodeStops(n) \/ NodeStarts(n)
    \/ \E n \in Nodes, m \in Models : ExpireRecord(n, m)
    \/ \E msg \in gossip : DeliverOrLose(msg)
    \/ PruneStale
    \/ ListModelAvailability \/ Merge
    \/ IntervalPasses

Spec == Init /\ [][Next]_vars

(***************************************************************************)
(* Time passes, the prune ticker fires, a sync that started ends, a        *)
(* heartbeat comes or is lost, and the DHT drops the records of a node     *)
(* that has stopped providing them.                                        *)
(***************************************************************************)
Expire(n) == n \notin up /\ \E m \in Models : ExpireRecord(n, m)
Arrive(n) == \E msg \in gossip : msg.node = n /\ msg.age = MaxDelay /\ DeliverOrLose(msg)
Fairness ==
    /\ SF_vars(IntervalPasses) /\ WF_vars(PruneStale)
    /\ WF_vars(Merge)
    /\ \A n \in Nodes : WF_vars(Arrive(n))
    /\ \A n \in Nodes : WF_vars(Expire(n))
FairSpec == Spec /\ Fairness

-----------------------------------------------------------------------------
Lag(n) == IF Ahead[n] < 0 THEN 0 - Ahead[n] ELSE 0

(***************************************************************************)
(* LastSeen is never further back than gossip can delay a heartbeat and    *)
(* its sender's clock can lag: how old a record looks is bounded by when   *)
(* its node was last heard.                                                *)
(***************************************************************************)
FreshAsHeard ==
    \A n \in Nodes : nodes[n] # Absent =>
        nodes[n].age <= heard[n] + MaxDelay + Lag(n)

(***************************************************************************)
(* How much of the window a late heartbeat and a lagging clock use up: a   *)
(* node that is pruned was silent for all the rest of it.  (If the lag is  *)
(* longer than the window nothing is left of it, and a node may be pruned  *)
(* between one heartbeat and the next.)                                    *)
(***************************************************************************)
HeardNodesStay ==
    [][\A n \in Nodes : nodes[n] # Absent /\ nodes'[n] = Absent =>
           heard[n] + MaxDelay + Lag(n) > MissedLimit]_vars

(***************************************************************************)
(* What the comment of PruneStale says it removes: nodes that have not     *)
(* been heard from within the window.                                      *)
(***************************************************************************)
PrunedOnlyIfUnheard ==
    [][\A n \in Nodes : nodes[n] # Absent /\ nodes'[n] = Absent =>
           heard[n] > MissedLimit]_vars

(***************************************************************************)
(* A node that pruning leaves in place was heard, or merged by the model   *)
(* sync, within the window (longer by what its clock is ahead).            *)
(***************************************************************************)
NobodyStaysForNothing ==
    [][PruneStale => \A n \in Nodes : nodes'[n] # Absent =>
           heard[n] <= MissedLimit + Ahead[n] \/ listed[n] <= MissedLimit]_vars

(***************************************************************************)
(* A model that a node has given up may still be on its route, but only as *)
(* long as nothing newer is known: a heartbeat that names models ends it,  *)
(* whatever old heartbeats and merges come late, unless the node gave the  *)
(* model up while that heartbeat was under way or a provider record still  *)
(* named it since.                                                         *)
(***************************************************************************)
RoutesFollowNews ==
    \A m \in Models : \A n \in NodesForModel(m) : claimed[n][m] <= told[n] + MaxDelay

(***************************************************************************)
(* A node that stays down leaves the registry in the end, and with it the  *)
(* routes to it.                                                           *)
(***************************************************************************)
StoppedNodesGo ==
    \A n \in Nodes : n \notin up ~> n \in up \/ nodes[n] = Absent

=============================================================================

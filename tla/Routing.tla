------------------------------- MODULE Routing -------------------------------
(***************************************************************************)
(* In which order a chat request tries the providers of its model: ranked  *)
(* by what their heartbeats say, reordered by a ping of each, tried one    *)
(* after the other until one answers.                                      *)
(*                                                                         *)
(* A provider is a natural number, its place in the order of peer ids.     *)
(***************************************************************************)
EXTENDS Integers, Sequences, FiniteSets

CONSTANTS
    RouteNodes,
    Reports,        \* health figures a node may have: see HealthReport
    PingTimes,      \* round trips, in whole milliseconds
    NoPing,         \* the ping failed, or took longer than 800 ms
    Failovers       \* maxRemoteRetries

\* As the node sent them: a figure that is not positive counts as none.
HealthReport == [load : Int, ttft : Int, tps : Int, latency : Int, uptime : Int, seen : Int]

ASSUME RouteNodesAssumption == RouteNodes \subseteq Nat /\ IsFiniteSet(RouteNodes)
ASSUME ReportsAssumption == Reports \subseteq HealthReport
ASSUME PingAssumption == PingTimes \subseteq Nat /\ NoPing \notin Nat
ASSUME FailoversAssumption == Failovers \in Nat

VARIABLES
    report,     \* what NodesForModel returned: node -> its figures
    order,      \* those nodes, in the order at hand
    pings,      \* the pings so far, of the nodes at the front of the order
    place,      \* "new", "pinging", "trying", "answered", "exhausted"
    tried       \* the nodes tried, in order

routeVars == <<report, order, pings, place, tried>>

Candidates == DOMAIN report
Orders(S) == {q \in [1..Cardinality(S) -> S] : \A i, j \in DOMAIN q : i # j => q[i] # q[j]}

-----------------------------------------------------------------------------
\* Mutant: a node without a first-token time counts as the fastest.
RanksBeforeUnmeasured(x, y, a, b) ==
    IF x.load # y.load THEN x.load < y.load
    ELSE IF x.ttft # y.ttft THEN x.ttft < y.ttft
    ELSE IF x.tps # y.tps THEN x.tps > y.tps
    ELSE IF x.latency # y.latency THEN x.latency < y.latency
    ELSE IF x.uptime # y.uptime THEN x.uptime > y.uptime
    ELSE IF x.seen # y.seen THEN x.seen > y.seen
    ELSE a < b

\* The comparison of rankedNodesForModel: node a reports x, node b reports y.
RanksBefore(x, y, a, b) ==
    IF x.load # y.load THEN x.load < y.load
    ELSE IF (x.ttft > 0) # (y.ttft > 0) THEN x.ttft > 0
    ELSE IF x.ttft > 0 /\ x.ttft # y.ttft THEN x.ttft < y.ttft
    ELSE IF (x.tps > 0) # (y.tps > 0) THEN x.tps > 0
    ELSE IF x.tps > 0 /\ x.tps # y.tps THEN x.tps > y.tps
    ELSE IF x.latency # y.latency THEN x.latency < y.latency
    ELSE IF x.uptime # y.uptime THEN x.uptime > y.uptime
    ELSE IF x.seen # y.seen THEN x.seen > y.seen
    ELSE a < b

\* Without a ping the latency of the heartbeat stands in, 0 when it has none.
PingOrLatency(ping, x) == IF ping = NoPing THEN x.latency ELSE ping

\* Mutant: answered or not, the latency of the heartbeat is what counts.
PingsBeforePublished(x, y, p, q, a, b) ==
    IF x.latency # y.latency THEN x.latency < y.latency ELSE a < b

\* The comparison of reorderNodesByPing.
PingsBefore(x, y, p, q, a, b) ==
    IF PingOrLatency(p, x) # PingOrLatency(q, y) THEN PingOrLatency(p, x) < PingOrLatency(q, y)
    ELSE IF (p # NoPing) # (q # NoPing) THEN p # NoPing
    ELSE IF x.latency # y.latency THEN x.latency < y.latency
    ELSE a < b

\* What sort.Slice may return: each comparison is a strict total order, so one order fits.
RankedOrders(rep) ==
    {q \in Orders(DOMAIN rep) : \A i, j \in DOMAIN q :
        i < j => RanksBefore(rep[q[i]], rep[q[j]], q[i], q[j])}
PingedOrders(rep, ps) ==
    {q \in Orders(DOMAIN rep) : \A i, j \in DOMAIN q :
        i < j => PingsBefore(rep[q[i]], rep[q[j]], ps[q[i]], ps[q[j]], q[i], q[j])}

-----------------------------------------------------------------------------
RoutingInit ==
    /\ report = << >> /\ order = << >> /\ pings = << >> /\ tried = << >>
    /\ place = "new"

\* rankedNodesForModel, on the records NodesForModel copies; one candidate is not pinged.
RankCandidates ==
    /\ place = "new"
    /\ \E S \in SUBSET RouteNodes : \E rep \in [S -> Reports] :
           /\ report' = rep
           /\ order' \in RankedOrders(rep)
    /\ place' = IF Cardinality(DOMAIN report') < 2 THEN "trying" ELSE "pinging"
    /\ UNCHANGED <<pings, tried>>

Pinged == DOMAIN pings
\* The pings follow each other, in the order of the ranking.
PingNode ==
    /\ place = "pinging"
    /\ \E i \in DOMAIN order :
           /\ order[i] \notin Pinged
           /\ \A j \in 1..(i - 1) : order[j] \in Pinged
           /\ \E p \in PingTimes \union {NoPing} :
                  pings' = [n \in Pinged \union {order[i]} |-> IF n = order[i] THEN p ELSE pings[n]]
    /\ UNCHANGED <<report, order, place, tried>>

ReorderByPing ==
    /\ place = "pinging" /\ Pinged = Candidates
    /\ order' \in PingedOrders(report, pings)
    /\ place' = "trying"
    /\ UNCHANGED <<report, pings, tried>>

More == Len(tried) < Cardinality(DOMAIN order) /\ Len(tried) <= Failovers

\* An error moves on to the next; an answer, or its demand for a payment, ends the loop.
TryNode ==
    /\ place = "trying" /\ More
    /\ tried' = Append(tried, order[Len(tried) + 1])
    /\ place' \in {"trying", "answered"}
    /\ UNCHANGED <<report, order, pings>>

GiveUp ==
    /\ place = "trying" /\ ~More
    /\ place' = "exhausted"
    /\ UNCHANGED <<report, order, pings, tried>>

RoutingNext == RankCandidates \/ PingNode \/ ReorderByPing \/ TryNode \/ GiveUp
RoutingSpec == RoutingInit /\ [][RoutingNext]_routeVars

-----------------------------------------------------------------------------
(***************************************************************************)
(* Ranking and reordering lose no candidate and repeat none, and the pings *)
(* are of candidates: a node that does not answer its ping can be tried.   *)
(***************************************************************************)
RoutingTypeOK ==
    /\ \E S \in SUBSET RouteNodes : report \in [S -> Reports]
    /\ order \in Orders(Candidates)
    /\ Pinged \subseteq Candidates
    /\ \A n \in Pinged : pings[n] \in PingTimes \union {NoPing}
    /\ place \in {"new", "pinging", "trying", "answered", "exhausted"}
    /\ tried \in Seq(RouteNodes)

\* What the ranking is to compare, first to last, the smaller the better.
Keys(n) ==
    LET x == report[n] IN
    <<x.load, IF x.ttft > 0 THEN 0 ELSE 1, IF x.ttft > 0 THEN x.ttft ELSE 0,
      IF x.tps > 0 THEN -x.tps ELSE 0, x.latency, -x.uptime, -x.seen, n>>

(***************************************************************************)
(* The nine comparisons of rankedNodesForModel add up to one lexicographic *)
(* order: load, time to the first token, speed, latency, uptime, freshness *)
(* and id, a node without a figure after those that have one.  A sort with *)
(* a comparison that is no order returns anything.                         *)
(***************************************************************************)
RankFollowsKeys ==
    place = "pinging" => \A i, j \in DOMAIN order : i < j =>
        \E k \in 1..8 :
            /\ Keys(order[i])[k] < Keys(order[j])[k]
            /\ \A l \in 1..(k - 1) : Keys(order[i])[l] = Keys(order[j])[l]

Delay(n) == PingOrLatency(pings[n], report[n])

(***************************************************************************)
(* Once pings are in, a request never tries a node while a candidate with  *)
(* a shorter round trip has not been tried - neither load nor speed count  *)
(* any more, and a silent node that never published a latency is first.    *)
(***************************************************************************)
FastestFirst ==
    \A i \in DOMAIN tried : \A n \in Candidates :
        Pinged = Candidates /\ Delay(n) < Delay(tried[i]) => \E j \in 1..i : tried[j] = n

(***************************************************************************)
(* A request tries a candidate at most once, at most one more than the     *)
(* failovers, and gives up only when it has tried that many, or everyone.  *)
(***************************************************************************)
NobodyTriedTwice ==
    /\ \A i, j \in DOMAIN tried : i # j => tried[i] # tried[j]
    /\ Len(tried) <= Failovers + 1
    /\ place = "exhausted" =>
        \/ Len(tried) = Failovers + 1
        \/ \A n \in Candidates : \E i \in DOMAIN tried : tried[i] = n

=============================================================================

---------------------------- MODULE PeerLifecycle ----------------------------
(***************************************************************************)
(* What a node reports of its peers: libp2p tells it of every connection   *)
(* that opens and closes, it counts them, and a line "peer disconnected"   *)
(* is put off by a timer in case the peer comes back.                      *)
(*                                                                         *)
(* Notices and timer callbacks take peerConnMu, so each is one step; a     *)
(* callback whose timer has fired may wait for the mutex while others go   *)
(* first, and Stop cannot call it back.                                    *)
(***************************************************************************)
EXTENDS Integers

CONSTANTS
    Peers,
    Bootstraps,     \* peers of the configuration, always reported
    Debounce,       \* peerLogDebounce, in ticks
    MaxConns,       \* bound: connections of one peer at a time
    MaxTimers       \* bound: timers of one peer that have not run yet

ASSUME BootstrapAssumption == Bootstraps \subseteq Peers
ASSUME DebounceAssumption == Debounce \in Nat \ {0}
ASSUME BoundsAssumption == MaxConns \in Nat /\ MaxTimers \in Nat

VARIABLES
    conns,          \* peer -> its connections that were announced and are open
    early,          \* peer -> one that opened before Notify: "none", "open", "closed"
    peerConnCount,  \* peer -> what the node counts
    peerLastGone,   \* peer -> how long ago it went, or Never
    timers,         \* peer -> slot -> ticks left, Off, or Fired: the callback waits
    peerDisconTmr,  \* peer -> the slot its entry points to, or 0
    peerLogged,     \* peers a health update has come from
    line,           \* peer -> its last line: "none", "connected", "disconnected"
    raced           \* peers that connected again while a callback was waiting

peerVars == <<conns, early, peerConnCount, peerLastGone, timers, peerDisconTmr,
              peerLogged, line, raced>>

Off == -1
Fired == -2
Never == -1
Slots == 1..MaxTimers

(***************************************************************************)
(* The node never counts more connections than there are.                  *)
(***************************************************************************)
PeerTypeOK ==
    /\ conns \in [Peers -> Nat]
    /\ early \in [Peers -> {"none", "open", "closed"}]
    /\ peerConnCount \in [Peers -> Nat]
    /\ peerLastGone \in [Peers -> {Never} \union 0..Debounce]
    /\ timers \in [Peers -> [Slots -> {Off, Fired} \union 0..Debounce]]
    /\ peerDisconTmr \in [Peers -> {0} \union Slots]
    /\ peerLogged \in SUBSET Peers
    /\ line \in [Peers -> {"none", "connected", "disconnected"}]
    /\ raced \in SUBSET Peers
    /\ \A p \in Peers : peerConnCount[p] <= conns[p]

\* startBase starts the DHT, which dials the bootstraps, before it calls Notify.
PeerInit ==
    /\ conns = [p \in Peers |-> 0]
    /\ early \in [Peers -> {"none", "open"}]
    /\ peerConnCount = [p \in Peers |-> 0]
    /\ peerLastGone = [p \in Peers |-> Never]
    /\ timers = [p \in Peers |-> [i \in Slots |-> Off]]
    /\ peerDisconTmr = [p \in Peers |-> 0]
    /\ peerLogged = {}
    /\ line = [p \in Peers |-> "none"]
    /\ raced = {}

IsConnected(p) == conns[p] > 0 \/ early[p] = "open"
Waiting(p) == \E i \in Slots : timers[p][i] = Fired
shouldLogPeerLifecycle(p) == p \in Bootstraps \union peerLogged
Report(p, text) ==
    line' = IF shouldLogPeerLifecycle(p) THEN [line EXCEPT ![p] = text] ELSE line

\* Mutant: the timer is left to run.
StopTimerNever(p) == UNCHANGED timers

\* t.Stop does nothing to a callback that has started.
StopTimer(p) ==
    timers' = [timers EXCEPT ![p] = [i \in Slots |->
        IF i = peerDisconTmr[p] /\ @[i] # Fired THEN Off ELSE @[i]]]

-----------------------------------------------------------------------------
\* Mutant: back after exactly the debounce counts as within it.
BackLateAfter(p) == peerLastGone[p] = Never \/ peerLastGone[p] > Debounce

\* A peer that comes back within the debounce is not reported.
BackLate(p) == peerLastGone[p] = Never \/ peerLastGone[p] >= Debounce

Connected(p) ==
    /\ conns[p] < MaxConns
    /\ conns' = [conns EXCEPT ![p] = @ + 1]
    /\ peerConnCount' = [peerConnCount EXCEPT ![p] = @ + 1]
    /\ StopTimer(p)
    /\ peerDisconTmr' = [peerDisconTmr EXCEPT ![p] = 0]
    /\ IF peerConnCount[p] = 0
       THEN /\ peerLastGone' = [peerLastGone EXCEPT ![p] = Never]
            /\ IF BackLate(p) THEN Report(p, "connected") ELSE UNCHANGED line
       ELSE UNCHANGED <<peerLastGone, line>>
    /\ raced' = IF Waiting(p) THEN raced \union {p} ELSE raced
    /\ UNCHANGED <<early, peerLogged>>

\* The notice cannot tell a connection it has counted from an early one.
Disconnected(p) ==
    IF peerConnCount[p] <= 1
    THEN /\ peerConnCount' = [peerConnCount EXCEPT ![p] = 0]
         /\ peerLastGone' = [peerLastGone EXCEPT ![p] = 0]
         /\ \E i \in Slots :
                /\ timers[p][i] = Off
                /\ timers' = [timers EXCEPT ![p][i] = Debounce]
                /\ peerDisconTmr' = [peerDisconTmr EXCEPT ![p] = i]
    ELSE /\ peerConnCount' = [peerConnCount EXCEPT ![p] = @ - 1]
         /\ UNCHANGED <<peerLastGone, timers, peerDisconTmr>>

ConnectionCloses(p) ==
    /\ conns[p] > 0
    /\ conns' = [conns EXCEPT ![p] = @ - 1]
    /\ Disconnected(p)
    /\ UNCHANGED <<early, peerLogged, line, raced>>

EarlyCloses(p) ==
    /\ early[p] = "open"
    /\ early' = [early EXCEPT ![p] = "closed"]
    /\ Disconnected(p)
    /\ UNCHANGED <<conns, peerLogged, line, raced>>

TimerFires(p, i) ==
    /\ timers[p][i] = 0
    /\ timers' = [timers EXCEPT ![p][i] = Fired]
    /\ UNCHANGED <<conns, early, peerConnCount, peerLastGone, peerDisconTmr, peerLogged, line, raced>>

\* Mutant: a peer with no connections counts as connected.
StillGoneNever(p) == peerConnCount[p] < 0

StillGone(p) == peerConnCount[p] = 0

\* The entry it deletes may be that of a later timer.
TimerCallback(p, i) ==
    /\ timers[p][i] = Fired
    /\ timers' = [timers EXCEPT ![p][i] = Off]
    /\ IF StillGone(p)
       THEN /\ peerDisconTmr' = [peerDisconTmr EXCEPT ![p] = 0]
            /\ Report(p, "disconnected")
       ELSE UNCHANGED <<peerDisconTmr, line>>
    /\ UNCHANGED <<conns, early, peerConnCount, peerLastGone, peerLogged, raced>>

\* logNewPeerFromHealth; gossip also brings updates of peers that are not connected.
HealthHeard(p) ==
    /\ p \notin peerLogged
    /\ peerLogged' = peerLogged \union {p}
    /\ UNCHANGED <<conns, early, peerConnCount, peerLastGone, timers, peerDisconTmr, line, raced>>

\* Timers fire on time; their callbacks may be late.
Tick ==
    /\ \A p \in Peers, i \in Slots : timers[p][i] # 0
    /\ timers' = [p \in Peers |-> [i \in Slots |->
           IF timers[p][i] > 0 THEN timers[p][i] - 1 ELSE timers[p][i]]]
    /\ peerLastGone' = [p \in Peers |->
           IF peerLastGone[p] \in 0..(Debounce - 1) THEN peerLastGone[p] + 1 ELSE peerLastGone[p]]
    /\ UNCHANGED <<conns, early, peerConnCount, peerDisconTmr, peerLogged, line, raced>>

PeerStep(p) ==
    \/ Connected(p) \/ ConnectionCloses(p) \/ EarlyCloses(p) \/ HealthHeard(p)
    \/ \E i \in Slots : TimerFires(p, i) \/ TimerCallback(p, i)

PeerNext == Tick \/ \E p \in Peers : PeerStep(p)
PeerSpec == PeerInit /\ [][PeerNext]_peerVars

\* Time passes, timers fire, and a callback gets the mutex.
PeerFairness ==
    /\ WF_peerVars(Tick)
    /\ \A p \in Peers : WF_peerVars(\E i \in Slots : TimerFires(p, i) \/ TimerCallback(p, i))

-----------------------------------------------------------------------------
(***************************************************************************)
(* A connected peer is not reported gone, but for two cases: a callback    *)
(* that was waiting while the peer came back, and a connection that the    *)
(* node was never told of.                                                 *)
(***************************************************************************)
ReportsAreTrue ==
    \A p \in Peers :
        IsConnected(p) /\ line[p] = "disconnected" => p \in raced \/ early[p] # "none"

(***************************************************************************)
(* A line "disconnected" is about a peer that has been gone for all of the *)
(* debounce, not one whose earlier timer ran on.                           *)
(***************************************************************************)
GoneForDebounce ==
    [][\A p \in Peers, i \in Slots :
           TimerCallback(p, i) /\ peerConnCount[p] = 0 /\ p \notin raced /\ early[p] = "none"
               => peerLastGone[p] = Debounce]_peerVars

(***************************************************************************)
(* A bootstrap peer that was reported and goes is reported gone, unless it *)
(* comes back.                                                             *)
(***************************************************************************)
AbsenceIsReported ==
    \A p \in Bootstraps :
        line[p] = "connected" /\ ~IsConnected(p) ~> line[p] = "disconnected" \/ IsConnected(p)

=============================================================================

------------------------------ MODULE NodeProofs ------------------------------
(***************************************************************************)
(* What a node reports of its peers and what its inference handlers do,    *)
(* proved for any number of peers, timers, streams and chunks.             *)
(***************************************************************************)
EXTENDS PeerLifecycle, NodeInference, FiniteSetTheorems, TLAPS

\* A peer whose connections the node has all counted, and whose callbacks were on time.
Watched(p) == early[p] = "none" /\ p \notin raced
Quiet(p) == \A i \in Slots : timers[p][i] = Off

\* A timer runs since the peer went; a callback waits since the debounce is over.
RunsSinceGone(p, i) ==
    /\ i = peerDisconTmr[p]
    /\ timers[p][i] >= 0 => peerLastGone[p] \in 0..Debounce /\ timers[p][i] = Debounce - peerLastGone[p]
    /\ timers[p][i] = Fired => peerLastGone[p] = Debounce

PeerOK(p) ==
    /\ line[p] # "none" => shouldLogPeerLifecycle(p)
    /\ Watched(p) =>
        /\ peerConnCount[p] = conns[p]
        /\ conns[p] > 0 => Quiet(p)
        /\ \A i \in Slots : timers[p][i] # Off => RunsSinceGone(p, i)
        /\ line[p] = "disconnected" => conns[p] = 0 /\ peerLastGone[p] = Debounce /\ Quiet(p)

PeerInv == PeerTypeOK /\ \A p \in Peers : PeerOK(p)

\* What a step about another peer leaves of peer q.
Untouched(q) ==
    /\ conns'[q] = conns[q] /\ early'[q] = early[q]
    /\ peerConnCount'[q] = peerConnCount[q] /\ peerLastGone'[q] = peerLastGone[q]
    /\ timers'[q] = timers[q] /\ peerDisconTmr'[q] = peerDisconTmr[q]
    /\ line'[q] = line[q] /\ peerLogged \subseteq peerLogged'
    /\ (q \in raced' <=> q \in raced)

-----------------------------------------------------------------------------
LEMMA UntouchedStays ==
    ASSUME NEW q \in Peers, PeerOK(q), Untouched(q)
    PROVE  PeerOK(q)'
BY DEF PeerOK, Untouched, Watched, Quiet, RunsSinceGone, shouldLogPeerLifecycle

\* A report changes the line of its peer, when that peer is reported at all.
LEMMA Reported ==
    ASSUME PeerTypeOK, NEW p \in Peers, NEW text \in {"connected", "disconnected"}, Report(p, text)
    PROVE  /\ line' \in [Peers -> {"none", "connected", "disconnected"}]
           /\ \A q \in Peers \ {p} : line'[q] = line[q]
           /\ shouldLogPeerLifecycle(p) => line'[p] = text
           /\ ~shouldLogPeerLifecycle(p) => line'[p] = line[p]
BY DEF PeerTypeOK, Report

LEMMA ConnectedStep ==
    ASSUME PeerInv, NEW p \in Peers, Connected(p)
    PROVE  PeerInv'
<1>0. PeerTypeOK /\ PeerOK(p) /\ UNCHANGED <<early, peerLogged>>
  BY DEF PeerInv, Connected
<1>1. /\ conns' = [conns EXCEPT ![p] = conns[p] + 1]
      /\ peerConnCount' = [peerConnCount EXCEPT ![p] = peerConnCount[p] + 1]
      /\ peerDisconTmr' = [peerDisconTmr EXCEPT ![p] = 0]
  BY DEF Connected
<1>2. /\ line' \in [Peers -> {"none", "connected", "disconnected"}]
      /\ \A q \in Peers \ {p} : line'[q] = line[q]
      /\ line'[p] \in {"connected", line[p]}
      /\ line'[p] # line[p] => shouldLogPeerLifecycle(p)
      /\ peerConnCount[p] = 0 /\ BackLate(p) /\ shouldLogPeerLifecycle(p) => line'[p] = "connected"
  <2>1. CASE Report(p, "connected") /\ peerConnCount[p] = 0 /\ BackLate(p)
    BY <1>0, <2>1, Reported
  <2>2. CASE line' = line /\ ~(peerConnCount[p] = 0 /\ BackLate(p))
    BY <1>0, <2>2 DEF PeerTypeOK
  <2>. QED
    BY <2>1, <2>2 DEF Connected
<1>3. /\ peerLastGone' \in [Peers -> {Never} \union 0..Debounce]
      /\ \A q \in Peers \ {p} : peerLastGone'[q] = peerLastGone[q]
  BY <1>0 DEF PeerTypeOK, Connected
<1>4. /\ timers' \in [Peers -> [Slots -> {Off, Fired} \union 0..Debounce]]
      /\ \A q \in Peers \ {p} : timers'[q] = timers[q]
      /\ \A i \in Slots : timers'[p][i] = IF i = peerDisconTmr[p] /\ timers[p][i] # Fired
                                          THEN Off ELSE timers[p][i]
  BY <1>0 DEF PeerTypeOK, Connected, StopTimer
<1>5. /\ raced \subseteq raced' /\ raced' \in SUBSET Peers
      /\ \A q \in Peers \ {p} : q \in raced' <=> q \in raced
      /\ Waiting(p) => p \in raced'
  BY <1>0 DEF PeerTypeOK, Connected
<1>6. PeerTypeOK'
  <2>1. /\ conns' \in [Peers -> Nat] /\ peerConnCount' \in [Peers -> Nat]
        /\ peerDisconTmr' \in [Peers -> {0} \union Slots]
        /\ \A q \in Peers : peerConnCount'[q] <= conns'[q]
    BY <1>0, <1>1 DEF PeerTypeOK
  <2>. QED
    BY <1>0, <1>2, <1>3, <1>4, <1>5, <2>1 DEF PeerTypeOK
<1>7. ASSUME NEW q \in Peers \ {p} PROVE PeerOK(q)'
  <2>1. PeerOK(q) /\ Untouched(q)
    BY <1>0, <1>1, <1>2, <1>3, <1>4, <1>5, <1>7 DEF PeerInv, PeerTypeOK, Untouched
  <2>. QED
    BY <2>1, UntouchedStays
<1>8. PeerOK(p)'
  <2>1. line'[p] # "none" => shouldLogPeerLifecycle(p)'
    BY <1>0, <1>2 DEF PeerOK, shouldLogPeerLifecycle
  <2>2. ASSUME Watched(p)'
        PROVE  peerConnCount'[p] = conns'[p] /\ Quiet(p)' /\ line'[p] # "disconnected"
    <3>1. Watched(p) /\ ~Waiting(p)
      BY <1>0, <1>5, <2>2 DEF Watched
    <3>2. peerConnCount'[p] = conns'[p]
      BY <1>0, <1>1, <3>1 DEF PeerOK, PeerTypeOK
    <3>3. \A i \in Slots : timers'[p][i] = Off
      BY <1>0, <1>4, <3>1 DEF PeerOK, Waiting, RunsSinceGone
    <3>4. line'[p] # "disconnected"
      <4>1. CASE line[p] = "disconnected"
        <5>1. peerConnCount[p] = 0 /\ peerLastGone[p] = Debounce /\ shouldLogPeerLifecycle(p)
          BY <1>0, <3>1, <4>1 DEF PeerOK
        <5>. QED
          BY <1>2, <5>1, DebounceAssumption DEF BackLate
      <4>. QED
        BY <1>2, <4>1
    <3>. QED
      BY <3>2, <3>3, <3>4 DEF Quiet
  <2>. QED
    BY <2>1, <2>2 DEF PeerOK, Quiet
<1>. QED
  BY <1>6, <1>7, <1>8 DEF PeerInv

\* What the notice of a closed connection does to the node's own state.
LEMMA Noticed ==
    ASSUME PeerTypeOK, NEW p \in Peers, Disconnected(p)
    PROVE  /\ peerConnCount' \in [Peers -> Nat]
           /\ peerLastGone' \in [Peers -> {Never} \union 0..Debounce]
           /\ timers' \in [Peers -> [Slots -> {Off, Fired} \union 0..Debounce]]
           /\ peerDisconTmr' \in [Peers -> {0} \union Slots]
           /\ \A q \in Peers \ {p} :
                  /\ peerConnCount'[q] = peerConnCount[q] /\ peerLastGone'[q] = peerLastGone[q]
                  /\ timers'[q] = timers[q] /\ peerDisconTmr'[q] = peerDisconTmr[q]
           /\ \/ /\ peerConnCount[p] <= 1 /\ peerConnCount'[p] = 0 /\ peerLastGone'[p] = 0
                 /\ \E i \in Slots : /\ peerDisconTmr'[p] = i /\ timers'[p][i] = Debounce
                                     /\ \A j \in Slots \ {i} : timers'[p][j] = timers[p][j]
              \/ /\ peerConnCount[p] > 1 /\ peerConnCount'[p] = peerConnCount[p] - 1
                 /\ peerLastGone'[p] = peerLastGone[p]
                 /\ timers'[p] = timers[p] /\ peerDisconTmr'[p] = peerDisconTmr[p]
<1>0. Debounce \in 0..Debounce /\ 0 \in 0..Debounce
  BY DebounceAssumption
<1>1. CASE peerConnCount[p] <= 1
  <2>1. PICK i \in Slots :
            /\ timers' = [timers EXCEPT ![p][i] = Debounce]
            /\ peerDisconTmr' = [peerDisconTmr EXCEPT ![p] = i]
    BY <1>1 DEF Disconnected
  <2>2. /\ peerConnCount' = [peerConnCount EXCEPT ![p] = 0]
        /\ peerLastGone' = [peerLastGone EXCEPT ![p] = 0]
    BY <1>1 DEF Disconnected
  <2>. QED
    BY <1>0, <1>1, <2>1, <2>2 DEF PeerTypeOK
<1>2. CASE ~(peerConnCount[p] <= 1)
  <2>1. /\ peerConnCount' = [peerConnCount EXCEPT ![p] = peerConnCount[p] - 1]
        /\ UNCHANGED <<peerLastGone, timers, peerDisconTmr>>
    BY <1>2 DEF Disconnected
  <2>2. peerConnCount \in [Peers -> Nat] /\ peerConnCount[p] \in Nat /\ peerConnCount[p] > 1
    BY <1>2 DEF PeerTypeOK
  <2>. QED
    BY <2>1, <2>2 DEF PeerTypeOK
<1>. QED
  BY <1>1, <1>2

LEMMA CloseStep ==
    ASSUME PeerInv, NEW p \in Peers, ConnectionCloses(p)
    PROVE  PeerInv'
<1>0. PeerTypeOK /\ PeerOK(p) /\ conns[p] > 0 /\ Disconnected(p)
      /\ conns' = [conns EXCEPT ![p] = conns[p] - 1] /\ UNCHANGED <<early, peerLogged, line, raced>>
  BY DEF PeerInv, ConnectionCloses
<1>1. PeerTypeOK'
  BY <1>0, Noticed DEF PeerTypeOK
<1>2. ASSUME NEW q \in Peers \ {p} PROVE PeerOK(q)'
  <2>1. PeerOK(q) /\ Untouched(q)
    BY <1>0, <1>2, Noticed DEF PeerInv, PeerTypeOK, Untouched
  <2>. QED
    BY <2>1, UntouchedStays
<1>3. PeerOK(p)'
  <2>1. line'[p] # "none" => shouldLogPeerLifecycle(p)'
    BY <1>0 DEF PeerOK, shouldLogPeerLifecycle
  <2>2. ASSUME Watched(p)'
        PROVE  /\ peerConnCount'[p] = conns'[p]
               /\ conns'[p] > 0 => Quiet(p)'
               /\ \A i \in Slots : timers'[p][i] # Off => RunsSinceGone(p, i)'
               /\ line'[p] # "disconnected"
    <3>1. Watched(p) /\ peerConnCount[p] = conns[p] /\ Quiet(p) /\ line[p] # "disconnected"
      BY <1>0, <2>2 DEF Watched, PeerOK
    <3>2. conns[p] \in Nat /\ conns'[p] = conns[p] - 1
      BY <1>0 DEF PeerTypeOK
    <3>3. CASE conns[p] = 1
      <4>1. PICK i \in Slots : /\ peerDisconTmr'[p] = i /\ timers'[p][i] = Debounce
                               /\ \A j \in Slots \ {i} : timers'[p][j] = timers[p][j]
        BY <1>0, <3>1, <3>3, Noticed
      <4>2. /\ peerConnCount'[p] = 0 /\ conns'[p] = 0 /\ peerLastGone'[p] = 0
            /\ line'[p] # "disconnected"
        BY <1>0, <3>1, <3>2, <3>3, Noticed
      <4>3. ASSUME NEW j \in Slots, timers'[p][j] # Off
            PROVE  RunsSinceGone(p, j)'
        <5>1. j = i
          BY <3>1, <4>1, <4>3 DEF Quiet
        <5>2. Debounce \in Nat /\ Debounce # Fired /\ 0 \in 0..Debounce /\ Debounce - 0 = Debounce
          BY DebounceAssumption DEF Fired
        <5>. QED
          BY <4>1, <4>2, <5>1, <5>2 DEF RunsSinceGone
      <4>. QED
        BY <4>2, <4>3
    <3>4. CASE conns[p] > 1
      BY <1>0, <3>1, <3>2, <3>4, Noticed DEF Quiet
    <3>. QED
      BY <1>0, <3>2, <3>3, <3>4
  <2>. QED
    BY <2>1, <2>2 DEF PeerOK
<1>. QED
  BY <1>1, <1>2, <1>3 DEF PeerInv

LEMMA EarlyCloseStep ==
    ASSUME PeerInv, NEW p \in Peers, EarlyCloses(p)
    PROVE  PeerInv'
<1>0. PeerTypeOK /\ PeerOK(p) /\ Disconnected(p)
      /\ early' = [early EXCEPT ![p] = "closed"] /\ UNCHANGED <<conns, peerLogged, line, raced>>
  BY DEF PeerInv, EarlyCloses
<1>1. PeerTypeOK'
  BY <1>0, Noticed DEF PeerTypeOK
<1>2. ASSUME NEW q \in Peers \ {p} PROVE PeerOK(q)'
  <2>1. PeerOK(q) /\ Untouched(q)
    BY <1>0, <1>2, Noticed DEF PeerInv, PeerTypeOK, Untouched
  <2>. QED
    BY <2>1, UntouchedStays
<1>3. PeerOK(p)'
  BY <1>0 DEF PeerOK, PeerTypeOK, Watched, shouldLogPeerLifecycle
<1>. QED
  BY <1>1, <1>2, <1>3 DEF PeerInv

LEMMA TimerStep ==
    ASSUME PeerInv, NEW p \in Peers, NEW i \in Slots, TimerFires(p, i)
    PROVE  PeerInv'
<1>0. PeerTypeOK /\ PeerOK(p) /\ timers[p][i] = 0 /\ timers' = [timers EXCEPT ![p][i] = Fired]
      /\ UNCHANGED <<conns, early, peerConnCount, peerLastGone, peerDisconTmr, peerLogged, line, raced>>
  BY DEF PeerInv, TimerFires
<1>1. /\ timers' \in [Peers -> [Slots -> {Off, Fired} \union 0..Debounce]]
      /\ \A q \in Peers \ {p} : timers'[q] = timers[q]
      /\ timers'[p][i] = Fired /\ \A j \in Slots \ {i} : timers'[p][j] = timers[p][j]
  BY <1>0 DEF PeerTypeOK
<1>2. PeerTypeOK'
  BY <1>0, <1>1 DEF PeerTypeOK
<1>3. ASSUME NEW q \in Peers \ {p} PROVE PeerOK(q)'
  <2>1. PeerOK(q) /\ Untouched(q)
    BY <1>0, <1>1, <1>3 DEF PeerInv, Untouched
  <2>. QED
    BY <2>1, UntouchedStays
<1>4. PeerOK(p)'
  <2>1. ASSUME Watched(p) PROVE RunsSinceGone(p, i) /\ peerLastGone[p] = Debounce
                                /\ i = peerDisconTmr[p] /\ ~Quiet(p)
    <3>1. timers[p][i] # Off /\ RunsSinceGone(p, i)
      BY <1>0, <2>1 DEF PeerOK, Off
    <3>. QED
      BY <1>0, <3>1, DebounceAssumption DEF RunsSinceGone, Quiet
  <2>. QED
    BY <1>0, <1>1, <2>1 DEF PeerOK, Watched, Quiet, RunsSinceGone, shouldLogPeerLifecycle, Fired, Off
<1>. QED
  BY <1>2, <1>3, <1>4 DEF PeerInv

LEMMA CallbackStep ==
    ASSUME PeerInv, NEW p \in Peers, NEW i \in Slots, TimerCallback(p, i)
    PROVE  PeerInv'
<1>0. PeerTypeOK /\ PeerOK(p) /\ timers[p][i] = Fired /\ timers' = [timers EXCEPT ![p][i] = Off]
      /\ UNCHANGED <<conns, early, peerConnCount, peerLastGone, peerLogged, raced>>
  BY DEF PeerInv, TimerCallback
<1>1. /\ timers' \in [Peers -> [Slots -> {Off, Fired} \union 0..Debounce]]
      /\ \A q \in Peers \ {p} : timers'[q] = timers[q]
      /\ timers'[p][i] = Off /\ \A j \in Slots \ {i} : timers'[p][j] = timers[p][j]
  BY <1>0 DEF PeerTypeOK
<1>2. /\ line' \in [Peers -> {"none", "connected", "disconnected"}]
      /\ peerDisconTmr' \in [Peers -> {0} \union Slots]
      /\ \A q \in Peers \ {p} : line'[q] = line[q] /\ peerDisconTmr'[q] = peerDisconTmr[q]
      /\ line'[p] # line[p] => line'[p] = "disconnected" /\ peerConnCount[p] = 0 /\ shouldLogPeerLifecycle(p)
  <2>1. CASE StillGone(p)
    <3>1. Report(p, "disconnected") /\ peerDisconTmr' = [peerDisconTmr EXCEPT ![p] = 0]
          /\ peerConnCount[p] = 0
      BY <2>1 DEF TimerCallback, StillGone
    <3>. QED
      BY <1>0, <3>1, Reported DEF PeerTypeOK
  <2>2. CASE ~StillGone(p)
    BY <1>0, <2>2 DEF TimerCallback, PeerTypeOK
  <2>. QED
    BY <2>1, <2>2
<1>3. PeerTypeOK'
  BY <1>0, <1>1, <1>2 DEF PeerTypeOK
<1>4. ASSUME NEW q \in Peers \ {p} PROVE PeerOK(q)'
  <2>1. PeerOK(q) /\ Untouched(q)
    BY <1>0, <1>1, <1>2, <1>4 DEF PeerInv, Untouched
  <2>. QED
    BY <2>1, UntouchedStays
<1>5. PeerOK(p)'
  <2>1. line'[p] # "none" => shouldLogPeerLifecycle(p)'
    BY <1>0, <1>2 DEF PeerOK, shouldLogPeerLifecycle
  <2>2. ASSUME Watched(p)
        PROVE  conns[p] = 0 /\ peerConnCount[p] = 0 /\ peerLastGone[p] = Debounce /\ Quiet(p)'
    <3>1. \A j \in Slots : timers[p][j] # Off => j = peerDisconTmr[p]
      BY <1>0, <2>2 DEF PeerOK, RunsSinceGone
    <3>2. timers[p][i] # Off /\ i = peerDisconTmr[p] /\ peerLastGone[p] = Debounce
      BY <1>0, <2>2 DEF PeerOK, RunsSinceGone, Fired, Off
    <3>3. ~Quiet(p) /\ Quiet(p)'
      BY <1>1, <3>1, <3>2 DEF Quiet
    <3>. QED
      BY <1>0, <2>2, <3>2, <3>3 DEF PeerOK, PeerTypeOK
  <2>. QED
    BY <1>0, <2>1, <2>2 DEF PeerOK, Watched, Quiet
<1>. QED
  BY <1>3, <1>4, <1>5 DEF PeerInv

LEMMA HealthStep ==
    ASSUME PeerInv, NEW p \in Peers, HealthHeard(p)
    PROVE  PeerInv'
<1>1. PeerTypeOK'
  BY DEF PeerInv, PeerTypeOK, HealthHeard
<1>2. ASSUME NEW q \in Peers PROVE PeerOK(q)'
  <2>1. PeerOK(q) /\ Untouched(q)
    BY <1>2 DEF PeerInv, HealthHeard, Untouched
  <2>. QED
    BY <2>1, UntouchedStays
<1>. QED
  BY <1>1, <1>2 DEF PeerInv

LEMMA TickStep ==
    ASSUME PeerInv, Tick
    PROVE  PeerInv'
<1>0. PeerTypeOK /\ UNCHANGED <<conns, early, peerConnCount, peerDisconTmr, peerLogged, line, raced>>
  BY DEF PeerInv, Tick
<1>1. /\ \A p \in Peers : peerLastGone'[p] = IF peerLastGone[p] \in 0..(Debounce - 1)
                                            THEN peerLastGone[p] + 1 ELSE peerLastGone[p]
      /\ peerLastGone' \in [Peers -> {Never} \union 0..Debounce]
  BY <1>0, DebounceAssumption DEF Tick, PeerTypeOK, Never
<1>2. \A p \in Peers, i \in Slots :
          /\ timers[p][i] \in {Off, Fired} \union 0..Debounce
          /\ timers[p][i] # 0
          /\ timers'[p][i] = IF timers[p][i] > 0 THEN timers[p][i] - 1 ELSE timers[p][i]
  BY <1>0 DEF Tick, PeerTypeOK
<1>3. timers' \in [Peers -> [Slots -> {Off, Fired} \union 0..Debounce]]
  <2>1. \A p \in Peers, i \in Slots : timers'[p][i] \in {Off, Fired} \union 0..Debounce
    BY <1>2, DebounceAssumption DEF Off, Fired
  <2>2. timers' = [p \in Peers |-> [i \in Slots |-> timers'[p][i]]]
    BY DEF Tick
  <2>. QED
    BY <2>1, <2>2
<1>4. PeerTypeOK'
  BY <1>0, <1>1, <1>3 DEF PeerTypeOK
<1>5. ASSUME NEW p \in Peers PROVE PeerOK(p)'
  <2>0. PeerOK(p)
    BY <1>5 DEF PeerInv
  <2>1. line'[p] # "none" => shouldLogPeerLifecycle(p)'
    BY <1>0, <2>0 DEF PeerOK, shouldLogPeerLifecycle
  <2>2. Quiet(p) => Quiet(p)'
    BY <1>2 DEF Quiet, Off
  <2>3. peerLastGone[p] = Debounce => peerLastGone'[p] = Debounce
    BY <1>1, DebounceAssumption
  <2>4. ASSUME NEW i \in Slots, timers'[p][i] # Off, Watched(p)
        PROVE  RunsSinceGone(p, i)'
    <3>1. RunsSinceGone(p, i)
      BY <1>2, <2>0, <2>4 DEF PeerOK, Off
    <3>2. CASE timers[p][i] > 0
      <4>1. /\ peerLastGone[p] \in 0..Debounce /\ timers[p][i] = Debounce - peerLastGone[p]
            /\ timers'[p][i] = timers[p][i] - 1
        <5>1. timers[p][i] \in Int /\ timers[p][i] >= 0
          BY <1>2, <3>2, DebounceAssumption DEF Off, Fired
        <5>. QED
          BY <1>2, <3>1, <3>2, <5>1 DEF RunsSinceGone
      <4>2. peerLastGone'[p] = peerLastGone[p] + 1
        BY <1>1, <3>2, <4>1, DebounceAssumption
      <4>3. timers'[p][i] # Fired
        BY <3>2, <4>1, DebounceAssumption DEF Fired
      <4>. QED
        BY <1>0, <3>1, <3>2, <4>1, <4>2, <4>3, DebounceAssumption DEF RunsSinceGone
    <3>3. CASE timers[p][i] = Fired
      BY <1>0, <1>2, <2>3, <3>1, <3>3 DEF RunsSinceGone, Fired
    <3>. QED
      BY <1>2, <2>4, <3>2, <3>3 DEF Off
  <2>. QED
    BY <1>0, <2>0, <2>1, <2>2, <2>3, <2>4 DEF PeerOK, Watched
<1>. QED
  BY <1>4, <1>5 DEF PeerInv

LEMMA PeerStart == PeerInit => PeerInv
BY DEF PeerInit, PeerInv, PeerTypeOK, PeerOK, Watched, Quiet, Off, Never

LEMMA PeersStep == PeerInv /\ [PeerNext]_peerVars => PeerInv'
<1>. SUFFICES ASSUME PeerInv, [PeerNext]_peerVars PROVE PeerInv'
  OBVIOUS
<1>1. CASE Tick
  BY <1>1, TickStep
<1>2. ASSUME NEW p \in Peers, PeerStep(p) PROVE PeerInv'
  BY <1>2, ConnectedStep, CloseStep, EarlyCloseStep, HealthStep, TimerStep, CallbackStep DEF PeerStep
<1>3. CASE UNCHANGED peerVars
  BY <1>3 DEF peerVars, PeerInv, PeerTypeOK, PeerOK, Watched, Quiet, RunsSinceGone, shouldLogPeerLifecycle
<1>. QED
  BY <1>1, <1>2, <1>3 DEF PeerNext

LEMMA PeerInvariant == PeerSpec => []PeerInv
BY PeerStart, PeersStep, PTL DEF PeerSpec

(***************************************************************************)
(* However connections of a peer overlap, flap and race with late timer    *)
(* callbacks: a connected peer is reported gone only when a callback was   *)
(* waiting as it came back, or when it has a connection that was never     *)
(* announced; and the node never counts more connections than there are.   *)
(***************************************************************************)
THEOREM ReportsCorrect == PeerSpec => [](PeerTypeOK /\ ReportsAreTrue)
<1>1. PeerInv => PeerTypeOK /\ ReportsAreTrue
  BY DEF PeerInv, PeerTypeOK, PeerOK, ReportsAreTrue, Watched, IsConnected
<1>. QED
  BY <1>1, PeerInvariant, PTL

(***************************************************************************)
(* A peer that is reported gone has been gone for all of the debounce.     *)
(***************************************************************************)
THEOREM GoneIsGoneForDebounce == PeerSpec => GoneForDebounce
<1>. DEFINE Gone == \A p \in Peers, i \in Slots :
                TimerCallback(p, i) /\ peerConnCount[p] = 0 /\ p \notin raced /\ early[p] = "none"
                    => peerLastGone[p] = Debounce
<1>1. PeerInv => Gone
  BY DEF PeerInv, PeerOK, Watched, RunsSinceGone, TimerCallback, Fired, Off
<1>. HIDE DEF Gone
<1>2. PeerInv /\ [PeerNext]_peerVars => [Gone]_peerVars
  BY <1>1
<1>. QED
  BY <1>2, PeerInvariant, PTL DEF PeerSpec, GoneForDebounce, Gone

(***************************************************************************)
(* No absence is forgotten: a peer whose last line says that it is         *)
(* connected, and that has no connection, has a timer that runs or whose   *)
(* callback waits, also when early connections were never announced and    *)
(* when timers overlap; and the callback then reports it.  With a clock    *)
(* that goes on and callbacks that run this is AbsenceIsReported.          *)
(***************************************************************************)
Missing(p) == line[p] = "connected" /\ ~IsConnected(p)
Timed(p) == \E i \in Slots : timers[p][i] # Off
AbsencesAreTimed == \A p \in Peers : Missing(p) => Timed(p)
CallbackReports ==
    \A p \in Peers, i \in Slots :
        TimerCallback(p, i) /\ Missing(p) => line'[p] = "disconnected"

\* A peer that no step touches keeps its timers; Tick lets none of them end.
LEMMA OthersStayTimed ==
    ASSUME PeerTypeOK, NEW q \in Peers, Missing(q) => Timed(q),
           line'[q] = line[q] \/ line'[q] # "connected",
           conns'[q] = conns[q], early'[q] = early[q], timers'[q] = timers[q]
    PROVE  (Missing(q) => Timed(q))'
BY DEF Missing, Timed, IsConnected

\* The last connection of a peer that the node counts at most once starts a timer.
LEMMA NoticeTimes ==
    ASSUME PeerTypeOK, NEW p \in Peers, Disconnected(p)
    PROVE  /\ \A q \in Peers \ {p} : timers'[q] = timers[q]
           /\ peerConnCount[p] <= 1 => Timed(p)'
           /\ peerConnCount[p] > 1 => timers' = timers
<1>1. CASE peerConnCount[p] <= 1
  <2>1. PICK i \in Slots : timers' = [timers EXCEPT ![p][i] = Debounce]
    BY <1>1 DEF Disconnected
  <2>2. timers'[p][i] = Debounce /\ Debounce # Off
    BY <2>1, DebounceAssumption DEF PeerTypeOK, Off
  <2>. QED
    BY <1>1, <2>1, <2>2 DEF PeerTypeOK, Timed
<1>2. CASE ~(peerConnCount[p] <= 1)
  BY <1>2 DEF Disconnected, PeerTypeOK
<1>. QED
  BY <1>1, <1>2 DEF PeerTypeOK

LEMMA TimedStep ==
    ASSUME PeerInv, AbsencesAreTimed, [PeerNext]_peerVars
    PROVE  AbsencesAreTimed' /\ CallbackReports
<1>0. PeerTypeOK
  BY DEF PeerInv
<1>1. ASSUME NEW p \in Peers, Connected(p)
      PROVE  AbsencesAreTimed'
  <2>1. /\ conns'[p] > 0 /\ early' = early
        /\ \A q \in Peers \ {p} : conns'[q] = conns[q] /\ timers'[q] = timers[q] /\ line'[q] = line[q]
    BY <1>0, <1>1 DEF Connected, StopTimer, Report, PeerTypeOK
  <2>2. ~Missing(p)'
    BY <2>1 DEF Missing, IsConnected
  <2>. QED
    BY <1>0, <2>1, <2>2, OthersStayTimed DEF AbsencesAreTimed
<1>2. ASSUME NEW p \in Peers, ConnectionCloses(p) \/ EarlyCloses(p)
      PROVE  AbsencesAreTimed'
  <2>1. /\ \A q \in Peers \ {p} : conns'[q] = conns[q] /\ early'[q] = early[q] /\ line'[q] = line[q]
        /\ Disconnected(p) /\ line' = line /\ conns'[p] \in Nat
    BY <1>0, <1>2 DEF ConnectionCloses, EarlyCloses, PeerTypeOK
  <2>2. ASSUME Missing(p)' PROVE Timed(p)'
    <3>1. conns'[p] = 0 /\ conns[p] <= 1
      BY <1>0, <1>2, <2>1, <2>2 DEF Missing, IsConnected, ConnectionCloses, EarlyCloses, PeerTypeOK
    <3>2. peerConnCount[p] <= 1
      BY <1>0, <3>1 DEF PeerTypeOK
    <3>. QED
      BY <1>0, <2>1, <3>2, NoticeTimes
  <2>3. ASSUME NEW q \in Peers \ {p} PROVE (Missing(q) => Timed(q))'
    BY <1>0, <2>1, NoticeTimes, OthersStayTimed DEF AbsencesAreTimed
  <2>. QED
    BY <2>2, <2>3 DEF AbsencesAreTimed
<1>3. ASSUME NEW p \in Peers, NEW i \in Slots, TimerFires(p, i)
      PROVE  AbsencesAreTimed'
  <2>1. /\ UNCHANGED <<line, conns, early>>
        /\ \A q \in Peers \ {p} : timers'[q] = timers[q]
        /\ timers'[p][i] # Off
    BY <1>0, <1>3 DEF TimerFires, PeerTypeOK, Fired, Off
  <2>. QED
    BY <1>0, <2>1, OthersStayTimed DEF AbsencesAreTimed, Timed
<1>4. ASSUME NEW p \in Peers, NEW i \in Slots, TimerCallback(p, i)
      PROVE  AbsencesAreTimed' /\ (Missing(p) => line'[p] = "disconnected")
  <2>1. /\ UNCHANGED <<conns, early>> /\ line'[p] \in {line[p], "disconnected"}
        /\ \A q \in Peers \ {p} : timers'[q] = timers[q] /\ line'[q] = line[q]
    BY <1>0, <1>4 DEF TimerCallback, Report, PeerTypeOK
  <2>2. ASSUME Missing(p)
        PROVE  line'[p] = "disconnected"
    <3>1. StillGone(p)
      BY <1>0, <2>2 DEF Missing, IsConnected, StillGone, PeerTypeOK
    <3>2. shouldLogPeerLifecycle(p)
      BY <2>2 DEF PeerInv, PeerOK, Missing
    <3>. QED
      BY <1>0, <1>4, <3>1, <3>2 DEF TimerCallback, Report, PeerTypeOK
  <2>3. ~Missing(p)'
    BY <2>1, <2>2 DEF Missing, IsConnected
  <2>. QED
    BY <1>0, <2>1, <2>2, <2>3, OthersStayTimed DEF AbsencesAreTimed
<1>5. ASSUME Tick
      PROVE  AbsencesAreTimed'
  <2>1. /\ UNCHANGED <<line, conns, early>>
        /\ \A p \in Peers, i \in Slots : timers[p][i] # Off => timers'[p][i] # Off
    BY <1>0, <1>5, DebounceAssumption DEF Tick, PeerTypeOK, Off, Fired
  <2>. QED
    BY <2>1 DEF AbsencesAreTimed, Missing, Timed, IsConnected
<1>6. ASSUME UNCHANGED peerVars \/ \E p \in Peers : HealthHeard(p)
      PROVE  AbsencesAreTimed'
  BY <1>6 DEF peerVars, HealthHeard, AbsencesAreTimed, Missing, Timed, IsConnected
<1>7. AbsencesAreTimed'
  BY <1>1, <1>2, <1>3, <1>4, <1>5, <1>6 DEF PeerNext, PeerStep
<1>8. CallbackReports
  BY <1>4 DEF CallbackReports
<1>. QED
  BY <1>7, <1>8

THEOREM AbsencesAreNoticed == PeerSpec => []AbsencesAreTimed /\ [][CallbackReports]_peerVars
<1>1. PeerInit => AbsencesAreTimed
  BY DEF PeerInit, AbsencesAreTimed, Missing
<1>2. PeerInv /\ AbsencesAreTimed /\ [PeerNext]_peerVars => AbsencesAreTimed' /\ CallbackReports
  BY TimedStep
<1>. QED
  BY <1>1, <1>2, PeerInvariant, PTL DEF PeerSpec

-----------------------------------------------------------------------------
(***************************************************************************)
(* The inference handlers.                                                 *)
(***************************************************************************)
Runs(h) == h.at \notin {"idle", "ended"}
RunningStreams == {s \in StreamIds : Running(s)}

\* What a handler is, given whether its stream is lost and its backend has answered.
HandlerOK(h, gone, done) ==
    /\ h.at \in {"idle", "read", "backend", "chunks"} => ~h.sample
    /\ h.at \in {"idle", "read", "backend"} => h.chunks = 0
    /\ h.at = "chunks" => h.chunks <= MaxChunks
    /\ h.at \in {"finish", "ended"} /\ ~gone => h.last # "none"
    /\ h.sample => done

NodeInv ==
    /\ NodeTypeOK
    /\ IsFiniteSet(RunningStreams)
    /\ \A s \in StreamIds : HandlerOK(handlers[s], s \in lost, s \in answered)
    /\ FiguresAreEarned

\* A handler that goes on: the count stays, unless it has just begun or ended.
LEMMA HandlerStep ==
    ASSUME NodeInv, NEW s \in StreamIds, NEW h \in Handler,
           handlers' = [handlers EXCEPT ![s] = h],
           answered \subseteq answered', answered' \in SUBSET StreamIds,
           \A q \in answered' \ answered : q = s,
           figures' \in SUBSET {"latency", "ttft", "decode"},
           HandlerOK(h, s \in lost, s \in answered'), FiguresAreEarned',
           \/ Runs(h) /\ Running(s) /\ inflight' = inflight
           \/ Runs(h) /\ ~Running(s) /\ inflight' = inflight + 1
           \/ ~Runs(h) /\ Running(s) /\ inflight' = inflight - 1,
           UNCHANGED <<load, lost>>
    PROVE  NodeInv'
<1>1. handlers' \in [StreamIds -> Handler] /\ handlers'[s] = h
      /\ \A q \in StreamIds \ {s} : handlers'[q] = handlers[q]
  BY DEF NodeInv, NodeTypeOK
<1>2. \A q \in StreamIds : HandlerOK(handlers'[q], q \in lost', q \in answered')
  BY <1>1 DEF NodeInv, HandlerOK
<1>3. RunningStreams' = {q \in StreamIds : Runs(handlers'[q])}
      /\ RunningStreams = {q \in StreamIds : Runs(handlers[q])}
  BY DEF RunningStreams, Running, Runs
<1>4. inflight = Cardinality(RunningStreams) /\ IsFiniteSet(RunningStreams)
  BY DEF NodeInv, NodeTypeOK, RunningStreams
<1>5. IsFiniteSet(RunningStreams') /\ inflight' = Cardinality(RunningStreams')
  <2>1. CASE Runs(h) /\ Running(s) /\ inflight' = inflight
    <3>1. RunningStreams' = RunningStreams
      BY <1>1, <1>3, <2>1 DEF RunningStreams
    <3>. QED
      BY <1>4, <2>1, <3>1
  <2>2. CASE Runs(h) /\ ~Running(s) /\ inflight' = inflight + 1
    <3>1. RunningStreams' = RunningStreams \union {s} /\ s \notin RunningStreams
      BY <1>1, <1>3, <2>2 DEF RunningStreams
    <3>. QED
      BY <1>4, <2>2, <3>1, FS_AddElement
  <2>3. CASE ~Runs(h) /\ Running(s) /\ inflight' = inflight - 1
    <3>1. RunningStreams' = RunningStreams \ {s} /\ s \in RunningStreams
      BY <1>1, <1>3, <2>3 DEF RunningStreams
    <3>. QED
      BY <1>4, <2>3, <3>1, FS_RemoveElement
  <2>. QED
    BY <2>1, <2>2, <2>3
<1>6. NodeTypeOK'
  BY <1>1, <1>5 DEF NodeInv, NodeTypeOK, RunningStreams
<1>. QED
  BY <1>2, <1>5, <1>6 DEF NodeInv

\* Figures that stay are earned as they were.
LEMMA FiguresStay ==
    ASSUME FiguresAreEarned, answered \subseteq answered', UNCHANGED figures
    PROVE  FiguresAreEarned'
BY DEF FiguresAreEarned

\* Figures that a finished stream adds: it has a sample, so it was answered.
LEMMA FiguresAdded ==
    ASSUME NodeInv, NEW s \in answered', answered \subseteq answered', NEW tokens,
           figures' = figures \union Sampled(s, tokens)
    PROVE  FiguresAreEarned' /\ figures' \in SUBSET {"latency", "ttft", "decode"}
BY DEF NodeInv, NodeTypeOK, FiguresAreEarned, Sampled

LEMMA StartedHandler ==
    ASSUME NodeInv, NEW s \in StreamIds, markInferenceStarted(s)
    PROVE  NodeInv'
<1>0. handlers[s] \in Handler /\ HandlerOK(handlers[s], s \in lost, s \in answered)
      /\ handlers[s].at = "idle" /\ FiguresAreEarned /\ figures \in SUBSET {"latency", "ttft", "decode"}
      /\ answered \in SUBSET StreamIds
  BY DEF NodeInv, NodeTypeOK, markInferenceStarted, Serves
<1>1. PICK p \in Gateways : handlers' = [handlers EXCEPT ![s].at = "read", ![s].peer = p]
  BY DEF markInferenceStarted
<1>. DEFINE h == [handlers[s] EXCEPT !.at = "read", !.peer = p]
<1>2. h \in Handler /\ h.at = "read" /\ h.chunks = handlers[s].chunks /\ h.last = handlers[s].last
      /\ h.sample = handlers[s].sample /\ handlers' = [handlers EXCEPT ![s] = h]
  BY <1>0, <1>1 DEF Handler
<1>. HIDE DEF h
<1>3. UNCHANGED <<figures, load, answered, lost>> /\ inflight' = inflight + 1
  BY DEF markInferenceStarted
<1>4. HandlerOK(h, s \in lost, s \in answered') /\ Runs(h) /\ ~Running(s)
  BY <1>0, <1>2, <1>3 DEF HandlerOK, Runs, Running
<1>5. FiguresAreEarned'
  BY <1>0, <1>3, FiguresStay
<1>. QED
  BY <1>0, <1>2, <1>3, <1>4, <1>5, HandlerStep

\* A handler that goes on, or is about to end.
LEMMA HandlerGoesOn ==
    ASSUME NodeInv, NEW s \in StreamIds, Running(s), NEW h \in Handler, Runs(h),
           handlers' = [handlers EXCEPT ![s] = h],
           answered' = answered \/ answered' = answered \union {s},
           HandlerOK(h, s \in lost, s \in answered'), UNCHANGED <<inflight, figures, load, lost>>
    PROVE  NodeInv'
<1>1. answered \subseteq answered' /\ answered' \in SUBSET StreamIds
      /\ (\A q \in answered' \ answered : q = s) /\ figures \in SUBSET {"latency", "ttft", "decode"}
  BY DEF NodeInv, NodeTypeOK
<1>2. FiguresAreEarned'
  BY <1>1, FiguresStay DEF NodeInv
<1>. QED
  BY <1>1, <1>2, HandlerStep

\* The last message is sent, or the stream is lost.
LEMMA LastSent ==
    ASSUME NodeInv, NEW s \in StreamIds, handlers[s].at \in {"read", "backend", "chunks"},
           NEW message \in {"ok", "error"}, SendLast(s, "finish", message)
    PROVE  \E h \in Handler :
               /\ handlers' = [handlers EXCEPT ![s] = h]
               /\ Runs(h) /\ HandlerOK(h, s \in lost, s \in answered)
<1>. DEFINE last == IF s \in lost THEN handlers[s].last ELSE message
            h == [handlers[s] EXCEPT !.at = "finish", !.last = last]
<1>0. handlers[s] \in Handler /\ HandlerOK(handlers[s], s \in lost, s \in answered)
  BY DEF NodeInv, NodeTypeOK
<1>1. last \in {"none", "ok", "error"} /\ (s \notin lost => last # "none")
  BY <1>0 DEF Handler
<1>2. handlers' = [handlers EXCEPT ![s] = h]
  BY DEF SendLast
<1>. HIDE DEF last
<1>3. h \in Handler /\ h.at = "finish" /\ h.last = last /\ h.sample = handlers[s].sample
  BY <1>0, <1>1 DEF Handler
<1>. HIDE DEF h
<1>4. Runs(h) /\ HandlerOK(h, s \in lost, s \in answered)
  BY <1>0, <1>1, <1>3 DEF HandlerOK, Runs
<1>. QED
  BY <1>2, <1>3, <1>4

\* The paths out of a handler that send an error.
LEMMA ErrorStep ==
    ASSUME NodeInv, NEW s \in StreamIds,
           RequestUnreadable(s) \/ RefusePeer(s) \/ BackendFails(s) \/ BackendBreaks(s)
    PROVE  NodeInv'
<1>1. handlers[s].at \in {"read", "backend", "chunks"} /\ SendLast(s, "finish", "error")
      /\ UNCHANGED <<inflight, figures, load, answered, lost>>
  BY DEF RequestUnreadable, RefusePeer, BackendFails, BackendBreaks, Serves
<1>2. PICK h \in Handler : /\ handlers' = [handlers EXCEPT ![s] = h]
                           /\ Runs(h) /\ HandlerOK(h, s \in lost, s \in answered)
  BY <1>1, LastSent
<1>3. Running(s)
  BY <1>1 DEF Running
<1>. QED
  BY <1>1, <1>2, <1>3, HandlerGoesOn

\* A unary answer leaves figures.
LEMMA AnswerStep ==
    ASSUME NodeInv, NEW s \in StreamIds, BackendAnswers(s)
    PROVE  NodeInv'
<1>1. /\ handlers[s].at = "backend" /\ SendLast(s, "finish", "ok")
      /\ answered' = answered \union {s} /\ UNCHANGED <<inflight, load, lost>>
  BY DEF BackendAnswers, Serves
<1>2. PICK h \in Handler : /\ handlers' = [handlers EXCEPT ![s] = h]
                           /\ Runs(h) /\ HandlerOK(h, s \in lost, s \in answered)
  BY <1>1, LastSent
<1>3. HandlerOK(h, s \in lost, s \in answered')
  BY <1>1, <1>2 DEF HandlerOK
<1>4. PICK tokens : figures' = figures \union Sampled(s, tokens)
  BY DEF BackendAnswers
<1>5. FiguresAreEarned' /\ figures' \in SUBSET {"latency", "ttft", "decode"}
  BY <1>1, <1>4, FiguresAdded
<1>6. Running(s) /\ answered \subseteq answered' /\ answered' \in SUBSET StreamIds
      /\ (\A q \in answered' \ answered : q = s)
  BY <1>1 DEF Running, NodeInv, NodeTypeOK
<1>. QED
  BY <1>1, <1>2, <1>3, <1>5, <1>6, HandlerStep

\* The request goes to the backend, which begins a stream and sends its chunks.
LEMMA StreamStep ==
    ASSUME NodeInv, NEW s \in StreamIds,
           CallBackend(s) \/ BackendStarts(s) \/ ForwardChunk(s)
    PROVE  NodeInv'
<1>0. handlers[s] \in Handler /\ HandlerOK(handlers[s], s \in lost, s \in answered)
      /\ Running(s) /\ UNCHANGED <<inflight, figures, load, answered, lost>>
  BY DEF NodeInv, NodeTypeOK, CallBackend, BackendStarts, ForwardChunk, Serves, Running
<1>1. CASE CallBackend(s) \/ BackendStarts(s)
  <2>1. PICK at \in {"backend", "chunks"} :
            /\ handlers' = [handlers EXCEPT ![s].at = at]
            /\ handlers[s].at \in {"read", "backend"}
    BY <1>1 DEF CallBackend, BackendStarts, Serves
  <2>. DEFINE h == [handlers[s] EXCEPT !.at = at]
  <2>2. h \in Handler /\ h.at = at /\ h.chunks = handlers[s].chunks /\ h.sample = handlers[s].sample
        /\ handlers' = [handlers EXCEPT ![s] = h]
    BY <1>0, <2>1 DEF Handler
  <2>. HIDE DEF h
  <2>3. Runs(h) /\ HandlerOK(h, s \in lost, s \in answered')
    BY <1>0, <2>1, <2>2, ChunksAssumption DEF HandlerOK, Runs
  <2>. QED
    BY <1>0, <2>2, <2>3, HandlerGoesOn
<1>2. CASE ForwardChunk(s)
  <2>. DEFINE chunks == handlers[s].chunks + 1
              at == IF s \in lost THEN "finish" ELSE handlers[s].at
              h == [handlers[s] EXCEPT !.chunks = chunks, !.at = at]
  <2>1. handlers[s].at = "chunks" /\ handlers[s].chunks < MaxChunks /\ handlers[s].chunks \in Nat
    BY <1>0, <1>2, ChunksAssumption DEF ForwardChunk, Serves, Handler
  <2>2. chunks \in 0..MaxChunks + 1 /\ chunks <= MaxChunks
    BY <2>1, ChunksAssumption
  <2>3. handlers' = [handlers EXCEPT ![s] = h]
    BY <1>2 DEF ForwardChunk
  <2>4. at \in {"chunks", "finish"} /\ (at = "finish" => s \in lost)
    BY <2>1
  <2>. HIDE DEF chunks, at
  <2>5. h \in Handler /\ h.at = at /\ h.chunks = chunks /\ h.sample = handlers[s].sample
    BY <1>0, <2>2, <2>4 DEF Handler
  <2>. HIDE DEF h
  <2>6. Runs(h) /\ HandlerOK(h, s \in lost, s \in answered')
    BY <1>0, <2>1, <2>2, <2>4, <2>5 DEF HandlerOK, Runs
  <2>. QED
    BY <1>0, <2>3, <2>5, <2>6, HandlerGoesOn
<1>. QED
  BY <1>1, <1>2

\* The stream ends well, with a chunk that says so or without one.
LEMMA StreamEndStep ==
    ASSUME NodeInv, NEW s \in StreamIds, ForwardDone(s) \/ BackendEnds(s)
    PROVE  NodeInv'
<1>0. handlers[s] \in Handler /\ HandlerOK(handlers[s], s \in lost, s \in answered)
      /\ handlers[s].at = "chunks" /\ handlers[s].chunks \in 0..MaxChunks + 1
      /\ handlers[s].chunks <= MaxChunks
      /\ Running(s) /\ UNCHANGED <<inflight, figures, load, lost>>
  BY DEF NodeInv, NodeTypeOK, HandlerOK, ForwardDone, BackendEnds, Serves, Running, Handler
<1>1. CASE ForwardDone(s) /\ s \in lost
  <2>1. SendLast(s, "finish", "ok") /\ answered' = answered
    BY <1>1 DEF ForwardDone
  <2>2. PICK h \in Handler : /\ handlers' = [handlers EXCEPT ![s] = h]
                             /\ Runs(h) /\ HandlerOK(h, s \in lost, s \in answered)
    BY <1>0, <2>1, LastSent
  <2>. QED
    BY <1>0, <2>1, <2>2, HandlerGoesOn
<1>2. CASE ForwardDone(s) /\ s \notin lost
  <2>. DEFINE chunks == handlers[s].chunks + 1
              h == [handlers[s] EXCEPT !.at = "finish", !.last = "ok", !.chunks = chunks, !.sample = TRUE]
  <2>1. handlers' = [handlers EXCEPT ![s] = h] /\ answered' = answered \union {s}
    BY <1>2 DEF ForwardDone
  <2>2. chunks \in 0..MaxChunks + 1
    BY <1>0, ChunksAssumption
  <2>. HIDE DEF chunks
  <2>3. h \in Handler /\ h.at = "finish" /\ h.last = "ok"
    BY <1>0, <2>2 DEF Handler
  <2>. HIDE DEF h
  <2>4. Runs(h) /\ HandlerOK(h, s \in lost, s \in answered')
    BY <2>1, <2>3 DEF HandlerOK, Runs
  <2>. QED
    BY <1>0, <2>1, <2>3, <2>4, HandlerGoesOn
<1>3. CASE BackendEnds(s)
  <2>. DEFINE sample == handlers[s].chunks > 0
              last == IF s \in lost THEN handlers[s].last ELSE "ok"
              h == [handlers[s] EXCEPT !.at = "finish", !.sample = sample, !.last = last]
  <2>1. /\ handlers' = [handlers EXCEPT ![s] = h]
        /\ answered' = IF sample THEN answered \union {s} ELSE answered
    BY <1>3 DEF BackendEnds
  <2>2. sample \in BOOLEAN /\ last \in {"none", "ok", "error"} /\ (s \notin lost => last = "ok")
    BY <1>0 DEF Handler
  <2>. HIDE DEF sample, last
  <2>3. h \in Handler /\ h.at = "finish" /\ h.last = last /\ h.sample = sample
    BY <1>0, <2>2 DEF Handler
  <2>. HIDE DEF h
  <2>4. Runs(h) /\ HandlerOK(h, s \in lost, s \in answered')
    BY <2>1, <2>2, <2>3 DEF HandlerOK, Runs
  <2>. QED
    BY <1>0, <2>1, <2>3, <2>4, HandlerGoesOn
<1>. QED
  BY <1>1, <1>2, <1>3

\* The deferred functions.
LEMMA FinishStep ==
    ASSUME NodeInv, NEW s \in StreamIds, markInferenceFinished(s)
    PROVE  NodeInv'
<1>. DEFINE h == [handlers[s] EXCEPT !.at = "ended"]
<1>0. handlers[s] \in Handler /\ HandlerOK(handlers[s], s \in lost, s \in answered)
      /\ handlers[s].at = "finish" /\ Running(s) /\ answered \in SUBSET StreamIds
      /\ inflight' = inflight - 1 /\ UNCHANGED <<load, answered, lost>>
  BY DEF NodeInv, NodeTypeOK, markInferenceFinished, Serves, Running
<1>1. handlers' = [handlers EXCEPT ![s] = h]
  BY DEF markInferenceFinished
<1>2. h \in Handler /\ h.at = "ended" /\ h.last = handlers[s].last /\ h.sample = handlers[s].sample
  BY <1>0 DEF Handler
<1>. HIDE DEF h
<1>3. ~Runs(h) /\ HandlerOK(h, s \in lost, s \in answered')
  BY <1>0, <1>2 DEF HandlerOK, Runs
<1>4. FiguresAreEarned' /\ figures' \in SUBSET {"latency", "ttft", "decode"}
  <2>1. CASE handlers[s].sample
    <3>1. s \in answered' /\ figures' = figures \union Sampled(s, 0)
      BY <1>0, <2>1 DEF HandlerOK, markInferenceFinished
    <3>. QED
      BY <1>0, <3>1, FiguresAdded
  <2>2. CASE ~handlers[s].sample
    BY <1>0, <2>2, FiguresStay DEF markInferenceFinished, NodeInv, NodeTypeOK
  <2>. QED
    BY <2>1, <2>2
<1>. QED
  BY <1>0, <1>1, <1>2, <1>3, <1>4, HandlerStep

LEMMA LostStep ==
    ASSUME NodeInv, NEW s \in StreamIds, ConnectionLost(s)
    PROVE  NodeInv'
<1>1. lost' = lost \union {s} /\ UNCHANGED <<handlers, inflight, figures, load, answered>>
  BY DEF ConnectionLost
<1>2. NodeTypeOK' /\ IsFiniteSet(RunningStreams')
  BY <1>1 DEF NodeInv, NodeTypeOK, RunningStreams, Running
<1>3. \A q \in StreamIds : HandlerOK(handlers'[q], q \in lost', q \in answered')
  BY <1>1 DEF NodeInv, HandlerOK
<1>4. FiguresAreEarned'
  BY <1>1, FiguresStay DEF NodeInv
<1>. QED
  BY <1>2, <1>3, <1>4 DEF NodeInv

LEMMA HealthPublished ==
    ASSUME NodeInv, PublishHealth
    PROVE  NodeInv'
<1>1. load' = inflight /\ UNCHANGED <<handlers, inflight, figures, answered, lost>>
  BY DEF PublishHealth
<1>2. inflight \in Nat
  BY FS_CardinalityType DEF NodeInv, NodeTypeOK, RunningStreams
<1>3. NodeTypeOK' /\ IsFiniteSet(RunningStreams')
  BY <1>1, <1>2 DEF NodeInv, NodeTypeOK, RunningStreams, Running
<1>4. FiguresAreEarned'
  BY <1>1, FiguresStay DEF NodeInv
<1>. QED
  BY <1>1, <1>3, <1>4 DEF NodeInv

LEMMA NodeStart == NodeInit => NodeInv
<1>. SUFFICES ASSUME NodeInit PROVE NodeInv
  OBVIOUS
<1>1. (CHOOSE p \in Gateways : TRUE) \in Gateways
  BY GatewaysAssumption
<1>2. IdleHandler \in Handler /\ IdleHandler.at = "idle" /\ IdleHandler.chunks = 0
      /\ ~IdleHandler.sample
  BY <1>1, ChunksAssumption DEF IdleHandler, Handler
<1>3. handlers \in [StreamIds -> Handler] /\ \A s \in StreamIds : handlers[s] = IdleHandler
  BY <1>2 DEF NodeInit
<1>4. RunningStreams = {}
  BY <1>2, <1>3 DEF RunningStreams, Running
<1>5. NodeTypeOK /\ IsFiniteSet(RunningStreams)
  BY <1>3, <1>4, FS_EmptySet DEF NodeInit, NodeTypeOK, RunningStreams
<1>6. \A s \in StreamIds : HandlerOK(handlers[s], s \in lost, s \in answered)
  BY <1>2, <1>3 DEF HandlerOK
<1>. QED
  BY <1>5, <1>6 DEF NodeInit, NodeInv, FiguresAreEarned

LEMMA NodeStep == NodeInv /\ [NodeNext]_nodeVars => NodeInv'
<1>. SUFFICES ASSUME NodeInv, [NodeNext]_nodeVars PROVE NodeInv'
  OBVIOUS
<1>1. ASSUME NEW s \in StreamIds, markInferenceStarted(s) \/ Serve(s) \/ ConnectionLost(s)
      PROVE  NodeInv'
  BY <1>1, StartedHandler, ErrorStep, AnswerStep, StreamStep, StreamEndStep, FinishStep, LostStep
     DEF Serve, ServeUnary, ServeStream
<1>2. CASE PublishHealth
  BY <1>2, HealthPublished
<1>3. CASE UNCHANGED nodeVars
  BY <1>3 DEF nodeVars, NodeInv, NodeTypeOK, RunningStreams, Running, FiguresAreEarned
<1>. QED
  BY <1>1, <1>2, <1>3 DEF NodeNext

(***************************************************************************)
(* Whatever fails on the way: the in-flight count is the number of         *)
(* handlers that run, a gateway that still reads its stream gets a last    *)
(* message, and figures come from answers only.                            *)
(***************************************************************************)
THEOREM HandlersCorrect == NodeSpec => [](NodeTypeOK /\ EveryStreamIsTerminated /\ FiguresAreEarned)
<1>1. NodeInv => NodeTypeOK /\ EveryStreamIsTerminated /\ FiguresAreEarned
  BY DEF NodeInv, HandlerOK, EveryStreamIsTerminated
<1>. QED
  BY <1>1, NodeStart, NodeStep, PTL DEF NodeSpec

=============================================================================

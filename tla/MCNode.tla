-------------------------------- MODULE MCNode --------------------------------
(***************************************************************************)
(* A small instance of the node runtime: the reports about a bootstrap     *)
(* peer, the reports about a peer it met, or the inference handlers.  The  *)
(* three share no state but the Runtime that holds them, so a behaviour    *)
(* exercises one of them.                                                  *)
(***************************************************************************)
EXTENDS PeerLifecycle, NodeInference

CONSTANTS boot, met, gw, stranger, s1, s2, s3

VARIABLE work

MCVars == <<peerVars, nodeVars, work>>
MCInit ==
    /\ PeerInit /\ NodeInit
    /\ work \in {"boot", "met", "inference"}
    /\ work # "boot" => early[boot] = "none"
    /\ work # "met" => early[met] = "none"
MCNext ==
    /\ UNCHANGED work
    /\ \/ work = "boot" /\ (PeerStep(boot) \/ Tick) /\ UNCHANGED nodeVars
       \/ work = "met" /\ (PeerStep(met) \/ Tick) /\ UNCHANGED nodeVars
       \/ work = "inference" /\ NodeNext /\ UNCHANGED peerVars
MCSpec ==
    /\ MCInit /\ [][MCNext]_MCVars
    /\ WF_MCVars(work # "inference" /\ Tick /\ UNCHANGED <<nodeVars, work>>)
    /\ \A p \in Peers : WF_MCVars(/\ \E i \in Slots : TimerFires(p, i) \/ TimerCallback(p, i)
                                  /\ UNCHANGED <<nodeVars, work>>)
    /\ \A s \in StreamIds : WF_MCVars(Serve(s) /\ UNCHANGED <<peerVars, work>>)
    /\ WF_MCVars(work = "inference" /\ PublishHealth /\ UNCHANGED <<peerVars, work>>)

=============================================================================

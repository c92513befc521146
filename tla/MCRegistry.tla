----------------------------- MODULE MCRegistry -----------------------------
(***************************************************************************)
(* Small instances of Registry.  Nodes of one registry meet in pruning and *)
(* in the merge loop only, and what a node offers is between it and the    *)
(* gateway, so a behaviour is about the pruning of two nodes, of which one *)
(* clock lags and one is ahead, or about the models of one node that comes *)
(* back with another model or with none.                                   *)
(***************************************************************************)
EXTENDS Registry, TLC

CONSTANTS n1, n2, llama, qwen
VARIABLE work

TwoNodes == {n1, n2}
TwoModels == {llama, qwen}
OneChanges == n1 :> {{llama}, {qwen}, {}} @@ n2 :> {{}}
LookedUp == {llama}
OneLags == n1 :> -1 @@ n2 :> 1
LagsPastTheWindow == n1 :> -3 @@ n2 :> 0

RegistryInit ==
    /\ Init /\ up = {n1}
    /\ work \in {"pruning", "models"}
    /\ work = "pruning" => offers[n1] = {llama}
RegistryNext ==
    /\ Next /\ UNCHANGED work
    /\ work = "pruning" => changes' = 0
    /\ work = "models" => n2 \notin up'
RegistrySpec == RegistryInit /\ [][RegistryNext]_<<vars, work>> /\ Fairness

=============================================================================

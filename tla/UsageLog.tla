------------------------------- MODULE UsageLog -------------------------------
(***************************************************************************)
(* What the control API promises of usage_events: a batch is stored whole  *)
(* and at once, or not at all, and at most once however often it is sent;  *)
(* a row that is there stays as it was written.  Batches may share their   *)
(* requests; each leaves the rows it finds.                                *)
(***************************************************************************)
CONSTANTS
    Batches,
    Covers,         \* batch -> the requests it has events of
    UsageRequests,
    NoBatch, Own    \* no batch; the official gateway itself

VARIABLES
    usage,      \* request -> the batch, or Own, that wrote its row, or NoBatch
    stored      \* batches that were answered as stored

vars == <<usage, stored>>

Init ==
    /\ usage = [r \in UsageRequests |-> NoBatch]
    /\ stored = {}

StoreBatch(b) ==
    /\ b \notin stored
    /\ stored' = stored \union {b}
    /\ usage' = [r \in UsageRequests |->
           IF r \in Covers[b] /\ usage[r] = NoBatch THEN b ELSE usage[r]]

RecordOwn(r) ==
    /\ usage[r] = NoBatch
    /\ usage' = [usage EXCEPT ![r] = Own]
    /\ UNCHANGED stored

Next ==
    \/ \E b \in Batches : StoreBatch(b)
    \/ \E r \in UsageRequests : RecordOwn(r)

Spec == Init /\ [][Next]_vars

(***************************************************************************)
(* No batch is there in part: a row that a batch wrote is of a batch that  *)
(* was answered as stored and has an event of the request, and a stored    *)
(* batch has a row for each of its requests.                               *)
(***************************************************************************)
NothingHalfStored ==
    /\ \A r \in UsageRequests : usage[r] \in Batches => usage[r] \in stored /\ r \in Covers[usage[r]]
    /\ \A b \in stored : \A r \in Covers[b] : usage[r] # NoBatch

=============================================================================

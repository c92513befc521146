------------------------------ MODULE Telemetry ------------------------------
(***************************************************************************)
(* Usage rows: the batches gateways send to the control API, whose ids are *)
(* recorded once, and the rows an official gateway writes for its own      *)
(* chats.  Both go to usage_events, whose key is the request id and whose  *)
(* providers must exist.                                                   *)
(*                                                                         *)
(* Nothing in the repository sends batches; a sender that repeats a batch  *)
(* until it is answered is what the handler's answers are made for.        *)
(***************************************************************************)
EXTENDS Providers

CONSTANTS
    Batches,        \* batches, by gateway_id and batch_id
    Events,         \* batch -> its events in order: request id and provider
    UsageRequests,
    TelemetryCalls, \* calls of the handler
    NoProvider,     \* an event without a provider
    NoBatch, Own    \* no batch; the official gateway itself

Event == [request : UsageRequests, provider : ProviderIds \union {NoProvider}]
ASSUME EventsAssumption == Events \in [Batches -> Seq(Event)]
ASSUME CallsAssumption == IsFiniteSet(TelemetryCalls)
ASSUME MarksAssumption == NoBatch \notin Batches /\ Own \notin Batches /\ NoBatch # Own
                          /\ NoProvider \notin ProviderIds

VARIABLES
    recorded,   \* rows of telemetry_batches
    usage,      \* request -> the batch, or Own, that wrote its row, or NoBatch
    tcalls,     \* call -> its place, batch, event at hand, uncommitted rows
    stored,     \* batches that were answered as stored
    failed      \* batches whose storing failed or died once recorded

telemetryVars == <<recorded, usage, tcalls, stored, failed>>
controlVars == <<providers, history, pcalls, halfway, recorded, usage, tcalls, stored, failed>>

TelemetryCall == [at : {"idle", "check", "record", "insert"},
                  batch : Batches \union {NoBatch}, accepted : BOOLEAN,
                  next : Nat, rows : SUBSET UsageRequests]

(***************************************************************************)
(* Only a recorded batch is inserted, and its uncommitted rows are those   *)
(* of the events it has passed.                                            *)
(***************************************************************************)
TelemetryTypeOK ==
    /\ recorded \in SUBSET Batches
    /\ usage \in [UsageRequests -> Batches \union {NoBatch, Own}]
    /\ tcalls \in [TelemetryCalls -> TelemetryCall]
    /\ stored \in SUBSET recorded
    /\ failed \in SUBSET recorded
    /\ \A x \in TelemetryCalls : tcalls[x].at = "insert" => tcalls[x].batch \in recorded

IdleTelemetry == [at |-> "idle", batch |-> NoBatch, accepted |-> FALSE, next |-> 1, rows |-> {}]

TelemetryInit ==
    /\ recorded = {}
    /\ usage = [r \in UsageRequests |-> NoBatch]
    /\ tcalls = [x \in TelemetryCalls |-> IdleTelemetry]
    /\ stored = {}
    /\ failed = {}

BatchRequests(b) == {Events[b][i].request : i \in DOMAIN Events[b]}
Log == INSTANCE UsageLog WITH Covers <- [b \in Batches |-> BatchRequests(b)]
Inserting(b) == {x \in TelemetryCalls : tcalls[x].at = "insert" /\ tcalls[x].batch = b}
Busy(x, place) == tcalls[x].at = place
Reply(x) == tcalls' = [tcalls EXCEPT ![x] = IdleTelemetry]

-----------------------------------------------------------------------------
\* A batch comes, or comes again; time stamp, signature and token are good or not.
SendBatch(x) ==
    /\ Busy(x, "idle")
    /\ \E b \in Batches, accepted \in BOOLEAN :
           tcalls' = [tcalls EXCEPT ![x] =
               [IdleTelemetry EXCEPT !.at = "check", !.batch = b, !.accepted = accepted]]
    /\ UNCHANGED <<recorded, usage, stored, failed>>

RejectBatch(x) ==
    /\ Busy(x, "check") /\ ~tcalls[x].accepted
    /\ Reply(x)
    /\ UNCHANGED <<recorded, usage, stored, failed>>

AcceptBatch(x) ==
    /\ Busy(x, "check") /\ tcalls[x].accepted
    /\ tcalls' = [tcalls EXCEPT ![x].at = "record"]
    /\ UNCHANGED <<recorded, usage, stored, failed>>

\* RecordTelemetryBatch: a batch that is there already is answered as a duplicate.
RecordBatch(x) ==
    LET b == tcalls[x].batch IN
    /\ Busy(x, "record")
    /\ recorded' = recorded \union {b}
    /\ IF b \in recorded THEN Reply(x) ELSE tcalls' = [tcalls EXCEPT ![x].at = "insert"]
    /\ UNCHANGED <<usage, stored, failed>>

\* The call returns an error, or the caller has gone; the row may be there all the same.
RecordFails(x) ==
    LET b == tcalls[x].batch IN
    /\ Busy(x, "record")
    /\ \/ UNCHANGED <<recorded, failed>>
       \/ b \notin recorded /\ recorded' = recorded \union {b} /\ failed' = failed \union {b}
    /\ Reply(x)
    /\ UNCHANGED <<usage, stored>>

-----------------------------------------------------------------------------
\* InsertUsageEvents: one transaction, one statement per event.
Current(x) == Events[tcalls[x].batch][tcalls[x].next]
HasNext(x) == tcalls[x].next <= Len(Events[tcalls[x].batch])

\* A row of an uncommitted transaction makes another INSERT of its key wait.
WaitsFor(x, y) ==
    /\ x # y /\ Busy(x, "insert") /\ HasNext(x)
    /\ Current(x).request \in tcalls[y].rows
ProviderKnown(e) == e.provider = NoProvider \/ e.provider \in providers

\* Mutants: a row that is under way is not waited for; an unknown provider is skipped.
InsertEventUnwaited(x) ==
    LET e == Current(x) IN
    /\ Busy(x, "insert") /\ HasNext(x) /\ ProviderKnown(e)
    /\ tcalls' = [tcalls EXCEPT ![x].next = @ + 1,
           ![x].rows = IF usage[e.request] = NoBatch /\ \A y \in TelemetryCalls : ~WaitsFor(x, y)
                       THEN @ \union {e.request} ELSE @]
    /\ UNCHANGED <<recorded, usage, stored, failed>>
InsertEventUnlessUnknown(x) ==
    LET e == Current(x) IN
    /\ Busy(x, "insert") /\ HasNext(x)
    /\ \A y \in TelemetryCalls : ~WaitsFor(x, y)
    /\ tcalls' = [tcalls EXCEPT ![x].next = @ + 1,
           ![x].rows = IF usage[e.request] = NoBatch /\ ProviderKnown(e)
                       THEN @ \union {e.request} ELSE @]
    /\ UNCHANGED <<recorded, usage, stored, failed>>

InsertEvent(x) ==
    LET e == Current(x) IN
    /\ Busy(x, "insert") /\ HasNext(x) /\ ProviderKnown(e)
    /\ \A y \in TelemetryCalls : ~WaitsFor(x, y)
    /\ tcalls' = [tcalls EXCEPT ![x].next = @ + 1,
           ![x].rows = IF usage[e.request] = NoBatch THEN @ \union {e.request} ELSE @]
    /\ UNCHANGED <<recorded, usage, stored, failed>>

CommitEvents(x) ==
    LET b == tcalls[x].batch IN
    /\ Busy(x, "insert") /\ ~HasNext(x)
    /\ usage' = [r \in UsageRequests |-> IF r \in tcalls[x].rows THEN b ELSE usage[r]]
    /\ stored' = stored \union {b}
    /\ Reply(x)
    /\ UNCHANGED <<recorded, failed>>

\* Mutant: an error leaves the transaction open.
FailInsertOpen(x) ==
    /\ failed' = failed \union {tcalls[x].batch}
    /\ UNCHANGED <<recorded, usage, tcalls, stored>>

\* The whole transaction is rolled back; the batch stays recorded.
FailInsert(x) ==
    /\ failed' = failed \union {tcalls[x].batch}
    /\ Reply(x)
    /\ UNCHANGED <<recorded, usage, stored>>

\* The provider has no row yet, so the foreign key refuses the event.
ProviderMissing(x) ==
    Busy(x, "insert") /\ HasNext(x) /\ ~ProviderKnown(Current(x)) /\ FailInsert(x)

\* Batches with the same requests in other orders wait in a circle: PostgreSQL ends one.
Deadlocked(S) ==
    \A x \in S : (\E y \in S : WaitsFor(x, y)) /\ (\E y \in S : WaitsFor(y, x))
DeadlockEnds(x) ==
    /\ \E S \in SUBSET TelemetryCalls : x \in S /\ Deadlocked(S)
    /\ FailInsert(x)

\* A store error, a client that hangs up, or a crash.
InsertFails(x) == Busy(x, "insert") /\ FailInsert(x)

-----------------------------------------------------------------------------
\* recordOfficialChatUsage, on the same table, in a transaction of one event.
RecordOwnUsage(r) ==
    /\ usage[r] = NoBatch
    /\ \A x \in TelemetryCalls : r \notin tcalls[x].rows
    /\ usage' = [usage EXCEPT ![r] = Own]
    /\ UNCHANGED <<recorded, tcalls, stored, failed>>

HandleUsage(x) ==
    RejectBatch(x) \/ AcceptBatch(x) \/ RecordBatch(x) \/ InsertEvent(x) \/ CommitEvents(x)
        \/ ProviderMissing(x) \/ DeadlockEnds(x)

TelemetryNext ==
    \/ \E x \in TelemetryCalls : SendBatch(x) \/ HandleUsage(x) \/ RecordFails(x) \/ InsertFails(x)
    \/ \E r \in UsageRequests : RecordOwnUsage(r)

ControlInit == ProvidersInit /\ TelemetryInit
ControlNext ==
    \/ ProvidersNext /\ UNCHANGED telemetryVars
    \/ TelemetryNext /\ UNCHANGED providerVars
ControlSpec == ControlInit /\ [][ControlNext]_controlVars

\* A handler goes on, and PostgreSQL breaks deadlocks (deadlock_timeout).
ControlFairness ==
    \A x \in TelemetryCalls : WF_controlVars(HandleUsage(x) /\ UNCHANGED providerVars)

-----------------------------------------------------------------------------
(***************************************************************************)
(* A batch that was answered as stored has a row for every event.          *)
(***************************************************************************)
StoredBatchesAreThere == \A b \in stored : \A r \in BatchRequests(b) : usage[r] # NoBatch

(***************************************************************************)
(* Statement by statement, batches are stored as UsageLog promises: each   *)
(* whole, at once and at most once, or not at all, though they share       *)
(* requests, overlap, repeat, fail and end each other's deadlocks.         *)
(***************************************************************************)
StoresWhole == Log!Spec

(***************************************************************************)
(* A recorded batch that nobody is storing has all of its rows, unless the *)
(* call that recorded it failed on the way: then every repetition is a     *)
(* duplicate, and what is missing stays missing.                           *)
(***************************************************************************)
DroppedOnlyByFailure ==
    \A b \in recorded \ failed :
        Inserting(b) = {} => \A r \in BatchRequests(b) : usage[r] # NoBatch

(***************************************************************************)
(* The row of a request is written once: a batch never replaces the row    *)
(* the official gateway charged by, nor one batch another's.               *)
(***************************************************************************)
FirstWriterWins ==
    [][\A r \in UsageRequests : usage[r] # NoBatch => usage'[r] = usage[r]]_controlVars

(***************************************************************************)
(* Every batch the handler starts on is answered, though batches that      *)
(* share requests wait for each other.                                     *)
(***************************************************************************)
EveryBatchIsAnswered ==
    \A x \in TelemetryCalls : tcalls[x].at # "idle" ~> tcalls[x].at = "idle"

=============================================================================

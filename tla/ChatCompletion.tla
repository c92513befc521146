--------------------------- MODULE ChatCompletion ---------------------------
(***************************************************************************)
(* Chat completions in one gateway: authorization, the prepaid hold or the *)
(* x402 payment, the failover over remote providers, the local backend,    *)
(* and the deferred settlement and usage row.  Requests run concurrently   *)
(* and meet in the prepaid store, used here through its promise.           *)
(***************************************************************************)
EXTENDS Integers, Sequences

CONSTANTS
    Requests,           \* one fresh gateway request id per call
    Owner,              \* the consumer behind a prepaid key, NoRow for other callers
    Streams,            \* the requests that ask for a stream
    Official,           \* gateway mode "official": prepaid keys only
    Paywall,            \* an x402 paywall is configured for chat
    LocalBackend,       \* the gateway has a local backend to fall back to
    MaxRemoteRetries,   \* failovers after the first provider
    HoldFor,            \* the estimate reserved for a request
    Costs,              \* what an answer may cost
    InputCost,          \* what an answer with no reported tokens costs
    Faults,             \* what may go wrong besides the providers
    Consumers, Fingerprints, Amounts, Charges, PaymentOf, NoRow

ASSUME ModeAssumption == Official \in BOOLEAN /\ Paywall \in BOOLEAN /\ LocalBackend \in BOOLEAN
ASSUME RetriesAssumption == MaxRemoteRetries \in Nat
ASSUME FaultsAssumption == Faults \subseteq {"disconnect", "store", "crash"}
ASSUME PricesAssumption ==
    /\ Owner \in [Requests -> Consumers \union {NoRow}]
    /\ HoldFor \in [Requests -> Amounts \ {0}]
    /\ InputCost \in Costs /\ Costs \subseteq Nat
    \* FinalizePrepaidCharge is handed the cost, capped by the hold, or nothing.
    /\ \A r \in Requests : 0..HoldFor[r] \subseteq Charges
ASSUME AmountsAssumption == Amounts \subseteq Nat /\ Charges \subseteq Int
ASSUME PaymentAssumption ==
    PaymentOf \in [Fingerprints -> [payer : Consumers, amount : Nat \ {0}]]
ASSUME ReferenceAssumption == NoRow \notin Fingerprints   \* as in PrepaidLedger
ASSUME NoRowAssumption == NoRow \notin Int /\ NoRow \notin Consumers
    /\ NoRow \notin [consumer : Consumers, reserved : Nat, charged : Nat,
                     status : {"reserved", "finalized", "released"}]

VARIABLES
    balances, ledger, reservations, topups,   \* the prepaid store
    chat,       \* request -> where its handler is, and what it did so far
    usage       \* usage_events: request -> its row or NoRow

storeVars == <<balances, ledger, reservations, topups>>
vars == <<balances, ledger, reservations, topups, chat, usage>>

Store == INSTANCE PrepaidLedger

Chat ==
    [at : {"new", "authorize", "reserve", "pay", "route", "remote", "streaming",
           "local", "localStreaming", "settle", "usage", "done", "dead"},
     gone : BOOLEAN,        \* r.Context() is cancelled: the client hung up
     sent : {"nothing", "partial", "answer", "payment", "error"},
     tried : Nat,           \* providers tried
     runs : Nat,            \* inferences started for this request, here or remotely
     paid : BOOLEAN,        \* an x402 payment was settled for it
     success : BOOLEAN, cost : Nat]
UsageRow == [status : {"ok", "error"}, cost : Nat]

(***************************************************************************)
(* The tables, the handlers and the usage rows have their shape: a handler *)
(* is at one of its places with one kind of reply sent.                    *)
(***************************************************************************)
TypeOK ==
    /\ Store!TypeOK
    /\ chat \in [Requests -> Chat]
    /\ usage \in [Requests -> UsageRow \union {NoRow}]

NewChat == [at |-> "new", gone |-> FALSE, sent |-> "nothing", tried |-> 0, runs |-> 0,
            paid |-> FALSE, success |-> FALSE, cost |-> 0]

Init ==
    /\ Store!Init
    /\ chat = [r \in Requests |-> NewChat]
    /\ usage = [r \in Requests |-> NoRow]

-----------------------------------------------------------------------------
HasSession(r) == Owner[r] # NoRow
Wait(r, place) == chat[r].at = place
Goto(r, place) == chat' = [chat EXCEPT ![r].at = place]
\* The handler answers without a session: nothing to settle, nothing to record.
Refuse(r, reply) == chat' = [chat EXCEPT ![r].at = "done", ![r].sent = reply]
Fail(r, reply) == chat' = [chat EXCEPT ![r].at = "settle", ![r].sent = reply]
\* A run k times more often, and back to the next provider.
Skip(r, k) == chat' = [chat EXCEPT ![r].at = "route", ![r].runs = @ + k]
Succeed(r, k, cost) ==
    chat' = [chat EXCEPT ![r].at = "settle", ![r].sent = "answer", ![r].runs = @ + k,
                         ![r].success = TRUE, ![r].cost = cost]
UnchangedStore == UNCHANGED storeVars
UnchangedAll == UnchangedStore /\ UNCHANGED usage

Arrive(r) == Wait(r, "new") /\ Goto(r, "authorize") /\ UnchangedAll

\* An unknown or revoked key, a key store that does not answer, a bad body.
RejectCaller(r) == Wait(r, "authorize") /\ Refuse(r, "error") /\ UnchangedAll

\* Mutant: callers without a prepaid key are not sent to the paywall.
AcceptCallerUnpaid(r) ==
    /\ Wait(r, "authorize")
    /\ Goto(r, IF HasSession(r) THEN "reserve" ELSE "route")
    /\ UnchangedAll

AcceptCaller(r) ==
    /\ Wait(r, "authorize")
    /\ HasSession(r) => ~chat[r].gone
    /\ IF Official /\ ~HasSession(r)
       THEN Refuse(r, "error")
       ELSE Goto(r, IF HasSession(r) THEN "reserve" ELSE "pay")
    /\ UnchangedAll

ReserveApproved(r) ==
    /\ Wait(r, "reserve") /\ ~chat[r].gone
    /\ Store!Reserve(Owner[r], r, HoldFor[r])
    /\ Goto(r, "route")
    /\ UNCHANGED usage

ReserveDeclined(r) ==
    /\ Wait(r, "reserve") /\ ~chat[r].gone
    /\ Store!BalanceOf(Owner[r]) < HoldFor[r]
    /\ Refuse(r, "payment")
    /\ UnchangedAll

\* The call returns an error; its transaction may have committed all the same.
ReserveFails(r) ==
    /\ Wait(r, "reserve")
    /\ chat[r].gone \/ "store" \in Faults
    /\ Refuse(r, "error")
    /\ UnchangedStore \/ Store!Reserve(Owner[r], r, HoldFor[r])
    /\ UNCHANGED usage

PaymentAccepted(r) ==
    /\ Wait(r, "pay")
    /\ chat' = [chat EXCEPT ![r].at = "route", ![r].paid = Paywall]
    /\ UnchangedAll

PaymentDemanded(r) == Wait(r, "pay") /\ Paywall /\ Refuse(r, "payment") /\ UnchangedAll

(***************************************************************************)
(* The provider loop.  The list of providers may end at any turn.          *)
(***************************************************************************)
TryProvider(r) ==
    /\ Wait(r, "route")
    /\ chat[r].tried <= MaxRemoteRetries
    /\ chat' = [chat EXCEPT ![r].at = "remote", ![r].tried = @ + 1]
    /\ UnchangedAll

GiveUpOnProviders(r) ==
    /\ Wait(r, "route")
    /\ IF LocalBackend THEN Goto(r, "local") ELSE Fail(r, "error")
    /\ UnchangedAll

(***************************************************************************)
(* One call of a provider.  A unary call that fails is made once more, and *)
(* the provider may have run it each time; a stream is only asked for      *)
(* again when the request was not written.                                 *)
(***************************************************************************)
Runs(r) == IF r \in Streams THEN 0..1 ELSE 0..2

\* An error, a first token that is late or not ok, an unreadable payment demand.
ProviderFails(r) ==
    /\ Wait(r, "remote")
    /\ \E k \in Runs(r) : Skip(r, k)
    /\ UnchangedAll

\* The demand may answer the second call, and the first may have run.
ProviderDemandsPayment(r) ==
    /\ Wait(r, "remote")
    /\ \E k \in IF r \in Streams THEN {0} ELSE 0..1 :
           chat' = [chat EXCEPT ![r].at = "settle", ![r].sent = "payment", ![r].runs = @ + k]
    /\ UnchangedAll

ProviderAnswers(r) ==
    /\ Wait(r, "remote") /\ r \notin Streams
    /\ \E k \in Runs(r) \ {0}, cost \in Costs : Succeed(r, k, cost)
    /\ UnchangedAll

StartStream(r, place) ==
    chat' = [chat EXCEPT ![r].at = place, ![r].sent = "partial", ![r].runs = @ + 1]

ProviderStarts(r) ==
    /\ Wait(r, "remote") /\ r \in Streams
    /\ StartStream(r, "streaming")
    /\ UnchangedAll

LocalFails(r) ==
    /\ Wait(r, "local")
    /\ \E k \in 0..1 :
           chat' = [chat EXCEPT ![r].at = "settle", ![r].sent = "error", ![r].runs = @ + k]
    /\ UnchangedAll

LocalAnswers(r) ==
    /\ Wait(r, "local") /\ r \notin Streams
    /\ \E cost \in Costs : Succeed(r, 1, cost)
    /\ UnchangedAll

LocalStarts(r) ==
    /\ Wait(r, "local") /\ r \in Streams
    /\ StartStream(r, "localStreaming")
    /\ UnchangedAll

\* The chunk that says done, or an end of file without one: no tokens reported.
StreamEnds(r, place) ==
    /\ Wait(r, place)
    /\ \E cost \in Costs \union {InputCost} : Succeed(r, 0, cost)
    /\ UnchangedAll

\* Mutants: a broken stream counts as its end; it goes on to the next provider.
StreamBreaksAsEnd(r, place) ==
    /\ Wait(r, place)
    /\ chat' = [chat EXCEPT ![r].at = "settle", ![r].success = TRUE, ![r].cost = InputCost]
    /\ UnchangedAll
StreamBreaksRetried(r, place) == Wait(r, place) /\ Goto(r, "route") /\ UnchangedAll

\* A chunk that is not ok or not readable, or a client that cannot be written to.
StreamBreaks(r, place) == Wait(r, place) /\ Goto(r, "settle") /\ UnchangedAll

-----------------------------------------------------------------------------
(***************************************************************************)
(* The deferred function: the hold is settled with r.Context(), the usage  *)
(* row is written without its cancellation.                                *)
(***************************************************************************)
Least(a, b) == IF a < b THEN a ELSE b
ActualFor(r) == IF chat[r].success THEN Least(chat[r].cost, HoldFor[r]) ELSE 0

\* Mutant: the arguments of the deferred call are those of the defer statement.
SettleHoldDeferredEarly(r) ==
    /\ Wait(r, "settle") /\ HasSession(r)
    /\ ~chat[r].gone
    /\ Store!Finalize(r, 0, FALSE)
    /\ Goto(r, "usage")
    /\ UNCHANGED usage

SettleHold(r) ==
    /\ Wait(r, "settle") /\ HasSession(r)
    /\ ~chat[r].gone
    /\ Store!Finalize(r, ActualFor(r), chat[r].success)
    /\ Goto(r, "usage")
    /\ UNCHANGED usage

\* Mutant: the settlement is tried again with the same context.
SettleFailsRetried(r) ==
    /\ Wait(r, "settle") /\ HasSession(r)
    /\ chat[r].gone \/ "store" \in Faults
    /\ UNCHANGED chat
    /\ UnchangedAll

\* The error is logged, and the hold stays.
SettleFails(r) ==
    /\ Wait(r, "settle") /\ HasSession(r)
    /\ chat[r].gone \/ "store" \in Faults
    /\ Goto(r, "usage")
    /\ UnchangedAll

\* Mutant: the handler returns without its deferred settlement.
SettleSkipped(r) ==
    /\ Wait(r, "settle")
    /\ Goto(r, "usage")
    /\ UnchangedAll

NothingToSettle(r) ==
    /\ Wait(r, "settle") /\ ~HasSession(r)
    /\ Goto(r, "usage")
    /\ UnchangedAll

\* Mutant: the row is that of the defer statement.
RecordUsageDeferredEarly(r) ==
    /\ Wait(r, "usage") /\ Official
    /\ usage' = [usage EXCEPT ![r] = [status |-> "error", cost |-> 0]]
    /\ Goto(r, "done")
    /\ UnchangedStore

RecordUsage(r) ==
    /\ Wait(r, "usage") /\ Official
    /\ usage' = [usage EXCEPT ![r] =
           [status |-> IF chat[r].success THEN "ok" ELSE "error",
            cost |-> IF chat[r].success /\ HasSession(r) THEN chat[r].cost ELSE 0]]
    /\ Goto(r, "done")
    /\ UnchangedStore

SkipUsage(r) ==
    /\ Wait(r, "usage")
    /\ ~Official \/ "store" \in Faults
    /\ Goto(r, "done")
    /\ UnchangedAll

-----------------------------------------------------------------------------
InFlight(r) == chat[r].at \notin {"new", "done", "dead"}

ClientHangsUp(r) ==
    /\ "disconnect" \in Faults
    /\ InFlight(r) /\ ~chat[r].gone
    /\ chat' = [chat EXCEPT ![r].gone = TRUE]
    /\ UnchangedAll

GatewayCrashes ==
    /\ "crash" \in Faults
    /\ \E r \in Requests : InFlight(r)
    /\ chat' = [r \in Requests |->
           IF InFlight(r) THEN [chat[r] EXCEPT !.at = "dead"] ELSE chat[r]]
    /\ UnchangedAll

\* Bound: each consumer pays in once.
Deposit(c) ==
    /\ ledger[c] = <<>>
    /\ \E amount \in Amounts : Store!Credit(c, amount)
    /\ UNCHANGED <<chat, usage>>

\* What the gateway does on its own, or gives up on after a timeout.
GatewayStep(r) ==
    \/ RejectCaller(r) \/ AcceptCaller(r)
    \/ ReserveApproved(r) \/ ReserveDeclined(r) \/ ReserveFails(r)
    \/ PaymentAccepted(r) \/ PaymentDemanded(r)
    \/ TryProvider(r) \/ GiveUpOnProviders(r)
    \/ LocalFails(r) \/ LocalAnswers(r) \/ LocalStarts(r)
    \/ StreamEnds(r, "localStreaming") \/ StreamBreaks(r, "localStreaming")
    \/ SettleHold(r) \/ SettleFails(r) \/ NothingToSettle(r)
    \/ RecordUsage(r) \/ SkipUsage(r)
\* What the other end of a provider's connection does.
ProviderStep(r) ==
    \/ ProviderFails(r) \/ ProviderDemandsPayment(r) \/ ProviderAnswers(r)
    \/ ProviderStarts(r) \/ StreamEnds(r, "streaming") \/ StreamBreaks(r, "streaming")

Next ==
    \/ \E r \in Requests : Arrive(r) \/ GatewayStep(r) \/ ProviderStep(r) \/ ClientHangsUp(r)
    \/ GatewayCrashes
    \/ \E c \in Consumers : Deposit(c)

Spec == Init /\ [][Next]_vars

(***************************************************************************)
(* A handler that can go on goes on.  The store, the facilitator and the   *)
(* local backend are called with a deadline, and so is the wait for the    *)
(* first token of a provider's stream; nothing bounds the wait for a unary *)
(* answer or for a later chunk, because a read of a libp2p stream does not *)
(* watch the context the stream was opened with.  FairSpec assumes         *)
(* providers that do not stall, StallSpec does not.                        *)
(***************************************************************************)
FirstTokenTimeout(r) == r \in Streams /\ ProviderFails(r)
GatewayFairness ==
    \A r \in Requests : WF_vars(GatewayStep(r)) /\ WF_vars(FirstTokenTimeout(r))
ProviderFairness == \A r \in Requests : WF_vars(ProviderStep(r))

StallSpec == Spec /\ GatewayFairness
FairSpec == Spec /\ GatewayFairness /\ ProviderFairness

-----------------------------------------------------------------------------
(***************************************************************************)
(* Prepaid money is only taken for an answer: a charge means that a        *)
(* provider ran, the answer went out whole, and the charge is neither more *)
(* than the answer cost nor more than the hold.                            *)
(***************************************************************************)
ChargedOnlyForAnswers ==
    \A r \in Requests :
        reservations[r] # NoRow /\ reservations[r].charged > 0 =>
            /\ chat[r].success /\ chat[r].sent = "answer" /\ chat[r].runs > 0
            /\ reservations[r].charged <= Least(chat[r].cost, HoldFor[r])

(***************************************************************************)
(* No provider works for nothing: an inference only runs for a request     *)
(* whose own consumer has the estimate on hold, or whose x402 payment was  *)
(* settled where chat has a paywall, and the hold is still there while the *)
(* request is under way.                                                   *)
(***************************************************************************)
Working(r) ==
    chat[r].at \in {"route", "remote", "streaming", "local", "localStreaming", "settle"}

NoUncoveredRuns ==
    \A r \in Requests :
        /\ chat[r].runs > 0 =>
               IF HasSession(r)
               THEN /\ reservations[r] # NoRow
                    /\ reservations[r].consumer = Owner[r]
                    /\ reservations[r].reserved = HoldFor[r]
               ELSE ~Official /\ (Paywall => chat[r].paid)
        /\ Working(r) /\ HasSession(r) =>
               reservations[r] # NoRow /\ reservations[r].status = "reserved"

(***************************************************************************)
(* Whoever got a whole answer and was still there when it was settled has  *)
(* paid its cost, up to the hold, as long as the store and the gateway     *)
(* stayed up.                                                              *)
(***************************************************************************)
PaidInFull ==
    \A r \in Requests :
        chat[r].at \in {"usage", "done"} /\ chat[r].success /\ HasSession(r)
          /\ ~chat[r].gone /\ "store" \notin Faults =>
            reservations[r].charged = Least(chat[r].cost, HoldFor[r])

(***************************************************************************)
(* The usage row of a request never shows a smaller cost than was charged, *)
(* and that of a request that was charged says that it worked.             *)
(***************************************************************************)
UsageNeverUnderstates ==
    \A r \in Requests : usage[r] # NoRow /\ reservations[r] # NoRow =>
        /\ reservations[r].charged <= usage[r].cost
        /\ reservations[r].charged > 0 => usage[r].status = "ok"

(***************************************************************************)
(* One call cannot be multiplied without bound: every provider tried runs  *)
(* it at most twice, and the local backend once more.                      *)
(***************************************************************************)
WorkIsBounded ==
    \A r \in Requests :
        /\ chat[r].tried <= MaxRemoteRetries + 1
        /\ chat[r].runs <= 2 * chat[r].tried + 1

(***************************************************************************)
(* The client gets one reply: once it is complete nothing is added, and    *)
(* after the first byte of a stream nobody else is asked to run it.        *)
(***************************************************************************)
OneReply ==
    [][\A r \in Requests :
           /\ chat[r].sent \in {"answer", "payment", "error"} =>
                  chat'[r].sent = chat[r].sent /\ chat'[r].runs = chat[r].runs
           /\ chat[r].sent = "partial" =>
                  chat'[r].sent \in {"partial", "answer"} /\ chat'[r].runs = chat[r].runs]_vars

(***************************************************************************)
(* Every hold is settled in the end ("finalizePrepaidReservation settles a *)
(* prepaid hold").                                                         *)
(***************************************************************************)
HoldsAreSettled ==
    \A r \in Requests :
        reservations[r] # NoRow ~> reservations[r] # NoRow /\ reservations[r].status # "reserved"

(***************************************************************************)
(* As long as the store answers, a hold is only left over when its client  *)
(* hung up before the settlement or the gateway died: whatever providers,  *)
(* failover and the local backend do, any other hold is settled.           *)
(***************************************************************************)
OnlyAbandonedHoldsStay ==
    \A r \in Requests :
        reservations[r] # NoRow ~>
            \/ reservations[r] # NoRow /\ reservations[r].status # "reserved"
            \/ chat[r].gone \/ chat[r].at = "dead"

(***************************************************************************)
(* Every request that arrives comes to an end (total_request_sec).         *)
(***************************************************************************)
EveryRequestEnds == \A r \in Requests : InFlight(r) ~> ~InFlight(r)

=============================================================================

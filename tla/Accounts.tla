------------------------------ MODULE Accounts ------------------------------
(***************************************************************************)
(* The accounts of the control API: keys that are created, revoked and     *)
(* rotated, x402 topups that pay in and issue a first key, and deposits    *)
(* confirmed by the operator.  A call is one handler, with the paying      *)
(* client in front of it for a topup; between two store calls of one       *)
(* handler any other may run.  Each store call is one transaction on       *)
(* "consumers" and "consumer_api_keys" or on the prepaid tables, and is    *)
(* atomic here: PrepaidStore has the prepaid ones statement by statement,  *)
(* and the two of the key tables each write only rows they have locked.    *)
(***************************************************************************)
EXTENDS Integers, Sequences

CONSTANTS
    Calls,          \* the calls of the control API
    Trusting,       \* those that reach a gateway with no facilitator, the default
    Consumers,
    Keys,           \* the keys generateAPIKey may come up with
    Payments,       \* x402 authorizations, by their headers' fingerprints
    Deposits,       \* transaction hashes of on-chain deposits
    PaymentOf,      \* who pays how much with a payment or a deposit
    MaxAttempts,    \* requests that DoWithPayment sends for one command
    Faults,         \* what may go wrong
    NoKey, NoRow

ASSUME TrustingAssumption == Trusting \subseteq Calls
ASSUME AttemptsAssumption == MaxAttempts \in Nat
ASSUME FaultsAssumption == Faults \subseteq {"store", "facilitator", "crash"}
ASSUME PaymentAssumption ==
    PaymentOf \in [Payments \union Deposits -> [payer : Consumers, amount : Nat \ {0}]]
ASSUME NoKeyAssumption == NoKey \notin Keys
ASSUME ReferenceAssumption == NoRow \notin Payments   \* as in PrepaidLedger
ASSUME NoRowAssumption ==
    /\ NoRow \notin Int /\ NoRow \notin Consumers /\ NoRow \notin Keys /\ NoRow # NoKey
    /\ NoRow \notin [consumer : Consumers, status : {"active", "revoked"}]
    /\ NoRow \notin [consumer : Consumers, reserved : Nat, charged : Nat,
                    status : {"reserved", "finalized", "released"}]

VARIABLES
    balances, ledger, topups,   \* the prepaid tables
    accounts,       \* consumers: consumer -> api_key_hash, NoKey for NULL, or NoRow
    keys,           \* consumer_api_keys: key -> its row or NoRow
    calls,          \* call -> its handler
    signed,         \* the payments clients have sent, signed or said to be
    settled         \* the payments the facilitator has settled on chain

prepaidVars == <<balances, ledger, topups>>
tableVars == <<balances, ledger, topups, accounts, keys>>
vars == <<balances, ledger, topups, accounts, keys, calls, signed, settled>>

\* No chat request runs here, so there are no reservations.
Store == INSTANCE PrepaidLedger WITH
    Requests <- {}, Fingerprints <- Payments, Charges <- {},
    PaymentOf <- [f \in Payments |-> PaymentOf[f]],
    Amounts <- {PaymentOf[d].amount : d \in Deposits},
    reservations <- [r \in {} |-> NoRow]

KeyRow == [consumer : Consumers, status : {"active", "revoked"}]
Call ==
    [op : {"none", "create", "revoke", "rotate", "selfRotate", "topup", "deposit"},
     at : {"idle", "authorize", "sign", "settle", "record", "lookup", "revoke", "upsert",
           "credit", "done", "dead"},
     consumer : Consumers \union {NoRow},
     key : Keys \union {NoKey},         \* the old key
     issued : Keys \union {NoKey},      \* the new key in the answer
     payment : Payments \union Deposits \union {NoRow},
     own : SUBSET Payments,             \* the payments this command has sent
     attempts : Nat,
     reply : {"none", "ok", "payment", "error"}]
Idle == [op |-> "none", at |-> "idle", consumer |-> NoRow, key |-> NoKey, issued |-> NoKey,
         payment |-> NoRow, own |-> {}, attempts |-> 0, reply |-> "none"]

(***************************************************************************)
(* The tables have their shape and every call is one of the six.           *)
(***************************************************************************)
TypeOK ==
    /\ Store!TypeOK
    /\ accounts \in [Consumers -> Keys \union {NoKey, NoRow}]
    /\ keys \in [Keys -> KeyRow \union {NoRow}]
    /\ calls \in [Calls -> Call]
    /\ signed \in SUBSET Payments /\ settled \in SUBSET Payments

Init ==
    /\ Store!Init
    /\ accounts = [c \in Consumers |-> NoRow]
    /\ keys = [k \in Keys |-> NoRow]
    /\ calls = [x \in Calls |-> Idle]
    /\ signed = {} /\ settled = {}

-----------------------------------------------------------------------------
Wait(x, place) == calls[x].at = place
Goto(x, place) == calls' = [calls EXCEPT ![x].at = place]
Finish(x, reply) == calls' = [calls EXCEPT ![x].at = "done", ![x].reply = reply]
HandOut(x, k) ==
    calls' = [calls EXCEPT ![x].at = "done", ![x].reply = "ok", ![x].issued = k]
Begin(x, call) == calls[x] = Idle /\ calls' = [calls EXCEPT ![x] = call]
UnchangedTables == UNCHANGED tableVars
UnchangedPayments == UNCHANGED <<signed, settled>>

BeginCreate(x) ==
    /\ \E c \in Consumers :
           Begin(x, [Idle EXCEPT !.op = "create", !.at = "upsert", !.consumer = c])
    /\ UnchangedTables /\ UnchangedPayments

\* The operator revokes or rotates any key, of any consumer.
BeginRevoke(x) ==
    /\ \E c \in Consumers, k \in Keys, op \in {"revoke", "rotate"} :
           Begin(x, [Idle EXCEPT !.op = op, !.at = "revoke", !.consumer = c, !.key = k])
    /\ UnchangedTables /\ UnchangedPayments

BeginSelfRotate(x) ==
    /\ \E k \in Keys :
           Begin(x, [Idle EXCEPT !.op = "selfRotate", !.at = "authorize", !.key = k])
    /\ UnchangedTables /\ UnchangedPayments

BeginDeposit(x) ==
    /\ \E d \in Deposits :
           Begin(x, [Idle EXCEPT !.op = "deposit", !.at = "credit",
                                 !.consumer = PaymentOf[d].payer, !.payment = d])
    /\ UnchangedTables /\ UnchangedPayments

\* The first request has no payment and is answered with a demand.
BeginTopup(x) ==
    /\ \E c \in Consumers :
           Begin(x, [Idle EXCEPT !.op = "topup", !.at = "sign", !.consumer = c,
                                 !.attempts = 1])
    /\ UnchangedTables /\ UnchangedPayments

\* A client that got no answer sends its payment again.
ResendTopup(x) ==
    /\ \E f \in signed :
           Begin(x, [Idle EXCEPT !.op = "topup", !.at = "settle", !.attempts = 1,
                                 !.consumer = PaymentOf[f].payer, !.payment = f, !.own = {f}])
    /\ UnchangedTables /\ UnchangedPayments

-----------------------------------------------------------------------------
\* Every demand is answered with a new signature.
SignPayment(x) ==
    /\ Wait(x, "sign") /\ calls[x].attempts < MaxAttempts
    /\ \E f \in Payments \ signed :
           /\ PaymentOf[f].payer = calls[x].consumer
           /\ signed' = signed \union {f}
           /\ calls' = [calls EXCEPT ![x].at = "settle", ![x].payment = f,
                                     ![x].own = @ \union {f}, ![x].attempts = @ + 1]
    /\ UNCHANGED settled /\ UnchangedTables

GiveUpPaying(x) ==
    /\ Wait(x, "sign") /\ calls[x].attempts >= MaxAttempts
    /\ Finish(x, "payment")
    /\ UnchangedTables /\ UnchangedPayments

\* A facilitator may answer a settled payment again as it did before.
PaymentSettles(x) ==
    /\ Wait(x, "settle") /\ x \notin Trusting
    /\ settled' = settled \union {calls[x].payment}
    /\ Goto(x, "record")
    /\ UNCHANGED signed /\ UnchangedTables

\* With no facilitator to ask, a header that accepts the demand is a success: neither
\* its signature nor the wallet it names is checked, and nothing is settled.
PaymentTrusted(x) ==
    /\ Wait(x, "settle") /\ x \in Trusting
    /\ Goto(x, "record")
    /\ UnchangedTables /\ UnchangedPayments

\* Mutant: a payment that does not settle is recorded all the same.
PaymentRefusedRecorded(x) ==
    /\ Wait(x, "settle")
    /\ Goto(x, "record")
    /\ UnchangedTables /\ UnchangedPayments

\* Not what was demanded, not settled, or no answer; or it settled and the answer was lost.
PaymentRefused(x) ==
    /\ Wait(x, "settle")
    /\ Goto(x, "sign")
    /\ \/ UNCHANGED settled
       \/ /\ x \notin Trusting /\ "facilitator" \in Faults
          /\ settled' = settled \union {calls[x].payment}
    /\ UNCHANGED signed /\ UnchangedTables

\* RecordX402PrepaidTopup, with the consumer's row.
RecordsTopup(x) ==
    LET c == calls[x].consumer
        f == calls[x].payment
    IN  /\ accounts' = [accounts EXCEPT ![c] = IF @ = NoRow THEN NoKey ELSE @]
        /\ IF f \in topups THEN UNCHANGED prepaidVars ELSE Store!Topup(f)
        /\ UNCHANGED keys

RecordTopup(x) ==
    /\ Wait(x, "record")
    /\ RecordsTopup(x)
    /\ Goto(x, "lookup")
    /\ UnchangedPayments

LookupKey(x) ==
    /\ Wait(x, "lookup")
    /\ IF accounts[calls[x].consumer] \in Keys THEN Finish(x, "ok") ELSE Goto(x, "upsert")
    /\ UnchangedTables /\ UnchangedPayments

\* requireStrictAPIKey: both tables must agree that the key is in use.
Works(k) ==
    keys[k] # NoRow /\ keys[k].status = "active" /\ accounts[keys[k].consumer] = k

Authorize(x) ==
    /\ Wait(x, "authorize")
    /\ IF Works(calls[x].key)
       THEN calls' = [calls EXCEPT ![x].at = "revoke",
                                   ![x].consumer = keys[calls[x].key].consumer]
       ELSE Finish(x, "error")
    /\ UnchangedTables /\ UnchangedPayments

\* Mutants: the pointer is not cleared; the status is not looked at.
RevokesKeyOnly(x) ==
    LET k == calls[x].key
    IN  /\ keys' = [keys EXCEPT ![k].status = "revoked"]
        /\ UNCHANGED accounts /\ UNCHANGED prepaidVars
IsActiveOrNot(x) ==
    keys[calls[x].key] # NoRow /\ keys[calls[x].key].consumer = calls[x].consumer

IsActive(x) ==
    keys[calls[x].key] = [consumer |-> calls[x].consumer, status |-> "active"]
RevokesKey(x) ==
    LET c == calls[x].consumer
        k == calls[x].key
    IN  /\ keys' = [keys EXCEPT ![k].status = "revoked"]
        /\ accounts' = [accounts EXCEPT ![c] = IF @ = k THEN NoKey ELSE @]
        /\ UNCHANGED prepaidVars

RevokeKey(x) ==
    /\ Wait(x, "revoke")
    /\ IF IsActive(x)
       THEN /\ RevokesKey(x)
            /\ IF calls[x].op = "revoke" THEN Finish(x, "ok") ELSE Goto(x, "upsert")
       ELSE Finish(x, "error") /\ UnchangedTables
    /\ UnchangedPayments

\* Mutant: a key that was handed out before comes back.
FreshOrOld(k) == TRUE

\* generateAPIKey: 24 random bytes do not repeat.
Fresh(k) == keys[k] = NoRow
\* UpsertConsumerAPIKey: the old key stays in the history as it is.
UpsertsKey(x, k) ==
    /\ accounts' = [accounts EXCEPT ![calls[x].consumer] = k]
    /\ keys' = [keys EXCEPT ![k] = [consumer |-> calls[x].consumer, status |-> "active"]]
    /\ UNCHANGED prepaidVars

UpsertKey(x) ==
    /\ Wait(x, "upsert")
    /\ \E k \in Keys : Fresh(k) /\ UpsertsKey(x, k) /\ HandOut(x, k)
    /\ UnchangedPayments

\* CreditConsumerBalance: the foreign key wants the consumer's row.
HasAccount(x) == accounts[calls[x].consumer] # NoRow
CreditsDeposit(x) ==
    /\ Store!Credit(calls[x].consumer, PaymentOf[calls[x].payment].amount)
    /\ UNCHANGED <<accounts, keys>>

CreditDeposit(x) ==
    /\ Wait(x, "credit")
    /\ IF HasAccount(x)
       THEN CreditsDeposit(x) /\ Finish(x, "ok")
       ELSE Finish(x, "error") /\ UnchangedTables
    /\ UnchangedPayments

-----------------------------------------------------------------------------
\* Mutant: a topup whose record fails is answered with a new demand.
StoreFailsDemanding(x) ==
    /\ "store" \in Faults
    /\ Wait(x, "record")
    /\ Goto(x, "sign")
    /\ UnchangedTables \/ RecordsTopup(x)
    /\ UnchangedPayments

\* A store call returns an error; its transaction may have committed all the same.
StoreFails(x) ==
    /\ "store" \in Faults
    /\ calls[x].at \in {"authorize", "record", "lookup", "revoke", "upsert", "credit"}
    /\ Finish(x, "error")
    /\ \/ UnchangedTables
       \/ Wait(x, "record") /\ RecordsTopup(x)
       \/ Wait(x, "revoke") /\ IsActive(x) /\ RevokesKey(x)
       \/ Wait(x, "upsert") /\ \E k \in Keys : Fresh(k) /\ UpsertsKey(x, k)
       \/ Wait(x, "credit") /\ HasAccount(x) /\ CreditsDeposit(x)
    /\ UnchangedPayments

\* The gateway dies, or the client does and its handler ends on a cancelled context.
CallDies(x) ==
    /\ "crash" \in Faults
    /\ calls[x].at \notin {"idle", "done", "dead"}
    /\ Goto(x, "dead")
    /\ UnchangedTables /\ UnchangedPayments

BeginCall(x) ==
    \/ BeginCreate(x) \/ BeginRevoke(x) \/ BeginSelfRotate(x)
    \/ BeginDeposit(x) \/ BeginTopup(x) \/ ResendTopup(x)
Handle(x) ==
    \/ SignPayment(x) \/ GiveUpPaying(x)
    \/ PaymentSettles(x) \/ PaymentTrusted(x) \/ PaymentRefused(x)
    \/ RecordTopup(x) \/ LookupKey(x) \/ Authorize(x) \/ RevokeKey(x) \/ UpsertKey(x)
    \/ CreditDeposit(x)

Next == \E x \in Calls : BeginCall(x) \/ Handle(x) \/ StoreFails(x) \/ CallDies(x)

Spec == Init /\ [][Next]_vars

-----------------------------------------------------------------------------
(***************************************************************************)
(* The two key tables never contradict each other: the key a consumer's    *)
(* row points at is an active key of that consumer, so a revoked key is    *)
(* never the current one, whatever revokes, rotations, topups and failures *)
(* interleave.                                                             *)
(***************************************************************************)
PointersAreActive ==
    \A c \in Consumers : accounts[c] \in Keys =>
        keys[accounts[c]] = [consumer |-> c, status |-> "active"]

(***************************************************************************)
(* A revoked key never comes back, and no key changes hands.               *)
(***************************************************************************)
RevokedForever ==
    [][\A k \in Keys : keys[k] # NoRow =>
           /\ keys'[k] # NoRow /\ keys'[k].consumer = keys[k].consumer
           /\ keys[k].status = "revoked" => keys'[k] = keys[k]]_vars

(***************************************************************************)
(* Two rotations of one key, by the operator or with the key itself, give  *)
(* one new key: the other call finds it revoked.                           *)
(***************************************************************************)
Replaces(x) ==
    calls[x].op \in {"rotate", "selfRotate"}
      /\ (calls[x].at = "upsert" \/ calls[x].reply = "ok")

OneSuccessor ==
    \A x, y \in Calls :
        Replaces(x) /\ Replaces(y) /\ calls[x].key = calls[y].key => x = y

(***************************************************************************)
(* Balance and key only come for money, as far as a facilitator is asked:  *)
(* a recorded topup was settled, unless its header also went to a gateway  *)
(* that has none and takes it on trust, and a topup hands a key out only   *)
(* when its payment is recorded.                                           *)
(***************************************************************************)
Accepted == settled \union UNION {calls[x].own : x \in Trusting}

CreditedOnlyIfSettled ==
    /\ topups \subseteq Accepted
    /\ \A x \in Calls : calls[x].op = "topup" /\ calls[x].reply = "ok" =>
           calls[x].payment \in topups

(***************************************************************************)
(* The client signs a new payment for every demand, so a demand must mean  *)
(* that the last payment was not credited: unless somebody else sends one  *)
(* of its payments too, at most one payment of a command is credited, and  *)
(* none while it is still asked for another.                               *)
(***************************************************************************)
NotShared(x) == \A y \in Calls \ {x} : calls[x].own \intersect calls[y].own = {}

OneCreditPerCommand ==
    \A x \in Calls : NotShared(x) =>
        /\ \A f, g \in calls[x].own \intersect topups : f = g
        /\ calls[x].at \in {"sign", "settle"} \/ calls[x].reply = "payment" =>
               calls[x].own \intersect topups = {}

(***************************************************************************)
(* A deposit is credited once ("prepaid on-chain deposit idempotency and   *)
(* audit table", with tx_hash as its key): what a consumer was credited    *)
(* is no more than its accepted payments and its deposits, each once.      *)
(***************************************************************************)
Confirmed == {d \in Deposits : \E x \in Calls : calls[x].payment = d}
Worth(c) ==
    Store!SumFunction([p \in {p \in Accepted \union Confirmed : PaymentOf[p].payer = c} |->
                           PaymentOf[p].amount])
DepositCreditedOnce == \A c \in Consumers : Store!PaidIn(c) <= Worth(c)

=============================================================================

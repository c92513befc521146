---------------------------- MODULE PrepaidStore ----------------------------
(***************************************************************************)
(* The prepaid operations of PostgresStore as the SQL transactions they    *)
(* are: one step per statement that can wait, see other transactions or    *)
(* fail, in the order of the code, under READ COMMITTED.  A transaction    *)
(* keeps its writes to itself until it commits, and its row locks until it *)
(* ends.  A worker is one call in one gateway process; several gateways    *)
(* share the database.                                                     *)
(*                                                                         *)
(* A lock stands for a row lock (SELECT ... FOR UPDATE, UPDATE) or for a   *)
(* key another transaction has inserted and not yet committed: both make a *)
(* conflicting statement wait.  Foreign keys only take FOR KEY SHARE on    *)
(* "consumers", which none of these statements conflicts with.             *)
(***************************************************************************)
EXTENDS Integers, Sequences

CONSTANTS
    Workers,        \* the calls that may run at the same time
    Consumers, Requests, Fingerprints, Amounts, Charges, PaymentOf, NoRow, MaxEntries,
    NoWorker        \* the owner of a free lock

ASSUME NoWorkerAssumption == NoWorker \notin Workers
ASSUME AmountsAssumption == Amounts \subseteq Nat /\ Charges \subseteq Int
ASSUME PaymentAssumption ==
    PaymentOf \in [Fingerprints -> [payer : Consumers, amount : Nat \ {0}]]
ASSUME ReferenceAssumption == NoRow \notin Fingerprints   \* as in PrepaidLedger
ASSUME NoRowAssumption == NoRow \notin Int /\ NoRow \notin [consumer : Consumers,
    reserved : Nat, charged : Nat, status : {"reserved", "finalized", "released"}]

VARIABLES
    balances, ledger, reservations, topups,   \* the committed tables
    lock,           \* row -> the worker whose transaction holds it
    txn             \* worker -> its transaction, Idle when it has none

storeVars == <<balances, ledger, reservations, topups, lock, txn>>

Promise == INSTANCE PrepaidLedger

BalanceRow(c) == <<"consumer_balances", c>>
ReservationRow(r) == <<"prepaid_reservations", r>>
TopupRow(f) == <<"x402_prepaid_topups", f>>
ConsumerRow(c) == <<"consumers", c>>
Rows == {BalanceRow(c) : c \in Consumers} \union {ReservationRow(r) : r \in Requests}
          \union {TopupRow(f) : f \in Fingerprints} \union {ConsumerRow(c) : c \in Consumers}

Places == {"idle", "lookup", "upsertConsumer", "insertTopup", "lockBalance",
           "insertReservation", "commit"}
Transaction ==
    [op : {"none", "reserve", "finalize", "credit", "topup"},
     at : Places,                                       \* the next statement
     consumer : Consumers \union {NoRow},
     key : Requests \union Fingerprints \union {NoRow},
     amount : Int, success : BOOLEAN,
     row : Promise!Reservation \union {NoRow},          \* the reservation it read
     balance : Int]                                     \* the balance it read

NewCall(op, first, c, key, amount, success) ==
    [op |-> op, at |-> first, consumer |-> c, key |-> key, amount |-> amount,
     success |-> success, row |-> NoRow, balance |-> 0]
Idle == NewCall("none", "idle", NoRow, NoRow, 0, FALSE)

(***************************************************************************)
(* The tables are those of PrepaidLedger, every lock has at most one       *)
(* owner, and a transaction is a call of one of the four operations.       *)
(***************************************************************************)
TypeOK ==
    /\ Promise!TypeOK
    /\ lock \in [Rows -> Workers \union {NoWorker}]
    /\ txn \in [Workers -> Transaction]

Init ==
    /\ Promise!Init
    /\ lock = [row \in Rows |-> NoWorker]
    /\ txn = [w \in Workers |-> Idle]

-----------------------------------------------------------------------------
Free(row) == lock[row] = NoWorker
Take(w, row) == lock' = [lock EXCEPT ![row] = w]
GoTo(w, place) == txn' = [txn EXCEPT ![w].at = place]
UnchangedTables == UNCHANGED <<balances, ledger, reservations, topups>>

\* COMMIT or ROLLBACK: every lock goes, and with it the private writes.
End(w) ==
    /\ lock' = [row \in Rows |-> IF lock[row] = w THEN NoWorker ELSE lock[row]]
    /\ txn' = [txn EXCEPT ![w] = Idle]

Begin(w, op, first, c, key, amount, success) ==
    /\ txn[w] = Idle
    /\ txn' = [txn EXCEPT ![w] = NewCall(op, first, c, key, amount, success)]
    /\ UNCHANGED lock /\ UnchangedTables

BeginReserve(w) ==
    \E c \in Consumers, r \in Requests, amount \in Amounts :
        amount > 0 /\ Begin(w, "reserve", "lookup", c, r, amount, FALSE)

BeginFinalize(w) ==
    \E c \in Consumers, r \in Requests, actual \in Charges, success \in BOOLEAN :
        Begin(w, "finalize", "lookup", c, r, actual, success)

\* Bound: no operator deposit is started on a ledger of MaxEntries entries.
BeginCredit(w) ==
    \E c \in Consumers, amount \in Amounts :
        /\ amount > 0
        /\ Len(ledger[c]) < MaxEntries
        /\ Begin(w, "credit", "lockBalance", c, NoRow, amount, FALSE)

BeginTopup(w) ==
    \E f \in Fingerprints :
        Begin(w, "topup", "upsertConsumer", PaymentOf[f].payer, f, PaymentOf[f].amount, FALSE)

(***************************************************************************)
(* SELECT ... FROM prepaid_reservations WHERE request_id AND consumer_id   *)
(* FOR UPDATE.  A row that is not committed, or that is another            *)
(* consumer's, is not found and not waited for.                            *)
(***************************************************************************)
Visible(t) == reservations[t.key] # NoRow /\ reservations[t.key].consumer = t.consumer

LookupFound(w) ==
    LET t == txn[w] IN
    /\ t.at = "lookup"
    /\ Visible(t)
    /\ Free(ReservationRow(t.key))
    /\ Take(w, ReservationRow(t.key))
    /\ txn' = [txn EXCEPT ![w].at = "lockBalance", ![w].row = reservations[t.key]]
    /\ UnchangedTables

LookupMissed(w) ==
    LET t == txn[w] IN
    /\ t.at = "lookup"
    /\ ~Visible(t)
    /\ IF t.op = "reserve"
       THEN GoTo(w, "lockBalance") /\ UNCHANGED lock
       ELSE End(w)
    /\ UnchangedTables

\* INSERT INTO consumers ... ON CONFLICT DO UPDATE locks the consumer's row.
UpsertConsumer(w) ==
    LET t == txn[w] IN
    /\ t.at = "upsertConsumer"
    /\ Free(ConsumerRow(t.consumer))
    /\ Take(w, ConsumerRow(t.consumer))
    /\ GoTo(w, "insertTopup")
    /\ UnchangedTables

\* INSERT INTO x402_prepaid_topups ... ON CONFLICT DO NOTHING.
InsertTopup(w) ==
    LET t == txn[w] IN
    /\ t.at = "insertTopup"
    /\ IF t.key \in topups
       THEN UNCHANGED lock
       ELSE Free(TopupRow(t.key)) /\ Take(w, TopupRow(t.key))
    /\ GoTo(w, "lockBalance")
    /\ UnchangedTables

(***************************************************************************)
(* queryCurrentBalanceForUpdate, with the INSERT ... ON CONFLICT DO        *)
(* NOTHING that goes before it on the paths that write a balance.  A       *)
(* missing row and a reserve that the balance does not cover roll back.    *)
(***************************************************************************)
IsNewReserve(t) == t.op = "reserve" /\ t.row = NoRow
IsNewTopup(w) == txn[w].op = "topup" /\ lock[TopupRow(txn[w].key)] = w
EnsuresRow(w) == IsNewReserve(txn[w]) \/ IsNewTopup(w) \/ txn[w].op = "credit"

\* Mutant: a balance read without FOR UPDATE.
LockBalanceUnlocked(w) ==
    LET t == txn[w]
        balance == Promise!BalanceOf(t.consumer)
    IN
    /\ t.at = "lockBalance"
    /\ Free(BalanceRow(t.consumer))
    /\ IF \/ ~EnsuresRow(w) /\ balances[t.consumer] = NoRow
          \/ IsNewReserve(t) /\ balance < t.amount
       THEN End(w)
       ELSE /\ UNCHANGED lock
            /\ txn' = [txn EXCEPT
                 ![w].balance = balance,
                 ![w].at = IF IsNewReserve(t) THEN "insertReservation" ELSE "commit"]
    /\ UnchangedTables

LockBalance(w) ==
    LET t == txn[w]
        balance == Promise!BalanceOf(t.consumer)
    IN
    /\ t.at = "lockBalance"
    /\ Free(BalanceRow(t.consumer))
    /\ IF \/ ~EnsuresRow(w) /\ balances[t.consumer] = NoRow
          \/ IsNewReserve(t) /\ balance < t.amount
       THEN End(w)
       ELSE /\ Take(w, BalanceRow(t.consumer))
            /\ txn' = [txn EXCEPT
                 ![w].balance = balance,
                 ![w].at = IF IsNewReserve(t) THEN "insertReservation" ELSE "commit"]
    /\ UnchangedTables

\* INSERT INTO prepaid_reservations: request_id is the primary key.
InsertReservation(w) ==
    LET t == txn[w] IN
    /\ t.at = "insertReservation"
    /\ IF reservations[t.key] # NoRow
       THEN End(w)
       ELSE /\ Free(ReservationRow(t.key))
            /\ Take(w, ReservationRow(t.key))
            /\ GoTo(w, "commit")
    /\ UnchangedTables

\* Mutant: a call returns with its transaction still open.
RollbackForgotten(w) ==
    /\ txn[w] # Idle
    /\ txn' = [txn EXCEPT ![w] = Idle]
    /\ UNCHANGED lock /\ UnchangedTables

\* A failed statement, a cancelled context, a lost connection, a crashed gateway.
Rollback(w) ==
    /\ txn[w] # Idle
    /\ End(w)
    /\ UnchangedTables

-----------------------------------------------------------------------------
\* The writes of a transaction become visible at its commit.
CommitReserve(w) ==
    LET t == txn[w]
        after == t.balance - t.amount
    IN
    /\ t.at = "commit" /\ IsNewReserve(t)
    /\ Promise!Post(t.consumer, after,
                    <<Promise!NewEntry("reserve", t.key, -t.amount, after)>>)
    /\ reservations' = [reservations EXCEPT ![t.key] =
           [consumer |-> t.consumer, reserved |-> t.amount, charged |-> 0,
            status |-> "reserved"]]
    /\ End(w)
    /\ UNCHANGED topups

\* Mutant: the status of the row that was read is not looked at.
CommitFinalizeAgain(w) ==
    LET t == txn[w]
        charge == Promise!ChargeFor(t.amount, t.success, t.row.reserved)
    IN
    /\ t.at = "commit" /\ t.op = "finalize"
    /\ Promise!Post(t.consumer, t.balance + t.row.reserved - charge,
           Promise!SettlementEntries(t.key, t.row.reserved, charge, t.balance))
    /\ reservations' = [reservations EXCEPT ![t.key] = Promise!Settled(t.row, charge)]
    /\ End(w)
    /\ UNCHANGED topups

CommitFinalize(w) ==
    LET t == txn[w]
        charge == Promise!ChargeFor(t.amount, t.success, t.row.reserved)
    IN
    /\ t.at = "commit" /\ t.op = "finalize" /\ t.row.status = "reserved"
    /\ Promise!Post(t.consumer, t.balance + t.row.reserved - charge,
           Promise!SettlementEntries(t.key, t.row.reserved, charge, t.balance))
    /\ reservations' = [reservations EXCEPT ![t.key] = Promise!Settled(t.row, charge)]
    /\ End(w)
    /\ UNCHANGED topups

CommitCredit(w) ==
    LET t == txn[w]
        after == t.balance + t.amount
    IN
    /\ t.at = "commit" /\ t.op = "credit"
    /\ Promise!Post(t.consumer, after, <<Promise!NewEntry("credit", NoRow, t.amount, after)>>)
    /\ End(w)
    /\ UNCHANGED <<reservations, topups>>

CommitTopup(w) ==
    LET t == txn[w]
        after == t.balance + t.amount
    IN
    /\ t.at = "commit" /\ IsNewTopup(w)
    /\ Promise!Post(t.consumer, after, <<Promise!NewEntry("credit", t.key, t.amount, after)>>)
    /\ topups' = topups \union {t.key}
    /\ End(w)
    /\ UNCHANGED reservations

\* A retried reserve or topup and a repeated finalize read, commit and write nothing.
CommitRepeat(w) ==
    LET t == txn[w] IN
    /\ t.at = "commit"
    /\ \/ t.op = "reserve" /\ t.row # NoRow
       \/ t.op = "finalize" /\ t.row.status # "reserved"
       \/ t.op = "topup" /\ ~IsNewTopup(w)
    /\ End(w)
    /\ UnchangedTables

Statement(w) ==
    LookupFound(w) \/ LookupMissed(w) \/ UpsertConsumer(w) \/ InsertTopup(w)
      \/ LockBalance(w) \/ InsertReservation(w)
Commit(w) ==
    CommitReserve(w) \/ CommitFinalize(w) \/ CommitCredit(w) \/ CommitTopup(w)
      \/ CommitRepeat(w)
BeginCall(w) == BeginReserve(w) \/ BeginFinalize(w) \/ BeginCredit(w) \/ BeginTopup(w)

Next == \E w \in Workers : BeginCall(w) \/ Statement(w) \/ Commit(w) \/ Rollback(w)

Spec == Init /\ [][Next]_storeVars

(***************************************************************************)
(* A call that runs keeps running its statements.  PostgreSQL queues the   *)
(* waiters of a row, so a statement whose row is free again and again gets *)
(* it: strong fairness.  Nobody has to call, and nothing has to fail.      *)
(***************************************************************************)
Fairness == \A w \in Workers : SF_storeVars(Statement(w)) /\ WF_storeVars(Commit(w))
FairSpec == Spec /\ Fairness

-----------------------------------------------------------------------------
(***************************************************************************)
(* Before it writes, a transaction still sees what it read: it holds the   *)
(* lock of its consumer's balance, which is the balance it read, and of    *)
(* the reservation it found; a new reservation or topup key is its own.    *)
(***************************************************************************)
HoldsBalance(w) == txn[w].at \in {"insertReservation", "commit"}

ReadsFresh(w) ==
    LET t == txn[w] IN
    /\ HoldsBalance(w) =>
           /\ lock[BalanceRow(t.consumer)] = w
           /\ t.balance = Promise!BalanceOf(t.consumer)
    /\ t.row # NoRow =>
           lock[ReservationRow(t.key)] = w /\ t.row = reservations[t.key]
    /\ t.at = "commit" /\ IsNewReserve(t) =>
           lock[ReservationRow(t.key)] = w /\ reservations[t.key] = NoRow
    /\ IsNewTopup(w) => t.key \notin topups

NoStaleRead == \A w \in Workers : ReadsFresh(w)

(***************************************************************************)
(* A transaction only ever acts for the call that began it: it carries the *)
(* call's own arguments, it gets as far as its operation goes, a new       *)
(* reserve gets past the balance only when the balance covers it, and a    *)
(* topup key is locked by the topup that inserts it.                       *)
(***************************************************************************)
CallOK(t) ==
    CASE t.op = "none" -> t = Idle
      [] t.op = "reserve" ->
             /\ t.consumer \in Consumers /\ t.key \in Requests
             /\ t.amount \in Amounts /\ t.amount > 0
             /\ t.at \in {"lookup", "lockBalance", "insertReservation", "commit"}
             /\ t.at = "lookup" => t.row = NoRow
             /\ t.at = "insertReservation" => t.row = NoRow
             /\ t.at \in {"insertReservation", "commit"} /\ t.row = NoRow =>
                    t.balance >= t.amount
      [] t.op = "finalize" ->
             /\ t.consumer \in Consumers /\ t.key \in Requests /\ t.amount \in Charges
             /\ t.at \in {"lookup", "lockBalance", "commit"}
             /\ t.at = "lookup" <=> t.row = NoRow
      [] t.op = "credit" ->
             /\ t.consumer \in Consumers
             /\ t.amount \in Amounts /\ t.amount > 0
             /\ t.at \in {"lockBalance", "commit"}
             /\ t.row = NoRow
      [] t.op = "topup" ->
             /\ t.key \in Fingerprints
             /\ t.consumer = PaymentOf[t.key].payer /\ t.amount = PaymentOf[t.key].amount
             /\ t.at \in {"upsertConsumer", "insertTopup", "lockBalance", "commit"}
             /\ t.row = NoRow

ActsFor(w) ==
    /\ CallOK(txn[w])
    /\ txn[w].row # NoRow => txn[w].row.consumer = txn[w].consumer
    /\ \A f \in Fingerprints : lock[TopupRow(f)] = w =>
           /\ txn[w].op = "topup" /\ txn[w].key = f
           /\ txn[w].at \in {"lockBalance", "commit"}

ActsForItsCall == \A w \in Workers : ActsFor(w)

(***************************************************************************)
(* No set of transactions waits only for each other: every group has one   *)
(* that no other of the group keeps from its next statement.               *)
(***************************************************************************)
NextRow(w) ==
    LET t == txn[w] IN
    CASE t.at = "lookup" /\ Visible(t) -> {ReservationRow(t.key)}
      [] t.at = "upsertConsumer" -> {ConsumerRow(t.consumer)}
      [] t.at = "insertTopup" /\ t.key \notin topups -> {TopupRow(t.key)}
      [] t.at = "lockBalance" -> {BalanceRow(t.consumer)}
      [] t.at = "insertReservation" /\ reservations[t.key] = NoRow ->
             {ReservationRow(t.key)}
      [] OTHER -> {}
WaitsFor(w, v) == \E row \in NextRow(w) : lock[row] = v

NoDeadlock ==
    \A group \in (SUBSET Workers) \ {{}} :
        \E w \in group : \A v \in group : ~WaitsFor(w, v)

(***************************************************************************)
(* The transactions keep the promise of PrepaidLedger: each takes effect   *)
(* at one instant, completely, and as if it ran alone.                     *)
(***************************************************************************)
KeepsPromise == Promise!Spec

(***************************************************************************)
(* Every call of the store comes back, however the others interleave.      *)
(***************************************************************************)
EveryCallReturns == \A w \in Workers : txn[w] # Idle ~> txn[w] = Idle

=============================================================================

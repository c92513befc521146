------------------------- MODULE PrepaidStoreProofs -------------------------
(***************************************************************************)
(* The SQL transactions of PrepaidStore implement the atomic operations of *)
(* PrepaidLedger, for any number of workers, consumers, requests and       *)
(* payment headers.                                                        *)
(*                                                                         *)
(* A step of one worker leaves every other worker's transaction as it was, *)
(* because it takes only free locks, releases only its own, and writes     *)
(* only rows it has locked.  That is the lemma Undisturbed; the rest of    *)
(* the invariant is about the worker that moves.                           *)
(***************************************************************************)
EXTENDS PrepaidStore, TLAPS

\* What is proved of the promise; its definitions are those of Promise.
Proofs == INSTANCE PrepaidLedgerProofs

IInv == TypeOK /\ ActsForItsCall /\ NoStaleRead

\* A row has one name in one table.
LEMMA RowNames ==
    /\ \A c, d : BalanceRow(c) = BalanceRow(d) => c = d
    /\ \A c, d : ReservationRow(c) = ReservationRow(d) => c = d
    /\ \A c, d : TopupRow(c) = TopupRow(d) => c = d
    /\ \A c, d : /\ BalanceRow(c) # ReservationRow(d)
                 /\ BalanceRow(c) # TopupRow(d)
                 /\ BalanceRow(c) # ConsumerRow(d)
                 /\ ReservationRow(c) # TopupRow(d)
                 /\ ReservationRow(c) # ConsumerRow(d)
                 /\ TopupRow(c) # ConsumerRow(d)
BY DEF BalanceRow, ReservationRow, TopupRow, ConsumerRow

\* Every row that is locked is one of Rows.
LEMMA RowsOfTables ==
    /\ \A c \in Consumers : BalanceRow(c) \in Rows /\ ConsumerRow(c) \in Rows
    /\ \A r \in Requests : ReservationRow(r) \in Rows
    /\ \A f \in Fingerprints : TopupRow(f) \in Rows
BY DEF Rows

(***************************************************************************)
(* What a step of another worker leaves alone for v: its transaction, its  *)
(* locks, and the rows it has locked.                                      *)
(***************************************************************************)
LeavesAlone(v) ==
    /\ txn'[v] = txn[v]
    /\ \A row \in Rows : lock'[row] = v <=> lock[row] = v
    /\ \A c \in Consumers : lock[BalanceRow(c)] = v => balances'[c] = balances[c]
    /\ \A r \in Requests :
           lock[ReservationRow(r)] = v => reservations'[r] = reservations[r]
    /\ \A f \in Fingerprints : lock[TopupRow(f)] = v => (f \in topups' <=> f \in topups)

\* The calls' arguments are consumers, requests and fingerprints.
LEMMA Arguments ==
    ASSUME TypeOK, NEW v \in Workers, ActsFor(v)
    PROVE  /\ txn[v].at # "idle" => txn[v].op # "none"
           /\ txn[v].op # "none" => txn[v].consumer \in Consumers
           /\ txn[v].op \in {"reserve", "finalize"} => txn[v].key \in Requests
           /\ txn[v].op = "topup" => txn[v].key \in Fingerprints
           /\ txn[v].row # NoRow => txn[v].op \in {"reserve", "finalize"}
           /\ HoldsBalance(v) => txn[v].op # "none"
<1> DEFINE t == txn[v]
<1>1. t \in Transaction /\ CallOK(t)
  BY DEF TypeOK, ActsFor
<1> HIDE DEF t
<1>2. /\ t.op \in {"none", "reserve", "finalize", "credit", "topup"}
      /\ t.at # "idle" => t.op # "none"
      /\ t.op # "none" => t.consumer \in Consumers
      /\ t.op \in {"reserve", "finalize"} => t.key \in Requests
      /\ t.op = "topup" => t.key \in Fingerprints
      /\ t.row # NoRow => t.op \in {"reserve", "finalize"}
  <2>1. t.op \in {"none", "reserve", "finalize", "credit", "topup"}
    BY <1>1 DEF Transaction
  <2>2. CASE t.op = "none"
    <3>1. t = Idle
      BY <1>1, <2>2 DEF CallOK
    <3> QED
      BY <3>1 DEF Idle, NewCall
  <2>3. CASE t.op = "reserve"
    BY <1>1, <2>3 DEF CallOK
  <2>4. CASE t.op = "finalize"
    BY <1>1, <2>4 DEF CallOK
  <2>5. CASE t.op = "credit"
    BY <1>1, <2>5 DEF CallOK
  <2>6. CASE t.op = "topup"
    <3>1. t.key \in Fingerprints /\ t.consumer = PaymentOf[t.key].payer /\ t.row = NoRow
      BY <1>1, <2>6 DEF CallOK
    <3> QED
      BY <2>6, <3>1, PaymentAssumption
  <2> QED
    BY <2>1, <2>2, <2>3, <2>4, <2>5, <2>6
<1> QED
  BY <1>2 DEF t, HoldsBalance

\* A worker that is left alone keeps what it knows.
LEMMA Undisturbed ==
    ASSUME TypeOK, NEW v \in Workers, ActsFor(v), ReadsFresh(v), LeavesAlone(v)
    PROVE  ActsFor(v)' /\ ReadsFresh(v)'
<1>1. ActsFor(v)'
  BY RowsOfTables DEF ActsFor, CallOK, LeavesAlone
<1>2. ReadsFresh(v)'
  <2>1. HoldsBalance(v)' =>
            /\ lock'[BalanceRow(txn[v].consumer)] = v
            /\ txn[v].balance = Promise!BalanceOf(txn[v].consumer)'
    BY Arguments, RowsOfTables DEF ReadsFresh, LeavesAlone, HoldsBalance, Promise!BalanceOf
  <2>2. txn[v].row # NoRow =>
            /\ lock'[ReservationRow(txn[v].key)] = v
            /\ txn[v].row = reservations'[txn[v].key]
    BY Arguments, RowsOfTables DEF ReadsFresh, LeavesAlone
  <2>3. txn[v].at = "commit" /\ IsNewReserve(txn[v]) =>
            /\ lock'[ReservationRow(txn[v].key)] = v
            /\ reservations'[txn[v].key] = NoRow
    BY Arguments, RowsOfTables DEF ReadsFresh, LeavesAlone, IsNewReserve
  <2>4. IsNewTopup(v)' => IsNewTopup(v) /\ txn[v].key \notin topups'
    BY Arguments, RowsOfTables DEF ReadsFresh, LeavesAlone, IsNewTopup
  <2> QED
    BY <2>1, <2>2, <2>3, <2>4 DEF ReadsFresh, LeavesAlone, HoldsBalance
<1> QED
  BY <1>1, <1>2

\* A worker whose transaction has ended has nothing left to know.
LEMMA Ended ==
    ASSUME TypeOK, NEW w \in Workers, End(w)
    PROVE  /\ ActsFor(w)' /\ ReadsFresh(w)'
           /\ lock' \in [Rows -> Workers \union {NoWorker}]
           /\ txn' \in [Workers -> Transaction]
           /\ \A v \in Workers \ {w} :
                  /\ txn'[v] = txn[v]
                  /\ \A row \in Rows : lock'[row] = v <=> lock[row] = v
<1>1. Idle \in Transaction
  BY DEF Idle, NewCall, Transaction, Places
<1>2. txn' = [txn EXCEPT ![w] = Idle] /\ txn'[w] = Idle
  BY DEF End, TypeOK
<1>3. \A row \in Rows : lock'[row] # w /\ lock'[row] \in Workers \union {NoWorker}
  BY NoWorkerAssumption DEF End, TypeOK
<1>4. ActsFor(w)'
  <2>1. CallOK(Idle) /\ Idle.row = NoRow
    BY DEF CallOK, Idle, NewCall
  <2>2. \A f \in Fingerprints : lock'[TopupRow(f)] # w
    BY <1>3, RowsOfTables
  <2> QED
    BY <1>2, <2>1, <2>2 DEF ActsFor
<1>5. ReadsFresh(w)'
  BY <1>2 DEF ReadsFresh, HoldsBalance, IsNewReserve, IsNewTopup, Idle, NewCall
<1>6. txn' \in [Workers -> Transaction]
  BY <1>1, <1>2 DEF TypeOK
<1>7. lock' \in [Rows -> Workers \union {NoWorker}]
  BY <1>3 DEF End
<1> QED
  BY <1>2, <1>4, <1>5, <1>6, <1>7, NoWorkerAssumption DEF End, TypeOK

\* Taking a free lock takes it from nobody.
LEMMA Taken ==
    ASSUME TypeOK, NEW w \in Workers, NEW row \in Rows, Free(row), Take(w, row)
    PROVE  /\ lock' \in [Rows -> Workers \union {NoWorker}]
           /\ lock'[row] = w
           /\ \A other \in Rows : other # row => lock'[other] = lock[other]
           /\ \A v \in Workers \ {w}, other \in Rows : lock'[other] = v <=> lock[other] = v
BY NoWorkerAssumption DEF TypeOK, Free, Take

\* Taking the lock of another table leaves the topup keys as they were.
LEMMA TopupsUntaken ==
    ASSUME TypeOK, NEW w \in Workers, NEW row \in Rows, Free(row), Take(w, row),
           \A f \in Fingerprints : row # TopupRow(f)
    PROVE  \A f \in Fingerprints : lock'[TopupRow(f)] = lock[TopupRow(f)]
BY Taken, RowsOfTables

\* It is enough to look at the worker that moves.
LEMMA OneMoves ==
    ASSUME IInv, TypeOK', NEW w \in Workers, ActsFor(w)', ReadsFresh(w)',
           \A v \in Workers \ {w} : LeavesAlone(v)
    PROVE  IInv'
<1>1. ASSUME NEW v \in Workers PROVE ActsFor(v)' /\ ReadsFresh(v)'
  BY Undisturbed DEF IInv, ActsForItsCall, NoStaleRead
<1> QED
  BY <1>1 DEF IInv, ActsForItsCall, NoStaleRead

\* A step that writes no table.
LEMMA QuietStep ==
    ASSUME IInv, NEW w \in Workers, UnchangedTables,
           lock' \in [Rows -> Workers \union {NoWorker}],
           txn' \in [Workers -> Transaction],
           \A v \in Workers \ {w} :
               txn'[v] = txn[v] /\ \A row \in Rows : lock'[row] = v <=> lock[row] = v,
           ActsFor(w)', ReadsFresh(w)'
    PROVE  IInv'
<1>1. TypeOK'
  BY DEF IInv, TypeOK, UnchangedTables, Promise!TypeOK
<1>2. \A v \in Workers \ {w} : LeavesAlone(v)
  BY DEF LeavesAlone, UnchangedTables
<1> QED
  BY <1>1, <1>2, OneMoves

\* A transaction that ends without writing: a rollback, an error, a repetition.
LEMMA QuietEnd ==
    ASSUME IInv, NEW w \in Workers, End(w), UnchangedTables
    PROVE  IInv'
BY Ended, QuietStep DEF IInv

-----------------------------------------------------------------------------
\* A call begins a transaction that carries its arguments and holds nothing.
LEMMA BeginStep ==
    ASSUME IInv, NEW w \in Workers, NEW op \in {"reserve", "finalize", "credit", "topup"},
           NEW first \in {"lookup", "upsertConsumer", "lockBalance"},
           NEW c \in Consumers, NEW key \in Requests \union Fingerprints \union {NoRow},
           NEW amount \in Int, NEW success \in BOOLEAN,
           Begin(w, op, first, c, key, amount, success),
           CallOK(NewCall(op, first, c, key, amount, success))
    PROVE  IInv'
<1> DEFINE t == NewCall(op, first, c, key, amount, success)
<1>2. t \in Transaction
  BY DEF Transaction, Places, NewCall
<1>3. txn' = [txn EXCEPT ![w] = t] /\ txn[w] = Idle /\ lock' = lock /\ UnchangedTables
  BY DEF Begin
<1>4. txn'[w] = t
  BY <1>3 DEF IInv, TypeOK
<1>5. \A f \in Fingerprints : lock[TopupRow(f)] # w
  BY <1>3 DEF IInv, ActsForItsCall, ActsFor, Idle, NewCall
<1>6. ActsFor(w)'
  BY <1>3, <1>4, <1>5 DEF ActsFor, NewCall
<1>7. ReadsFresh(w)'
  <2>1. ~IsNewTopup(w)'
    <3>1. op = "topup" => key \in Fingerprints
      BY DEF CallOK, NewCall
    <3> QED
      BY <1>3, <1>4, <1>5, <3>1 DEF IsNewTopup, NewCall
  <2> QED
    BY <1>4, <2>1 DEF ReadsFresh, HoldsBalance, NewCall
<1>8. txn' \in [Workers -> Transaction]
  BY <1>2, <1>3 DEF IInv, TypeOK
<1> QED
  BY <1>3, <1>6, <1>7, <1>8, QuietStep DEF IInv, TypeOK

\* A call that begins holds no lock and has read nothing.
LEMMA BeginCallStep ==
    ASSUME IInv, NEW w \in Workers, BeginCall(w)
    PROVE  IInv'
<1>1. CASE BeginReserve(w)
  <2> PICK c \in Consumers, r \in Requests, amount \in Amounts :
          amount > 0 /\ Begin(w, "reserve", "lookup", c, r, amount, FALSE)
    BY <1>1 DEF BeginReserve
  <2>1. CallOK(NewCall("reserve", "lookup", c, r, amount, FALSE))
    BY DEF CallOK, NewCall
  <2>2. amount \in Int
    BY AmountsAssumption
  <2> QED
    BY <2>1, <2>2, BeginStep
<1>2. CASE BeginFinalize(w)
  <2> PICK c \in Consumers, r \in Requests, actual \in Charges, success \in BOOLEAN :
          Begin(w, "finalize", "lookup", c, r, actual, success)
    BY <1>2 DEF BeginFinalize
  <2>1. CallOK(NewCall("finalize", "lookup", c, r, actual, success))
    BY DEF CallOK, NewCall
  <2>2. actual \in Int
    BY AmountsAssumption
  <2> QED
    BY <2>1, <2>2, BeginStep
<1>3. CASE BeginCredit(w)
  <2> PICK c \in Consumers, amount \in Amounts :
          amount > 0 /\ Begin(w, "credit", "lockBalance", c, NoRow, amount, FALSE)
    BY <1>3 DEF BeginCredit
  <2>1. CallOK(NewCall("credit", "lockBalance", c, NoRow, amount, FALSE))
    BY DEF CallOK, NewCall
  <2>2. amount \in Int
    BY AmountsAssumption
  <2> QED
    BY <2>1, <2>2, BeginStep
<1>4. CASE BeginTopup(w)
  <2> PICK f \in Fingerprints :
          Begin(w, "topup", "upsertConsumer", PaymentOf[f].payer, f, PaymentOf[f].amount,
                FALSE)
    BY <1>4 DEF BeginTopup
  <2>1. PaymentOf[f].payer \in Consumers /\ PaymentOf[f].amount \in Int
    BY PaymentAssumption
  <2>2. CallOK(NewCall("topup", "upsertConsumer", PaymentOf[f].payer, f,
                      PaymentOf[f].amount, FALSE))
    BY DEF CallOK, NewCall
  <2> QED
    BY <2>1, <2>2, BeginStep
<1> QED
  BY <1>1, <1>2, <1>3, <1>4 DEF BeginCall

-----------------------------------------------------------------------------
\* The facts about the worker that moves, unfolded once.
LEMMA Mover ==
    ASSUME IInv, NEW w \in Workers
    PROVE  /\ TypeOK /\ ActsFor(w) /\ ReadsFresh(w)
           /\ txn[w] \in Transaction
           /\ CallOK(txn[w])
BY DEF IInv, TypeOK, ActsForItsCall, NoStaleRead, ActsFor

(***************************************************************************)
(* A statement that writes no table takes the transaction of w to u and    *)
(* takes at most one free lock.                                            *)
(***************************************************************************)
TakesAtMostOne(w) == lock' = lock \/ \E row \in Rows : Free(row) /\ Take(w, row)

\* What a statement must establish: it moves one transaction, takes one free lock at most and leaves the tables.
LEMMA StatementStep ==
    ASSUME IInv, NEW w \in Workers, NEW u \in Transaction,
           txn' = [txn EXCEPT ![w] = u], TakesAtMostOne(w), UnchangedTables,
           CallOK(u),
           u.row # NoRow => /\ u.row.consumer = u.consumer
                            /\ lock'[ReservationRow(u.key)] = w
                            /\ u.row = reservations[u.key],
           \A f \in Fingerprints : lock'[TopupRow(f)] = w =>
               /\ u.op = "topup" /\ u.key = f /\ u.at \in {"lockBalance", "commit"}
               /\ f \notin topups,
           u.at \in {"insertReservation", "commit"} =>
               /\ lock'[BalanceRow(u.consumer)] = w
               /\ u.balance = Promise!BalanceOf(u.consumer),
           u.at = "commit" /\ IsNewReserve(u) =>
               lock'[ReservationRow(u.key)] = w /\ reservations[u.key] = NoRow
    PROVE  IInv'
<1>1. txn'[w] = u /\ txn' \in [Workers -> Transaction]
  BY DEF IInv, TypeOK
<1>2. /\ lock' \in [Rows -> Workers \union {NoWorker}]
      /\ \A v \in Workers \ {w}, row \in Rows : lock'[row] = v <=> lock[row] = v
  BY Taken DEF IInv, TypeOK, TakesAtMostOne
<1>3. ActsFor(w)'
  BY <1>1 DEF ActsFor
<1>4. u.op = "topup" => u.key \in Fingerprints
  BY DEF CallOK
<1>5. Promise!BalanceOf(u.consumer)' = Promise!BalanceOf(u.consumer)
  BY DEF Promise!BalanceOf, UnchangedTables
<1>6. ReadsFresh(w)'
  BY <1>1, <1>4, <1>5 DEF ReadsFresh, HoldsBalance, IsNewTopup, UnchangedTables
<1>7. \A v \in Workers \ {w} : txn'[v] = txn[v]
  BY DEF IInv, TypeOK
<1> QED
  BY <1>1, <1>2, <1>3, <1>6, <1>7, QuietStep

\* SELECT ... FOR UPDATE of a reservation: the row it read is the row it locked.
LEMMA LookupFoundStep ==
    ASSUME IInv, NEW w \in Workers, LookupFound(w)
    PROVE  IInv'
<1> DEFINE t == txn[w]
           row == reservations[t.key]
           u == [t EXCEPT !.at = "lockBalance", !.row = row]
<1>1. /\ t \in Transaction /\ CallOK(t) /\ t.at = "lookup"
      /\ row # NoRow /\ row.consumer = t.consumer
      /\ Free(ReservationRow(t.key)) /\ Take(w, ReservationRow(t.key))
      /\ UnchangedTables
  BY Mover DEF LookupFound, Visible
<1>2. txn' = [txn EXCEPT ![w] = u]
  BY Mover DEF LookupFound, TypeOK
<1>3. t.op # "none" /\ (t.op \in {"reserve", "finalize"} => t.key \in Requests)
  BY <1>1, Mover, Arguments
<1>4. /\ t.op \in {"reserve", "finalize"} /\ t.key \in Requests
      /\ t.row = NoRow
  BY <1>1, <1>3 DEF CallOK, Transaction
<1>5. row \in Promise!Reservation
  BY <1>1, <1>4, Mover DEF TypeOK, Promise!TypeOK
<1>6. /\ u \in Transaction
      /\ u.op = t.op /\ u.at = "lockBalance" /\ u.consumer = t.consumer /\ u.key = t.key
      /\ u.amount = t.amount /\ u.row = row
  <2> HIDE DEF t, row
  <2> QED
    BY <1>1, <1>5 DEF Transaction, Places
<1>7. CallOK(u)
  <2> HIDE DEF t, u, row
  <2> QED
    BY <1>1, <1>4, <1>6 DEF CallOK
<1>8. ReservationRow(t.key) \in Rows
  BY <1>4, RowsOfTables
<1>9. lock'[ReservationRow(t.key)] = w
  BY <1>1, <1>8, Mover, Taken
<1>10. \A f \in Fingerprints : lock'[TopupRow(f)] # w
  <2>1. \A f \in Fingerprints : lock[TopupRow(f)] # w
    BY <1>1, Mover DEF ActsFor
  <2>2. \A f \in Fingerprints : ReservationRow(t.key) # TopupRow(f)
    BY RowNames
  <2> QED
    BY <1>1, <1>8, <2>1, <2>2, Mover, TopupsUntaken
<1>11. TakesAtMostOne(w)
  BY <1>1, <1>8 DEF TakesAtMostOne
<1> HIDE DEF t, row, u
<1> QED
  BY <1>1, <1>2, <1>6, <1>7, <1>9, <1>10, <1>11, StatementStep DEF row

\* Going to the next statement changes nothing else of a transaction.
LEMMA Moved ==
    ASSUME NEW t \in Transaction, NEW place \in Places
    PROVE  LET u == [t EXCEPT !.at = place]
           IN  /\ u \in Transaction
               /\ u.at = place
               /\ u.op = t.op /\ u.consumer = t.consumer /\ u.key = t.key
               /\ u.amount = t.amount /\ u.success = t.success
               /\ u.row = t.row /\ u.balance = t.balance
BY DEF Transaction

\* No such reservation: a reserve goes on, a finalize ends.
LEMMA LookupMissedStep ==
    ASSUME IInv, NEW w \in Workers, LookupMissed(w)
    PROVE  IInv'
<1> DEFINE t == txn[w]
           u == [t EXCEPT !.at = "lockBalance"]
<1>1. CASE t.op # "reserve"
  BY <1>1, QuietEnd DEF LookupMissed
<1>2. CASE t.op = "reserve"
  <2>1. t \in Transaction /\ CallOK(t) /\ t.at = "lookup" /\ lock' = lock /\ UnchangedTables
    BY <1>2, Mover DEF LookupMissed
  <2>2. txn' = [txn EXCEPT ![w] = u]
    BY <1>2, Mover DEF LookupMissed, GoTo, TypeOK
  <2>3. /\ u \in Transaction /\ u.at = "lockBalance" /\ u.op = t.op
        /\ u.consumer = t.consumer /\ u.key = t.key /\ u.amount = t.amount
        /\ u.row = t.row
    BY <2>1, Moved DEF Places
  <2>4. t.row = NoRow
    BY <1>2, <2>1 DEF CallOK
  <2>5. CallOK(u)
    <3> HIDE DEF t, u
    <3> QED
      BY <1>2, <2>1, <2>3, <2>4 DEF CallOK
  <2>6. \A f \in Fingerprints : lock'[TopupRow(f)] # w
    BY <1>2, <2>1, Mover DEF ActsFor
  <2>7. TakesAtMostOne(w)
    BY <2>1 DEF TakesAtMostOne
  <2> HIDE DEF t, u
  <2> QED
    BY <2>1, <2>2, <2>3, <2>4, <2>5, <2>6, <2>7, StatementStep
<1> QED
  BY <1>1, <1>2

\* INSERT INTO consumers takes no lock that protects a value.
LEMMA UpsertConsumerStep ==
    ASSUME IInv, NEW w \in Workers, UpsertConsumer(w)
    PROVE  IInv'
<1> DEFINE t == txn[w]
           u == [t EXCEPT !.at = "insertTopup"]
<1>1. /\ t \in Transaction /\ CallOK(t) /\ t.at = "upsertConsumer"
      /\ Free(ConsumerRow(t.consumer)) /\ Take(w, ConsumerRow(t.consumer))
      /\ UnchangedTables
  BY Mover DEF UpsertConsumer
<1>2. txn' = [txn EXCEPT ![w] = u]
  BY Mover DEF UpsertConsumer, GoTo, TypeOK
<1>3. /\ u \in Transaction /\ u.at = "insertTopup" /\ u.op = t.op
      /\ u.consumer = t.consumer /\ u.key = t.key /\ u.amount = t.amount
      /\ u.row = t.row
  BY <1>1, Moved DEF Places
<1>4. t.op = "topup" /\ t.consumer \in Consumers
  <2>1. t.op # "none" /\ t.consumer \in Consumers
    BY <1>1, Mover, Arguments
  <2> QED
    BY <1>1, <2>1 DEF CallOK, Transaction
<1>5. t.row = NoRow
  BY <1>1, <1>4 DEF CallOK
<1>6. CallOK(u)
  <2> HIDE DEF t, u
  <2> QED
    BY <1>1, <1>3, <1>4 DEF CallOK
<1>7. ConsumerRow(t.consumer) \in Rows
  BY <1>4, RowsOfTables
<1>8. \A f \in Fingerprints : lock'[TopupRow(f)] # w
  <2>1. \A f \in Fingerprints : lock[TopupRow(f)] # w
    BY <1>1, Mover DEF ActsFor
  <2>2. \A f \in Fingerprints : ConsumerRow(t.consumer) # TopupRow(f)
    BY RowNames
  <2> QED
    BY <1>1, <1>7, <2>1, <2>2, Mover, TopupsUntaken
<1>9. TakesAtMostOne(w)
  BY <1>1, <1>7 DEF TakesAtMostOne
<1> HIDE DEF t, u
<1> QED
  BY <1>1, <1>2, <1>3, <1>5, <1>6, <1>8, <1>9, StatementStep

\* INSERT INTO x402_prepaid_topups: a locked fingerprint is a new one.
LEMMA InsertTopupStep ==
    ASSUME IInv, NEW w \in Workers, InsertTopup(w)
    PROVE  IInv'
<1> DEFINE t == txn[w]
           u == [t EXCEPT !.at = "lockBalance"]
<1>1. t \in Transaction /\ CallOK(t) /\ t.at = "insertTopup" /\ UnchangedTables
  BY Mover DEF InsertTopup
<1>2. txn' = [txn EXCEPT ![w] = u]
  BY Mover DEF InsertTopup, GoTo, TypeOK
<1>3. /\ u \in Transaction /\ u.at = "lockBalance" /\ u.op = t.op
      /\ u.consumer = t.consumer /\ u.key = t.key /\ u.amount = t.amount
      /\ u.row = t.row
  BY <1>1, Moved DEF Places
<1>4. t.op = "topup" /\ t.key \in Fingerprints
  <2>1. t.op # "none" /\ (t.op = "topup" => t.key \in Fingerprints)
    BY <1>1, Mover, Arguments
  <2> QED
    BY <1>1, <2>1 DEF CallOK, Transaction
<1>5. t.row = NoRow
  BY <1>1, <1>4 DEF CallOK
<1>6. CallOK(u)
  <2> HIDE DEF t, u
  <2> QED
    BY <1>1, <1>3, <1>4 DEF CallOK
<1>7. \A f \in Fingerprints : lock[TopupRow(f)] # w
  BY <1>1, Mover DEF ActsFor
<1>8. CASE t.key \in topups
  <2>1. lock' = lock
    BY <1>8 DEF InsertTopup
  <2>2. TakesAtMostOne(w)
    BY <2>1 DEF TakesAtMostOne
  <2> HIDE DEF t, u
  <2> QED
    BY <1>1, <1>2, <1>3, <1>5, <1>6, <1>7, <2>1, <2>2, StatementStep
<1>9. CASE t.key \notin topups
  <2>1. Free(TopupRow(t.key)) /\ Take(w, TopupRow(t.key))
    BY <1>9 DEF InsertTopup
  <2>2. TopupRow(t.key) \in Rows
    BY <1>4, RowsOfTables
  <2>3. TakesAtMostOne(w)
    BY <2>1, <2>2 DEF TakesAtMostOne
  <2>4. \A other \in Rows : other # TopupRow(t.key) => lock'[other] = lock[other]
    BY <2>1, <2>2, Mover, Taken
  <2>5. ASSUME NEW f \in Fingerprints, lock'[TopupRow(f)] = w
        PROVE  f = t.key
    BY <1>7, <2>4, <2>5, RowNames, RowsOfTables
  <2> HIDE DEF t, u
  <2> QED
    BY <1>1, <1>2, <1>3, <1>4, <1>5, <1>6, <1>9, <2>3, <2>5, StatementStep
<1> QED
  BY <1>8, <1>9

\* The balance that was read is locked, and covers a new reserve.
LEMMA LockBalanceStep ==
    ASSUME IInv, NEW w \in Workers, LockBalance(w)
    PROVE  IInv'
<1> DEFINE t == txn[w]
           balance == Promise!BalanceOf(t.consumer)
           next == IF IsNewReserve(t) THEN "insertReservation" ELSE "commit"
           u == [t EXCEPT !.balance = balance, !.at = next]
           failed == \/ ~EnsuresRow(w) /\ balances[t.consumer] = NoRow
                     \/ IsNewReserve(t) /\ balance < t.amount
<1>1. /\ t \in Transaction /\ CallOK(t) /\ t.at = "lockBalance"
      /\ Free(BalanceRow(t.consumer)) /\ UnchangedTables
  BY Mover DEF LockBalance
<1>2. CASE failed
  BY <1>2, QuietEnd DEF LockBalance
<1>3. CASE ~failed
  <2>1. Take(w, BalanceRow(t.consumer)) /\ txn' = [txn EXCEPT ![w] = u]
    BY <1>3, Mover DEF LockBalance, TypeOK
  <2>2. t.op # "none" /\ t.consumer \in Consumers
    BY <1>1, Mover, Arguments
  <2>3. balance \in Int
    BY <2>2, Mover DEF TypeOK, Promise!TypeOK, Promise!BalanceOf
  <2>4. /\ u \in Transaction /\ u.op = t.op /\ u.consumer = t.consumer /\ u.key = t.key
        /\ u.amount = t.amount /\ u.row = t.row /\ u.balance = balance /\ u.at = next
        /\ next \in {"insertReservation", "commit"}
    <3> HIDE DEF t, balance
    <3> QED
      BY <1>1, <2>3 DEF Transaction, Places
  <2>5. /\ t.op = "reserve" /\ t.row = NoRow => next = "insertReservation"
        /\ ~(t.op = "reserve" /\ t.row = NoRow) => next = "commit"
        /\ t.op = "reserve" /\ t.row = NoRow => ~(balance < t.amount)
    BY <1>3 DEF IsNewReserve
  <2>6. CallOK(u)
    <3>1. t.amount \in Int
      BY <1>1 DEF Transaction
    <3> HIDE DEF t, u, balance, next, failed
    <3>2. t.op \in {"reserve", "finalize", "credit", "topup"}
      BY <1>1, <2>2 DEF Transaction
    <3>3. CASE t.op = "reserve"
      BY <1>1, <2>3, <2>4, <2>5, <3>1, <3>3 DEF CallOK
    <3>4. CASE t.op = "finalize"
      BY <1>1, <2>4, <2>5, <3>4 DEF CallOK
    <3>5. CASE t.op = "credit"
      BY <1>1, <2>4, <2>5, <3>5 DEF CallOK
    <3>6. CASE t.op = "topup"
      BY <1>1, <2>4, <2>5, <3>6 DEF CallOK
    <3> QED
      BY <3>2, <3>3, <3>4, <3>5, <3>6
  <2>7. BalanceRow(t.consumer) \in Rows
    BY <2>2, RowsOfTables
  <2>8. /\ lock'[BalanceRow(t.consumer)] = w
        /\ \A other \in Rows :
               other # BalanceRow(t.consumer) => lock'[other] = lock[other]
    BY <1>1, <2>1, <2>7, Mover, Taken
  <2>9. t.row # NoRow => /\ t.row.consumer = t.consumer
                         /\ lock'[ReservationRow(t.key)] = w
                         /\ t.row = reservations[t.key]
    <3>1. t.row # NoRow => t.key \in Requests
      BY Mover, Arguments
    <3>2. t.row # NoRow => /\ t.row.consumer = t.consumer
                           /\ lock[ReservationRow(t.key)] = w
                           /\ t.row = reservations[t.key]
      BY Mover DEF ActsFor, ReadsFresh
    <3>3. t.row # NoRow => lock'[ReservationRow(t.key)] = lock[ReservationRow(t.key)]
      BY <2>8, <3>1, RowNames, RowsOfTables
    <3> QED
      BY <3>2, <3>3
  <2>10. ASSUME NEW f \in Fingerprints, lock'[TopupRow(f)] = w
         PROVE  t.op = "topup" /\ t.key = f /\ f \notin topups
    <3>1. lock[TopupRow(f)] = w
      BY <2>8, <2>10, RowNames, RowsOfTables
    <3>2. t.op = "topup" /\ t.key = f
      BY <3>1, Mover DEF ActsFor
    <3> QED
      BY <3>1, <3>2, Mover DEF ReadsFresh, IsNewTopup
  <2>11. u.op = "topup" => next = "commit"
    BY <2>4, <2>5
  <2>12. ~(u.at = "commit" /\ IsNewReserve(u))
    BY <2>4, <2>5 DEF IsNewReserve
  <2>13. TakesAtMostOne(w)
    BY <1>1, <2>1, <2>7 DEF TakesAtMostOne
  <2> HIDE DEF t, u, balance, next
  <2> QED
    BY <1>1, <2>1, <2>4, <2>6, <2>8, <2>9, <2>10, <2>11, <2>12, <2>13, StatementStep
       DEF balance
<1> QED
  BY <1>2, <1>3

\* A locked new request id has no committed row.
LEMMA InsertReservationStep ==
    ASSUME IInv, NEW w \in Workers, InsertReservation(w)
    PROVE  IInv'
<1> DEFINE t == txn[w]
           u == [t EXCEPT !.at = "commit"]
<1>1. t \in Transaction /\ CallOK(t) /\ t.at = "insertReservation" /\ UnchangedTables
  BY Mover DEF InsertReservation
<1>2. CASE reservations[t.key] # NoRow
  BY <1>2, QuietEnd DEF InsertReservation
<1>3. CASE reservations[t.key] = NoRow
  <2>1. /\ Free(ReservationRow(t.key)) /\ Take(w, ReservationRow(t.key))
        /\ txn' = [txn EXCEPT ![w] = u]
    BY <1>3, Mover DEF InsertReservation, GoTo, TypeOK
  <2>2. t.op = "reserve" /\ t.key \in Requests /\ t.consumer \in Consumers
    <3>1. t.op # "none"
      BY <1>1, Mover, Arguments
    <3> QED
      BY <1>1, <3>1 DEF CallOK, Transaction
  <2>3. t.row = NoRow
    BY <1>1, <2>2 DEF CallOK
  <2>4. /\ u \in Transaction /\ u.at = "commit" /\ u.op = t.op
        /\ u.consumer = t.consumer /\ u.key = t.key /\ u.amount = t.amount
        /\ u.row = t.row /\ u.balance = t.balance
    BY <1>1, Moved DEF Places
  <2>5. CallOK(u)
    <3> HIDE DEF t, u
    <3> QED
      BY <1>1, <2>2, <2>3, <2>4 DEF CallOK
  <2>6. ReservationRow(t.key) \in Rows
    BY <2>2, RowsOfTables
  <2>7. /\ lock'[ReservationRow(t.key)] = w
        /\ \A other \in Rows :
               other # ReservationRow(t.key) => lock'[other] = lock[other]
    BY <2>1, <2>6, Mover, Taken
  <2>8. lock'[BalanceRow(t.consumer)] = w /\ t.balance = Promise!BalanceOf(t.consumer)
    <3>1. lock[BalanceRow(t.consumer)] = w /\ t.balance = Promise!BalanceOf(t.consumer)
      BY <1>1, Mover DEF ReadsFresh, HoldsBalance
    <3> QED
      BY <2>2, <2>7, <3>1, RowNames, RowsOfTables
  <2>9. \A f \in Fingerprints : lock'[TopupRow(f)] # w
    <3>1. \A f \in Fingerprints : lock[TopupRow(f)] # w
      BY <1>1, Mover DEF ActsFor
    <3>2. \A f \in Fingerprints : ReservationRow(t.key) # TopupRow(f)
      BY RowNames
    <3> QED
      BY <2>1, <2>6, <3>1, <3>2, Mover, TopupsUntaken
  <2>10. TakesAtMostOne(w)
    BY <2>1, <2>6 DEF TakesAtMostOne
  <2> HIDE DEF t, u
  <2> QED
    BY <1>1, <1>3, <2>1, <2>3, <2>4, <2>5, <2>7, <2>8, <2>9, <2>10, StatementStep
<1> QED
  BY <1>2, <1>3

-----------------------------------------------------------------------------
\* Proofs talks about the same states and the same steps as Promise.
LEMMA SameTypes == Promise!TypeOK <=> Proofs!TypeOK
BY DEF Promise!TypeOK, Proofs!TypeOK, Promise!Entry, Proofs!Entry,
       Promise!Reservation, Proofs!Reservation, Promise!Statuses, Proofs!Statuses

\* The promise, instantiated here and by the theorems about it, is one specification.
LEMMA SameStep ==
    ASSUME Promise!Next
    PROVE  Proofs!Next
<1> USE DEF Promise!Post, Proofs!Post, Promise!NewEntry, Proofs!NewEntry,
            Promise!BalanceOf, Proofs!BalanceOf
<1>1. ASSUME NEW c \in Consumers, NEW r \in Requests, NEW amount \in Amounts,
             Promise!Reserve(c, r, amount)
      PROVE  Proofs!Reserve(c, r, amount)
  BY <1>1 DEF Promise!Reserve, Proofs!Reserve
<1>2. ASSUME NEW r \in Requests, NEW actual \in Charges, NEW success \in BOOLEAN,
             Promise!Finalize(r, actual, success)
      PROVE  Proofs!Finalize(r, actual, success)
  BY <1>2 DEF Promise!Finalize, Proofs!Finalize, Promise!ChargeFor, Proofs!ChargeFor,
              Promise!SettlementEntries, Proofs!SettlementEntries,
              Promise!Settled, Proofs!Settled
<1>3. ASSUME NEW c \in Consumers, NEW amount \in Amounts, Promise!Credit(c, amount)
      PROVE  Proofs!Credit(c, amount)
  BY <1>3 DEF Promise!Credit, Proofs!Credit
<1>4. ASSUME NEW f \in Fingerprints, Promise!Topup(f)
      PROVE  Proofs!Topup(f)
  BY <1>4 DEF Promise!Topup, Proofs!Topup
<1> QED
  BY <1>1, <1>2, <1>3, <1>4 DEF Promise!Next, Proofs!Next

\* So a step of the promise keeps the types of the tables.
LEMMA PromiseTypes ==
    ASSUME Promise!TypeOK, Promise!Next
    PROVE  Promise!TypeOK'
<1>1. Proofs!TypeOK /\ Proofs!Next
  BY SameTypes, SameStep
<1>2. Proofs!TypeOK'
  BY <1>1, Proofs!TypeStep, AmountsAssumption, PaymentAssumption,
     ReferenceAssumption, NoRowAssumption
<1> QED
  BY <1>2 DEF Promise!TypeOK, Proofs!TypeOK, Promise!Entry, Proofs!Entry,
              Promise!Reservation, Proofs!Reservation, Promise!Statuses, Proofs!Statuses

-----------------------------------------------------------------------------
(***************************************************************************)
(* What a writing transaction relies on when it commits.                   *)
(***************************************************************************)
LEMMA AtCommit ==
    ASSUME IInv, NEW w \in Workers, txn[w].at = "commit"
    PROVE  /\ txn[w].consumer \in Consumers
           /\ lock[BalanceRow(txn[w].consumer)] = w
           /\ txn[w].balance = Promise!BalanceOf(txn[w].consumer)
<1>1. txn[w].consumer \in Consumers
  BY Mover, Arguments
<1> QED
  BY <1>1, Mover DEF ReadsFresh, HoldsBalance

\* A commit that is a step of the promise and writes only locked rows.
LEMMA CommitStep ==
    ASSUME IInv, NEW w \in Workers, End(w), Promise!Next,
           \A c \in Consumers : lock[BalanceRow(c)] # w => balances'[c] = balances[c],
           \A r \in Requests :
               lock[ReservationRow(r)] # w => reservations'[r] = reservations[r],
           \A f \in Fingerprints : lock[TopupRow(f)] # w => (f \in topups' <=> f \in topups)
    PROVE  IInv'
<1>1. TypeOK
  BY Mover
<1>2. TypeOK'
  BY <1>1, Ended, PromiseTypes DEF TypeOK
<1>3. \A v \in Workers \ {w} : LeavesAlone(v)
  BY <1>1, Ended DEF LeavesAlone
<1> QED
  BY <1>1, <1>2, <1>3, Ended, OneMoves

\* The commit of a new reserve is a Reserve of the promise.
LEMMA CommitReserveStep ==
    ASSUME IInv, NEW w \in Workers, CommitReserve(w)
    PROVE  Promise!Next /\ IInv'
<1> DEFINE t == txn[w]
<1>1. /\ t \in Transaction /\ CallOK(t) /\ t.at = "commit" /\ t.op = "reserve"
      /\ t.row = NoRow /\ End(w)
  BY Mover DEF CommitReserve, IsNewReserve
<1>2. /\ t.consumer \in Consumers /\ t.key \in Requests
      /\ t.amount \in Amounts /\ t.amount > 0 /\ t.balance >= t.amount
  BY <1>1 DEF CallOK
<1>3. t.balance = Promise!BalanceOf(t.consumer) /\ lock[BalanceRow(t.consumer)] = w
  BY <1>1, AtCommit
<1>4. lock[ReservationRow(t.key)] = w /\ reservations[t.key] = NoRow
  BY <1>1, Mover DEF ReadsFresh, IsNewReserve
<1>5. Promise!Reserve(t.consumer, t.key, t.amount)
  BY <1>2, <1>3, <1>4 DEF Promise!Reserve, CommitReserve
<1>6. Promise!Next
  BY <1>2, <1>5 DEF Promise!Next
<1>7. \A c \in Consumers : lock[BalanceRow(c)] # w => balances'[c] = balances[c]
  BY <1>3, Mover DEF CommitReserve, Promise!Post, TypeOK, Promise!TypeOK
<1>8. \A r \in Requests : lock[ReservationRow(r)] # w => reservations'[r] = reservations[r]
  BY <1>4, Mover DEF CommitReserve, TypeOK, Promise!TypeOK
<1>9. topups' = topups
  BY DEF CommitReserve
<1> QED
  BY <1>1, <1>6, <1>7, <1>8, <1>9, CommitStep

\* The commit of a first finalize is a Finalize of the promise.
LEMMA CommitFinalizeStep ==
    ASSUME IInv, NEW w \in Workers, CommitFinalize(w)
    PROVE  Promise!Next /\ IInv'
<1> DEFINE t == txn[w]
<1>1. /\ t \in Transaction /\ CallOK(t) /\ t.at = "commit" /\ t.op = "finalize"
      /\ t.row.status = "reserved" /\ End(w)
  BY Mover DEF CommitFinalize
<1>2. /\ t.consumer \in Consumers /\ t.key \in Requests /\ t.amount \in Charges
      /\ t.row # NoRow /\ t.success \in BOOLEAN
  BY <1>1 DEF CallOK, Transaction
<1>3. t.balance = Promise!BalanceOf(t.consumer) /\ lock[BalanceRow(t.consumer)] = w
  BY <1>1, AtCommit
<1>4. /\ lock[ReservationRow(t.key)] = w /\ reservations[t.key] = t.row
      /\ t.row.consumer = t.consumer
  BY <1>2, Mover DEF ReadsFresh, ActsFor
<1>5. Promise!Finalize(t.key, t.amount, t.success)
  BY <1>1, <1>2, <1>3, <1>4 DEF Promise!Finalize, CommitFinalize
<1>6. Promise!Next
  BY <1>2, <1>5 DEF Promise!Next
<1>7. \A c \in Consumers : lock[BalanceRow(c)] # w => balances'[c] = balances[c]
  BY <1>3, Mover DEF CommitFinalize, Promise!Post, TypeOK, Promise!TypeOK
<1>8. \A r \in Requests : lock[ReservationRow(r)] # w => reservations'[r] = reservations[r]
  BY <1>4, Mover DEF CommitFinalize, TypeOK, Promise!TypeOK
<1>9. topups' = topups
  BY DEF CommitFinalize
<1> QED
  BY <1>1, <1>6, <1>7, <1>8, <1>9, CommitStep

\* The commit of a deposit is a Credit of the promise.
LEMMA CommitCreditStep ==
    ASSUME IInv, NEW w \in Workers, CommitCredit(w)
    PROVE  Promise!Next /\ IInv'
<1> DEFINE t == txn[w]
<1>1. CallOK(t) /\ t.at = "commit" /\ t.op = "credit" /\ End(w)
  BY Mover DEF CommitCredit
<1>2. t.consumer \in Consumers /\ t.amount \in Amounts /\ t.amount > 0
  BY <1>1 DEF CallOK
<1>3. t.balance = Promise!BalanceOf(t.consumer) /\ lock[BalanceRow(t.consumer)] = w
  BY <1>1, AtCommit
<1>4. Promise!Credit(t.consumer, t.amount)
  BY <1>2, <1>3 DEF Promise!Credit, CommitCredit
<1>5. Promise!Next
  BY <1>2, <1>4 DEF Promise!Next
<1>6. \A c \in Consumers : lock[BalanceRow(c)] # w => balances'[c] = balances[c]
  BY <1>3, Mover DEF CommitCredit, Promise!Post, TypeOK, Promise!TypeOK
<1>7. reservations' = reservations /\ topups' = topups
  BY DEF CommitCredit
<1> QED
  BY <1>1, <1>5, <1>6, <1>7, CommitStep

\* The commit of a new topup is a Topup of the promise.
LEMMA CommitTopupStep ==
    ASSUME IInv, NEW w \in Workers, CommitTopup(w)
    PROVE  Promise!Next /\ IInv'
<1> DEFINE t == txn[w]
<1>1. /\ CallOK(t) /\ t.at = "commit" /\ t.op = "topup" /\ lock[TopupRow(t.key)] = w
      /\ End(w)
  BY Mover DEF CommitTopup, IsNewTopup
<1>2. /\ t.key \in Fingerprints
      /\ t.consumer = PaymentOf[t.key].payer /\ t.amount = PaymentOf[t.key].amount
  BY <1>1 DEF CallOK
<1>3. t.balance = Promise!BalanceOf(t.consumer) /\ lock[BalanceRow(t.consumer)] = w
  BY <1>1, AtCommit
<1>4. t.key \notin topups
  BY <1>1, Mover DEF ReadsFresh, IsNewTopup
<1>5. Promise!Topup(t.key)
  BY <1>2, <1>3, <1>4 DEF Promise!Topup, CommitTopup
<1>6. Promise!Next
  BY <1>2, <1>5 DEF Promise!Next
<1>7. \A c \in Consumers : lock[BalanceRow(c)] # w => balances'[c] = balances[c]
  BY <1>3, Mover DEF CommitTopup, Promise!Post, TypeOK, Promise!TypeOK
<1>8. \A f \in Fingerprints : lock[TopupRow(f)] # w => (f \in topups' <=> f \in topups)
  BY <1>1 DEF CommitTopup
<1>9. reservations' = reservations
  BY DEF CommitTopup
<1> QED
  BY <1>1, <1>6, <1>7, <1>8, <1>9, CommitStep

-----------------------------------------------------------------------------
\* Every step keeps the invariant, and is a step of the promise or writes nothing.
LEMMA Step ==
    ASSUME IInv, Next
    PROVE  IInv' /\ (Promise!Next \/ UnchangedTables)
<1> PICK w \in Workers : BeginCall(w) \/ Statement(w) \/ Commit(w) \/ Rollback(w)
  BY DEF Next
<1>1. CASE BeginCall(w)
  <2>1. UnchangedTables
    BY <1>1 DEF BeginCall, BeginReserve, BeginFinalize, BeginCredit, BeginTopup, Begin
  <2> QED
    BY <1>1, <2>1, BeginCallStep
<1>2. CASE Statement(w)
  <2>1. UnchangedTables
    BY <1>2 DEF Statement, LookupFound, LookupMissed, UpsertConsumer, InsertTopup,
                LockBalance, InsertReservation
  <2> QED
    BY <1>2, <2>1, LookupFoundStep, LookupMissedStep, UpsertConsumerStep, InsertTopupStep,
       LockBalanceStep, InsertReservationStep DEF Statement
<1>3. CASE Commit(w)
  BY <1>3, CommitReserveStep, CommitFinalizeStep, CommitCreditStep, CommitTopupStep,
     QuietEnd DEF Commit, CommitRepeat
<1>4. CASE Rollback(w)
  BY <1>4, QuietEnd DEF Rollback
<1> QED
  BY <1>1, <1>2, <1>3, <1>4

\* The invariant starts true: no transaction has begun.
LEMMA InitOK == Init => IInv
<1> SUFFICES ASSUME Init PROVE IInv
  OBVIOUS
<1>1. TypeOK
  <2>1. Promise!TypeOK
    BY DEF Init, Promise!Init, Promise!TypeOK
  <2>2. Idle \in Transaction
    BY DEF Idle, NewCall, Transaction, Places
  <2> QED
    BY <2>1, <2>2 DEF Init, TypeOK
<1>2. ASSUME NEW w \in Workers PROVE ActsFor(w) /\ ReadsFresh(w)
  <2>1. txn[w] = Idle /\ \A row \in Rows : lock[row] # w
    BY NoWorkerAssumption DEF Init
  <2>2. CallOK(Idle) /\ Idle.row = NoRow /\ Idle.op = "none" /\ Idle.at = "idle"
    BY DEF CallOK, Idle, NewCall
  <2> QED
    BY <2>1, <2>2, RowsOfTables
       DEF ActsFor, ReadsFresh, HoldsBalance, IsNewReserve, IsNewTopup
<1> QED
  BY <1>1, <1>2 DEF IInv, ActsForItsCall, NoStaleRead

\* The types, the calls and the freshness of every read hold in every state.
THEOREM StoreInvariant == Spec => [](TypeOK /\ ActsForItsCall /\ NoStaleRead)
<1>1. IInv /\ [Next]_storeVars => IInv'
  <2> SUFFICES ASSUME IInv, [Next]_storeVars PROVE IInv'
    OBVIOUS
  <2>1. CASE Next
    BY <2>1, Step
  <2>2. CASE UNCHANGED storeVars
    BY <2>2 DEF storeVars, IInv, TypeOK, Promise!TypeOK, ActsForItsCall, ActsFor,
                NoStaleRead, ReadsFresh, HoldsBalance, IsNewTopup, Promise!BalanceOf
  <2> QED
    BY <2>1, <2>2
<1> QED
  BY <1>1, InitOK, PTL DEF Spec, IInv

(***************************************************************************)
(* The transactions of the store implement the atomic operations of the    *)
(* ledger: every commit is one operation, every other step is invisible.   *)
(***************************************************************************)
THEOREM StoreKeepsPromise == Spec => KeepsPromise
<1>1. Init => Promise!Init
  BY DEF Init
<1>2. IInv /\ [Next]_storeVars => [Promise!Next]_(Promise!vars)
  BY Step DEF UnchangedTables, storeVars, Promise!vars
<1> QED
  BY <1>1, <1>2, StoreInvariant, PTL DEF Spec, KeepsPromise, Promise!Spec, IInv

\* Promise and Proofs state the same of the tables.
LEMMA SameFunctions ==
    /\ \A c : Proofs!RequestsOf(c) = Promise!RequestsOf(c)
    /\ \A c, type, ref : Proofs!Posted(c, type, ref) = Promise!Posted(c, type, ref)
    /\ \A entries, amount : Proofs!Once(entries, amount) = Promise!Once(entries, amount)
    /\ \A c : /\ Proofs!PaidIn(c) = Promise!PaidIn(c)
              /\ Proofs!Held(c) = Promise!Held(c)
              /\ Proofs!Spent(c) = Promise!Spent(c)
<1>1. \A c, type, ref : Proofs!Posted(c, type, ref) = Promise!Posted(c, type, ref)
  BY DEF Proofs!Posted, Promise!Posted
<1>2. \A entries, amount : Proofs!Once(entries, amount) = Promise!Once(entries, amount)
  BY Zenon DEF Proofs!Once, Promise!Once
<1>3. \A c : Proofs!RequestsOf(c) = Promise!RequestsOf(c)
  BY DEF Proofs!RequestsOf, Promise!RequestsOf
<1>4. \A c : Proofs!HoldsOf(c) = Promise!HoldsOf(c)
  BY <1>3 DEF Proofs!HoldsOf, Promise!HoldsOf
<1>5. \A entries : Proofs!CreditsIn(entries) = Promise!CreditsIn(entries)
  BY DEF Proofs!CreditsIn, Promise!CreditsIn
<1>6. \A f : Proofs!SumFunction(f) = Promise!SumFunction(f)
  BY Zenon DEF Proofs!SumFunction, Promise!SumFunction,
               Proofs!SumFunctionOnSet, Promise!SumFunctionOnSet,
               Proofs!FoldFunctionOnSet, Promise!FoldFunctionOnSet,
               Proofs!MapThenFoldSet, Promise!MapThenFoldSet
<1>7. \A c : Proofs!PaidIn(c) = Promise!PaidIn(c)
  BY <1>5, <1>6, Zenon DEF Proofs!PaidIn, Promise!PaidIn
<1>8. \A c : Proofs!Held(c) = Promise!Held(c)
  BY <1>4, <1>6, Zenon DEF Proofs!Held, Promise!Held
<1>9. \A c : Proofs!Spent(c) = Promise!Spent(c)
  BY <1>3, <1>6, Zenon DEF Proofs!Spent, Promise!Spent
<1> QED
  BY <1>1, <1>2, <1>3, <1>7, <1>8, <1>9, Zenon

LEMMA SameClaims ==
    /\ Proofs!LedgerChains => Promise!LedgerChains
    /\ Proofs!NeverOverdrawn => Promise!NeverOverdrawn
    /\ Proofs!LedgerExplainsReservations => Promise!LedgerExplainsReservations
    /\ Proofs!TopupCreditedOnce => Promise!TopupCreditedOnce
    /\ Proofs!Conservation => Promise!Conservation
<1>1. \A c \in Consumers : Proofs!BalanceOf(c) = Promise!BalanceOf(c)
  BY DEF Proofs!BalanceOf, Promise!BalanceOf
<1>2. \A c \in Consumers : \A i : Proofs!AfterOf(c, i) = Promise!AfterOf(c, i)
  BY DEF Proofs!AfterOf, Promise!AfterOf
<1>3. \A c, r : Proofs!Explained(c, r) = Promise!Explained(c, r)
  BY SameFunctions, Zenon DEF Proofs!Explained, Promise!Explained
<1>4. \A c, f : Proofs!CreditedOnce(c, f) = Promise!CreditedOnce(c, f)
  BY SameFunctions, Zenon DEF Proofs!CreditedOnce, Promise!CreditedOnce
<1> QED
  BY <1>1, <1>2, <1>3, <1>4, SameFunctions, Zenon
     DEF Proofs!LedgerChains, Promise!LedgerChains, Proofs!NeverOverdrawn, Promise!NeverOverdrawn,
         Proofs!LedgerExplainsReservations, Promise!LedgerExplainsReservations,
         Proofs!TopupCreditedOnce, Promise!TopupCreditedOnce,
         Proofs!Conservation, Promise!Conservation

(***************************************************************************)
(* So the tables that concurrent transactions leave are the ones the       *)
(* atomic operations could have left: every ledger chains, its last entry  *)
(* is the balance, no consumer is overdrawn, the ledger explains every     *)
(* reservation, a topup is credited once, and no money appears or is lost. *)
(***************************************************************************)
THEOREM StoreLedgerCorrect ==
    Spec => [](/\ Promise!LedgerChains /\ Promise!NeverOverdrawn
               /\ Promise!LedgerExplainsReservations /\ Promise!TopupCreditedOnce
               /\ Promise!Conservation)
<1>1. Promise!Init => Proofs!Init
  BY DEF Promise!Init, Proofs!Init
<1>2. [Promise!Next]_(Promise!vars) => [Proofs!Next]_(Proofs!vars)
  BY SameStep DEF Promise!vars, Proofs!vars
<1>3. Proofs!Spec => [](/\ Proofs!LedgerChains /\ Proofs!NeverOverdrawn
                       /\ Proofs!LedgerExplainsReservations /\ Proofs!TopupCreditedOnce
                       /\ Proofs!Conservation)
  <2>1. /\ Proofs!Spec => [](Proofs!LedgerChains /\ Proofs!NeverOverdrawn)
        /\ Proofs!Spec => []Proofs!LedgerExplainsReservations
        /\ Proofs!Spec => []Proofs!TopupCreditedOnce
        /\ Proofs!Spec => []Proofs!Conservation
    BY Proofs!LedgerCorrect, Proofs!LedgerExplains, Proofs!TopupsCredited,
       Proofs!MoneyConserved, AmountsAssumption, PaymentAssumption, ReferenceAssumption,
       NoRowAssumption
  <2> QED
    BY <2>1, PTL
<1> QED
  BY <1>1, <1>2, <1>3, SameClaims, StoreKeepsPromise, PTL
     DEF KeepsPromise, Promise!Spec, Proofs!Spec

-----------------------------------------------------------------------------
(***************************************************************************)
(* Why no transactions wait only for each other: every statement has a     *)
(* rank, a transaction only holds what it took at a lower rank, and the    *)
(* holder of a row somebody waits for is at a higher rank than the waiter. *)
(***************************************************************************)
Rank(place) ==
    CASE place = "commit" -> 4
      [] place = "insertReservation" -> 3
      [] place = "lockBalance" -> 2
      [] place = "insertTopup" -> 1
      [] OTHER -> 0

RankOf(w) == Rank(txn[w].at)

Ranked(w) ==
    /\ \A c \in Consumers : lock[ConsumerRow(c)] = w => RankOf(w) >= 1
    /\ \A f \in Fingerprints : lock[TopupRow(f)] = w => RankOf(w) >= 2
    /\ \A r \in Requests : lock[ReservationRow(r)] = w =>
           RankOf(w) >= 2 /\ (reservations[r] = NoRow => RankOf(w) = 4)
    /\ \A c \in Consumers : lock[BalanceRow(c)] = w => RankOf(w) >= 3

\* The row a statement takes asks for a rank.
TakesAt(w, row, rank) ==
    /\ row \in Rows /\ Free(row) /\ Take(w, row)
    /\ \A c \in Consumers : row = ConsumerRow(c) => rank >= 1
    /\ \A f \in Fingerprints : row = TopupRow(f) => rank >= 2
    /\ \A r \in Requests : row = ReservationRow(r) =>
           rank >= 2 /\ (reservations[r] = NoRow => rank = 4)
    /\ \A c \in Consumers : row = BalanceRow(c) => rank >= 3

\* A rank is one of five numbers.
LEMMA Ranks ==
    ASSUME NEW place
    PROVE  Rank(place) \in 0..4
BY DEF Rank

\* A worker that is left alone keeps its rank and what it holds.
LEMMA RankUndisturbed ==
    ASSUME NEW v \in Workers, Ranked(v), txn'[v] = txn[v],
           \A row \in Rows : lock'[row] = v <=> lock[row] = v,
           \A r \in Requests : lock[ReservationRow(r)] = v => reservations'[r] = reservations[r]
    PROVE  Ranked(v)'
BY RowsOfTables DEF Ranked, RankOf

\* A transaction that ends holds nothing, and its writes are to rows of its own.
LEMMA EndRanked ==
    ASSUME IInv, \A v \in Workers : Ranked(v), NEW w \in Workers, End(w),
           \A r \in Requests : lock[ReservationRow(r)] # w => reservations'[r] = reservations[r]
    PROVE  \A v \in Workers : Ranked(v)'
<1>1. ASSUME NEW v \in Workers, v # w PROVE Ranked(v)'
  <2>1. txn'[v] = txn[v] /\ \A row \in Rows : lock'[row] = v <=> lock[row] = v
    BY <1>1, Ended DEF IInv
  <2>2. \A r \in Requests : lock[ReservationRow(r)] = v => reservations'[r] = reservations[r]
    BY <1>1
  <2> QED
    BY <2>1, <2>2, RankUndisturbed
<1>2. Ranked(w)'
  <2>1. \A row \in Rows : lock'[row] # w
    BY NoWorkerAssumption DEF End
  <2> QED
    BY <2>1, RowsOfTables DEF Ranked
<1> QED
  BY <1>1, <1>2

\* A statement raises its transaction's rank and takes one free row of that rank.
LEMMA StatementRanked ==
    ASSUME IInv, \A v \in Workers : Ranked(v), NEW w \in Workers, UnchangedTables,
           NEW u, txn' = [txn EXCEPT ![w] = u], Rank(u.at) >= RankOf(w),
           lock' = lock \/ \E row : TakesAt(w, row, Rank(u.at))
    PROVE  \A v \in Workers : Ranked(v)'
<1>1. txn'[w] = u /\ reservations' = reservations
  BY DEF IInv, TypeOK, UnchangedTables
<1>2. TakesAtMostOne(w)
  BY DEF TakesAtMostOne, TakesAt
<1>3. ASSUME NEW v \in Workers, v # w PROVE Ranked(v)'
  <2>1. txn'[v] = txn[v]
    BY <1>3 DEF IInv, TypeOK
  <2>2. \A row \in Rows : lock'[row] = v <=> lock[row] = v
    BY <1>2, <1>3, Taken DEF IInv, TakesAtMostOne
  <2> QED
    BY <1>1, <2>1, <2>2, RankUndisturbed
<1>4. Ranked(w)'
  <2>1. Ranked(w) /\ RankOf(w) \in 0..4 /\ Rank(u.at) \in 0..4 /\ Rank(u.at) >= RankOf(w)
    BY Ranks DEF RankOf
  <2>2. RankOf(w)' = Rank(u.at)
    BY <1>1 DEF RankOf
  <2>3. CASE lock' = lock
    BY <1>1, <2>1, <2>2, <2>3 DEF Ranked
  <2>4. ASSUME NEW row, TakesAt(w, row, Rank(u.at))
        PROVE  Ranked(w)'
    <3>1. \A other \in Rows : other # row => lock'[other] = lock[other]
      BY <2>4, Taken DEF IInv, TakesAt
    <3> QED
      BY <1>1, <2>1, <2>2, <2>4, <3>1, RowsOfTables DEF Ranked, TakesAt
  <2> QED
    BY <2>3, <2>4
<1> QED
  BY <1>3, <1>4

\* Which operation is at a place, and with which key.
LEMMA PlaceOfCall ==
    ASSUME NEW t \in Transaction, CallOK(t)
    PROVE  /\ t.at = "lookup" => t.key \in Requests
           /\ t.at = "insertTopup" => t.key \in Fingerprints
           /\ t.at = "insertReservation" => t.key \in Requests
<1>1. CASE t.op = "none"
  BY <1>1 DEF CallOK, Idle, NewCall
<1>2. CASE t.op = "reserve"
  BY <1>2 DEF CallOK
<1>3. CASE t.op = "finalize"
  BY <1>3 DEF CallOK
<1>4. CASE t.op = "credit"
  BY <1>4 DEF CallOK
<1>5. CASE t.op = "topup"
  BY <1>5 DEF CallOK
<1> QED
  BY <1>1, <1>2, <1>3, <1>4, <1>5 DEF Transaction

\* Every step keeps the ranks.
LEMMA RankStep ==
    ASSUME IInv, \A v \in Workers : Ranked(v), Next
    PROVE  \A v \in Workers : Ranked(v)'
<1> PICK w \in Workers : BeginCall(w) \/ Statement(w) \/ Commit(w) \/ Rollback(w)
  BY DEF Next
<1>1. /\ txn[w] \in Transaction /\ CallOK(txn[w]) /\ ReadsFresh(w) /\ Ranked(w)
      /\ TypeOK
  BY Mover
<1>2. CASE BeginCall(w)
  <2>1. /\ UnchangedTables /\ lock' = lock /\ txn[w] = Idle
        /\ \A v \in Workers : v # w => txn'[v] = txn[v]
    BY <1>1, <1>2 DEF TypeOK, BeginCall, BeginReserve, BeginFinalize, BeginCredit, BeginTopup,
                      Begin
  <2>2. RankOf(w) = 0
    BY <2>1 DEF RankOf, Rank, Idle, NewCall
  <2>3. Ranked(w)'
    BY <1>1, <2>1, <2>2 DEF Ranked
  <2>4. ASSUME NEW v \in Workers, v # w PROVE Ranked(v)'
    BY <2>1, <2>4, RankUndisturbed DEF UnchangedTables
  <2> QED
    BY <2>3, <2>4
<1>3. ASSUME End(w), UnchangedTables
      PROVE  \A v \in Workers : Ranked(v)'
  BY <1>3, EndRanked DEF UnchangedTables
<1>4. CASE Statement(w)
  <2>1. UnchangedTables
    BY <1>4 DEF Statement, LookupFound, LookupMissed, UpsertConsumer, InsertTopup,
                LockBalance, InsertReservation
  <2>2. CASE LookupFound(w)
    <3> DEFINE u == [txn[w] EXCEPT !.at = "lockBalance", !.row = reservations[txn[w].key]]
               row == ReservationRow(txn[w].key)
    <3>1. /\ txn[w].at = "lookup" /\ Visible(txn[w]) /\ Free(row) /\ Take(w, row)
          /\ txn' = [txn EXCEPT ![w] = u]
      BY <2>2 DEF LookupFound
    <3>2. u.at = "lockBalance"
      BY <1>1 DEF Transaction
    <3>3. Rank(u.at) = 2 /\ Rank(u.at) >= RankOf(w)
      BY <3>1, <3>2 DEF RankOf, Rank
    <3>4. txn[w].key \in Requests /\ reservations[txn[w].key] # NoRow
      BY <1>1, <3>1, PlaceOfCall DEF Visible
    <3> HIDE DEF u
    <3>5. TakesAt(w, row, Rank(u.at))
      BY <3>1, <3>3, <3>4, RowNames, RowsOfTables DEF TakesAt
    <3> HIDE DEF row
    <3> QED
      BY <2>1, <3>1, <3>3, <3>5, StatementRanked
  <2>3. CASE LookupMissed(w)
    <3>1. CASE txn[w].op = "reserve"
      <4> DEFINE u == [txn[w] EXCEPT !.at = "lockBalance"]
      <4>1. txn' = [txn EXCEPT ![w] = u] /\ lock' = lock /\ txn[w].at = "lookup"
        BY <2>3, <3>1 DEF LookupMissed, GoTo
      <4>2. u.at = "lockBalance"
        BY <1>1 DEF Transaction
      <4>3. Rank(u.at) = 2 /\ Rank(u.at) >= RankOf(w)
        BY <4>1, <4>2 DEF RankOf, Rank
      <4> HIDE DEF u
      <4> QED
        BY <2>1, <4>1, <4>3, StatementRanked
    <3>2. CASE txn[w].op # "reserve"
      BY <1>3, <2>1, <2>3, <3>2 DEF LookupMissed
    <3> QED
      BY <3>1, <3>2
  <2>4. CASE UpsertConsumer(w)
    <3> DEFINE u == [txn[w] EXCEPT !.at = "insertTopup"]
               row == ConsumerRow(txn[w].consumer)
    <3>1. /\ txn[w].at = "upsertConsumer" /\ Free(row) /\ Take(w, row)
          /\ txn' = [txn EXCEPT ![w] = u]
      BY <2>4 DEF UpsertConsumer, GoTo
    <3>2. u.at = "insertTopup"
      BY <1>1 DEF Transaction
    <3>3. Rank(u.at) = 1 /\ Rank(u.at) >= RankOf(w)
      BY <3>1, <3>2 DEF RankOf, Rank
    <3>4. txn[w].consumer \in Consumers
      BY <3>1, Arguments, Mover
    <3> HIDE DEF u
    <3>5. TakesAt(w, row, Rank(u.at))
      <4>1. \A x : row # BalanceRow(x) /\ row # ReservationRow(x) /\ row # TopupRow(x)
        BY RowNames
      <4> QED
        BY <3>1, <3>3, <3>4, <4>1, RowsOfTables DEF TakesAt
    <3> HIDE DEF row
    <3> QED
      BY <2>1, <3>1, <3>3, <3>5, StatementRanked
  <2>5. CASE InsertTopup(w)
    <3> DEFINE u == [txn[w] EXCEPT !.at = "lockBalance"]
               row == TopupRow(txn[w].key)
    <3>1. /\ txn[w].at = "insertTopup" /\ txn' = [txn EXCEPT ![w] = u]
          /\ lock' = lock \/ (Free(row) /\ Take(w, row))
      BY <2>5 DEF InsertTopup, GoTo
    <3>2. u.at = "lockBalance"
      BY <1>1 DEF Transaction
    <3>3. Rank(u.at) = 2 /\ Rank(u.at) >= RankOf(w)
      BY <3>1, <3>2 DEF RankOf, Rank
    <3>4. txn[w].key \in Fingerprints
      BY <1>1, <3>1, PlaceOfCall
    <3> HIDE DEF u
    <3>5. lock' = lock \/ TakesAt(w, row, Rank(u.at))
      BY <3>1, <3>3, <3>4, RowNames, RowsOfTables DEF TakesAt
    <3> HIDE DEF row
    <3> QED
      BY <2>1, <3>1, <3>3, <3>5, StatementRanked
  <2>6. CASE LockBalance(w)
    <3>1. CASE End(w)
      BY <1>3, <2>1, <3>1
    <3>2. CASE ~End(w)
      <4> DEFINE place == IF IsNewReserve(txn[w]) THEN "insertReservation" ELSE "commit"
                 u == [txn[w] EXCEPT !.balance = Promise!BalanceOf(txn[w].consumer),
                                     !.at = place]
                 row == BalanceRow(txn[w].consumer)
      <4>1. /\ txn[w].at = "lockBalance" /\ Free(row) /\ Take(w, row)
            /\ txn' = [txn EXCEPT ![w] = u]
        BY <2>6, <3>2 DEF LockBalance
      <4>2. u.at = place
        BY <1>1 DEF Transaction
      <4>3. Rank(u.at) >= 3 /\ Rank(u.at) >= RankOf(w)
        BY <4>1, <4>2 DEF RankOf, Rank
      <4>4. txn[w].consumer \in Consumers
        BY <4>1, Arguments, Mover
      <4> HIDE DEF u
      <4> QED
        <5>1. TakesAt(w, row, Rank(u.at))
          BY <4>1, <4>3, <4>4, RowNames, RowsOfTables, Ranks DEF TakesAt
        <5> HIDE DEF row
        <5> QED
          BY <2>1, <4>1, <4>3, <5>1, StatementRanked
    <3> QED
      BY <3>1, <3>2
  <2>7. CASE InsertReservation(w)
    <3>1. CASE End(w)
      BY <1>3, <2>1, <3>1
    <3>2. CASE ~End(w)
      <4> DEFINE u == [txn[w] EXCEPT !.at = "commit"]
                 row == ReservationRow(txn[w].key)
      <4>1. /\ txn[w].at = "insertReservation" /\ Free(row) /\ Take(w, row)
            /\ txn' = [txn EXCEPT ![w] = u]
        BY <2>7, <3>2 DEF InsertReservation, GoTo
      <4>2. u.at = "commit"
        BY <1>1 DEF Transaction
      <4>3. Rank(u.at) = 4 /\ Rank(u.at) >= RankOf(w)
        BY <4>1, <4>2 DEF RankOf, Rank
      <4>4. txn[w].key \in Requests
        BY <1>1, <4>1, PlaceOfCall
      <4> HIDE DEF u
      <4>5. TakesAt(w, row, Rank(u.at))
        BY <4>1, <4>3, <4>4, RowNames, RowsOfTables DEF TakesAt
      <4> HIDE DEF row
      <4> QED
        BY <2>1, <4>1, <4>3, <4>5, StatementRanked
    <3> QED
      BY <3>1, <3>2
  <2> QED
    BY <1>4, <2>2, <2>3, <2>4, <2>5, <2>6, <2>7 DEF Statement
<1>5. CASE Rollback(w)
  BY <1>3, <1>5 DEF Rollback
<1>6. CASE Commit(w)
  <2>1. End(w)
    BY <1>6 DEF Commit, CommitReserve, CommitFinalize, CommitCredit, CommitTopup, CommitRepeat
  <2>2. \A r \in Requests : lock[ReservationRow(r)] # w => reservations'[r] = reservations[r]
    <3>1. CASE CommitReserve(w)
      <4>1. lock[ReservationRow(txn[w].key)] = w
        BY <1>1, <3>1 DEF CommitReserve, ReadsFresh
      <4> QED
        BY <1>1, <3>1, <4>1 DEF CommitReserve, TypeOK, Promise!TypeOK
    <3>2. CASE CommitFinalize(w)
      <4>1. lock[ReservationRow(txn[w].key)] = w
        BY <1>1, <3>2 DEF CommitFinalize, ReadsFresh, CallOK
      <4> QED
        BY <1>1, <3>2, <4>1 DEF CommitFinalize, TypeOK, Promise!TypeOK
    <3>3. CASE CommitCredit(w) \/ CommitTopup(w) \/ CommitRepeat(w)
      BY <3>3 DEF CommitCredit, CommitTopup, CommitRepeat, UnchangedTables
    <3> QED
      BY <1>6, <3>1, <3>2, <3>3 DEF Commit
  <2> QED
    BY <2>1, <2>2, EndRanked
<1> QED
  BY <1>2, <1>4, <1>5, <1>6

\* Who waits is at a lower rank than who it waits for.
LEMMA WaitsUpwards ==
    ASSUME IInv, \A x \in Workers : Ranked(x),
           NEW w \in Workers, NEW v \in Workers, WaitsFor(w, v)
    PROVE  RankOf(w) < RankOf(v)
<1> DEFINE t == txn[w]
<1>1. /\ t \in Transaction /\ CallOK(t) /\ Ranked(v) /\ TypeOK
      /\ RankOf(v) \in 0..4
  BY Mover, Ranks DEF RankOf
<1> PICK row \in NextRow(w) : lock[row] = v
  BY DEF WaitsFor
<1>2. CASE t.at = "lookup" /\ Visible(t)
  <2>1. row = ReservationRow(t.key) /\ t.key \in Requests /\ RankOf(w) = 0
    BY <1>1, <1>2, PlaceOfCall DEF NextRow, RankOf, Rank
  <2> QED
    BY <1>1, <2>1 DEF Ranked
<1>3. CASE t.at = "upsertConsumer"
  <2>1. row = ConsumerRow(t.consumer) /\ t.consumer \in Consumers /\ RankOf(w) = 0
    BY <1>1, <1>3, Arguments, Mover DEF NextRow, RankOf, Rank
  <2> QED
    BY <1>1, <2>1 DEF Ranked
<1>4. CASE t.at = "insertTopup" /\ t.key \notin topups
  <2>1. row = TopupRow(t.key) /\ t.key \in Fingerprints /\ RankOf(w) = 1
    BY <1>1, <1>4, PlaceOfCall DEF NextRow, RankOf, Rank
  <2> QED
    BY <1>1, <2>1 DEF Ranked
<1>5. CASE t.at = "lockBalance"
  <2>1. row = BalanceRow(t.consumer) /\ t.consumer \in Consumers /\ RankOf(w) = 2
    BY <1>1, <1>5, Arguments, Mover DEF NextRow, RankOf, Rank
  <2> QED
    BY <1>1, <2>1 DEF Ranked
<1>6. CASE t.at = "insertReservation" /\ reservations[t.key] = NoRow
  <2>1. row = ReservationRow(t.key) /\ t.key \in Requests /\ RankOf(w) = 3
    BY <1>1, <1>6, PlaceOfCall DEF NextRow, RankOf, Rank
  <2> QED
    BY <1>1, <1>6, <2>1 DEF Ranked
<1> QED
  BY <1>2, <1>3, <1>4, <1>5, <1>6 DEF NextRow

(***************************************************************************)
(* No set of transactions, of any size, waits only for each other: the     *)
(* ones at the highest rank in it wait for nobody in it.                   *)
(***************************************************************************)
THEOREM StoreNoDeadlock == Spec => []NoDeadlock
<1>1. Init => \A w \in Workers : Ranked(w)
  BY NoWorkerAssumption, RowsOfTables DEF Init, Ranked
<1>2. ASSUME IInv, \A w \in Workers : Ranked(w), [Next]_storeVars
      PROVE  (\A w \in Workers : Ranked(w))'
  <2>1. CASE Next
    BY <1>2, <2>1, RankStep
  <2>2. CASE UNCHANGED storeVars
    BY <1>2, <2>2 DEF storeVars, Ranked, RankOf
  <2> QED
    BY <1>2, <2>1, <2>2
<1>3. ASSUME IInv, \A w \in Workers : Ranked(w)
      PROVE  NoDeadlock
  <2> SUFFICES ASSUME NEW group \in (SUBSET Workers) \ {{}}
               PROVE  \E w \in group : \A v \in group : ~WaitsFor(w, v)
    BY DEF NoDeadlock
  <2>1. \A w \in group : w \in Workers /\ RankOf(w) \in 0..4
    BY Ranks DEF RankOf
  <2>2. \E w \in group : \A v \in group : RankOf(v) <= RankOf(w)
    <3>1. CASE \E w \in group : RankOf(w) = 4
      BY <2>1, <3>1
    <3>2. CASE (\A w \in group : RankOf(w) < 4) /\ \E w \in group : RankOf(w) = 3
      BY <2>1, <3>2
    <3>3. CASE (\A w \in group : RankOf(w) < 3) /\ \E w \in group : RankOf(w) = 2
      BY <2>1, <3>3
    <3>4. CASE (\A w \in group : RankOf(w) < 2) /\ \E w \in group : RankOf(w) = 1
      BY <2>1, <3>4
    <3>5. CASE \A w \in group : RankOf(w) < 1
      <4> PICK w : w \in group
        OBVIOUS
      <4>2. \A v \in group : RankOf(v) <= RankOf(w)
        BY <2>1, <3>5
      <4> QED
        BY <4>2
    <3> QED
      BY <2>1, <3>1, <3>2, <3>3, <3>4, <3>5
  <2> PICK w \in group : \A v \in group : RankOf(v) <= RankOf(w)
    BY <2>2
  <2>3. \A v \in group : ~WaitsFor(w, v)
    BY <1>3, <2>1, WaitsUpwards
  <2> QED
    BY <2>3
<1>4. Spec => []IInv
  BY StoreInvariant DEF IInv
<1> QED
  BY <1>1, <1>2, <1>3, <1>4, PTL DEF Spec

=============================================================================

--------------------------- MODULE AccountsProofs ---------------------------
(***************************************************************************)
(* The invariants of Accounts, for any number of calls, consumers, keys    *)
(* and payments, and with every fault.                                     *)
(*                                                                         *)
(* The tables only grow: keys are added and revoked, never taken back, and *)
(* payments stay settled and recorded.  So what a step of one call has to  *)
(* show is about that call and the rows it writes, and CallStep gives the  *)
(* rest.                                                                   *)
(***************************************************************************)
EXTENDS Accounts, TLAPS

\* What is proved of the store; its definitions are those of Store.
Proofs == INSTANCE PrepaidLedgerProofs WITH
    Requests <- {}, Fingerprints <- Payments, Charges <- {},
    PaymentOf <- [f \in Payments |-> PaymentOf[f]],
    Amounts <- {PaymentOf[d].amount : d \in Deposits},
    reservations <- [r \in {} |-> NoRow]

Revoked(ks, k) == ks[k] # NoRow /\ ks[k].status = "revoked"

\* What a call knows at each place.
InPlace(h) ==
    /\ h.at \in {"authorize", "revoke"} => h.key \in Keys
    /\ h.at \in {"sign", "settle", "record", "lookup", "revoke", "upsert", "credit"} =>
           h.consumer \in Consumers
    /\ h.at \in {"sign", "settle", "record", "lookup"} => h.op = "topup"
    /\ h.at = "credit" => h.op = "deposit" /\ h.payment \in Deposits
    /\ h.at = "authorize" => h.op = "selfRotate"
    /\ h.at = "revoke" => h.op \in {"revoke", "rotate", "selfRotate"}
    /\ h.at \in {"settle", "record", "lookup"} => h.payment \in h.own
    /\ h.at # "done" => h.reply = "none"

\* A call that gives a new key for the old one: the formula of Replaces.
Successor(h) ==
    h.op \in {"rotate", "selfRotate"} /\ (h.at = "upsert" \/ h.reply = "ok")

\* What the tables and the facilitator must say for a call to be where it is.
Rooted(x, h, ks, paid, recorded) ==
    /\ Successor(h) => h.key \in Keys /\ Revoked(ks, h.key)
    /\ h.at = "record" => h.payment \in paid \/ x \in Trusting
    /\ h.op = "topup" /\ (h.at \in {"lookup", "upsert"} \/ h.reply = "ok") =>
           h.payment \in recorded

\* At most one of a command's payments is recorded, none while it asks for another.
OneCredit(h, recorded) ==
    /\ \A f, g \in h.own \intersect recorded : f = g
    /\ h.at \in {"sign", "settle", "record"} \/ h.reply = "payment" =>
           h.own \intersect recorded = {}

\* Every payment was sent by a command, and only payments that were are recorded.
Sent ==
    /\ \A x \in Calls : calls[x].own \subseteq signed
    /\ \A f \in signed : \E x \in Calls : f \in calls[x].own
    /\ topups \subseteq signed

Tables ==
    /\ Store!TypeOK
    /\ accounts \in [Consumers -> Keys \union {NoKey, NoRow}]
    /\ keys \in [Keys -> KeyRow \union {NoRow}]
    /\ PointersAreActive

IInv ==
    /\ TypeOK /\ PointersAreActive /\ OneSuccessor /\ Sent
    /\ topups \subseteq Accepted
    /\ \A x \in Calls :
           /\ InPlace(calls[x])
           /\ Rooted(x, calls[x], keys, settled, topups)
           /\ NotShared(x) => OneCredit(calls[x], topups)

\* The formula of RevokedForever.
KeysKept ==
    \A k \in Keys : keys[k] # NoRow =>
        /\ keys'[k] # NoRow /\ keys'[k].consumer = keys[k].consumer
        /\ keys[k].status = "revoked" => keys'[k] = keys[k]

Fine == IInv' /\ KeysKept

-----------------------------------------------------------------------------
LEMMA KeyRowNames ==
    \A row \in KeyRow : row # NoRow /\ row.consumer \in Consumers
                          /\ row.status \in {"active", "revoked"}
BY NoRowAssumption DEF KeyRow

\* What the invariant says of the call that moves.
LEMMA Mover ==
    ASSUME IInv, NEW x \in Calls
    PROVE  /\ calls[x] \in Call /\ InPlace(calls[x])
           /\ Rooted(x, calls[x], keys, settled, topups)
           /\ NotShared(x) => OneCredit(calls[x], topups)
           /\ Tables
BY DEF IInv, TypeOK, Tables

(***************************************************************************)
(* A step of one call: what it leaves in its own call, given tables that   *)
(* kept what they had.                                                     *)
(***************************************************************************)
LEMMA CallStep ==
    ASSUME IInv, NEW x \in Calls, NEW h \in Call,
           calls' = [calls EXCEPT ![x] = h],
           Tables', KeysKept, topups \subseteq topups',
           settled \subseteq settled', settled' \subseteq Payments,
           signed' = signed \union h.own, calls[x].own \subseteq h.own,
           \A f \in topups' \ topups : f \in h.own /\ (f \in settled' \/ x \in Trusting),
           InPlace(h), Rooted(x, h, keys', settled', topups'),
           Successor(h) =>
               (Successor(calls[x]) /\ h.key = calls[x].key) \/ ~Revoked(keys, h.key),
           (\A y \in Calls \ {x} : h.own \intersect calls[y].own = {}) =>
               OneCredit(h, topups')
    PROVE  Fine
<1>1. /\ calls \in [Calls -> Call] /\ signed \in SUBSET Payments /\ h.own \in SUBSET Payments
      /\ calls' \in [Calls -> Call] /\ calls'[x] = h
      /\ \A y \in Calls : y # x => calls'[y] = calls[y]
  BY DEF IInv, TypeOK, Call
<1>2. TypeOK'
  BY <1>1 DEF TypeOK, Tables
<1>3. PointersAreActive'
  BY DEF Tables
<1>4. Sent' /\ topups' \subseteq Accepted'
  <2>1. Sent'
    BY <1>1 DEF IInv, Sent
  <2>2. \A y \in Calls : calls[y].own \subseteq calls'[y].own
    BY <1>1
  <2>3. ASSUME NEW f \in topups'
        PROVE  f \in settled' \/ \E y \in Trusting : f \in calls'[y].own
    <3>1. CASE f \in topups
      <4>1. f \in settled \/ \E y \in Trusting : f \in calls[y].own
        BY <3>1 DEF IInv, Accepted
      <4> QED
        BY <2>2, <4>1, TrustingAssumption
    <3>2. CASE f \notin topups
      BY <1>1, <2>3, <3>2
    <3> QED
      BY <3>1, <3>2
  <2> QED
    BY <2>1, <2>3 DEF Accepted
<1>5. ASSUME NEW y \in Calls, y # x
      PROVE  /\ calls'[y] = calls[y] /\ InPlace(calls[y])
             /\ Rooted(y, calls[y], keys', settled', topups')
             /\ NotShared(y)' => OneCredit(calls[y], topups')
  <2>1. calls'[y] = calls[y] /\ InPlace(calls[y]) /\ Rooted(y, calls[y], keys, settled, topups)
        /\ (NotShared(y) => OneCredit(calls[y], topups))
    BY <1>1, <1>5 DEF IInv
  <2>2. Rooted(y, calls[y], keys', settled', topups')
    BY <2>1 DEF Rooted, Revoked, KeysKept
  <2>3. ASSUME NotShared(y)'
        PROVE  OneCredit(calls[y], topups')
    <3>1. \A z \in Calls \ {y} : calls[z].own \subseteq calls'[z].own
      BY <1>1
    <3>2. NotShared(y)
      BY <2>1, <2>3, <3>1 DEF NotShared
    <3>3. calls[y].own \intersect h.own = {}
      BY <1>1, <1>5, <2>1, <2>3 DEF NotShared
    <3>4. calls[y].own \intersect topups' = calls[y].own \intersect topups
      BY <3>3
    <3> QED
      BY <2>1, <3>2, <3>4 DEF OneCredit
  <2> QED
    BY <2>1, <2>2, <2>3
<1>6. ASSUME NotShared(x)'
      PROVE  OneCredit(h, topups')
  BY <1>1, <1>6 DEF NotShared
<1>7. OneSuccessor'
  <2>1. ASSUME NEW y \in Calls, y # x, Successor(h), Successor(calls[y])
        PROVE  h.key # calls[y].key
    <3>1. Revoked(keys, calls[y].key) /\ calls[y].key \in Keys
      BY <2>1 DEF IInv, Rooted
    <3>2. CASE Successor(calls[x]) /\ h.key = calls[x].key
      BY <2>1, <3>2 DEF IInv, OneSuccessor, Replaces, Successor
    <3> QED
      BY <2>1, <3>1, <3>2
  <2>2. ASSUME NEW y \in Calls, NEW z \in Calls, y # x, z # x,
               Successor(calls[y]), Successor(calls[z]), calls[y].key = calls[z].key
        PROVE  y = z
    BY <2>2 DEF IInv, OneSuccessor, Replaces, Successor
  <2>3. \A y \in Calls : Replaces(y)' <=> Successor(calls'[y])
    BY DEF Replaces, Successor
  <2> QED
    BY <1>1, <2>1, <2>2, <2>3 DEF OneSuccessor
<1> QED
  BY <1>1, <1>2, <1>3, <1>4, <1>5, <1>6, <1>7 DEF Fine, IInv

\* Most steps leave the tables alone.
LEMMA QuietStep ==
    ASSUME IInv, NEW x \in Calls, NEW h \in Call,
           calls' = [calls EXCEPT ![x] = h], UnchangedTables,
           settled \subseteq settled', settled' \subseteq Payments,
           signed' = signed \union h.own, calls[x].own \subseteq h.own,
           InPlace(h), Rooted(x, h, keys, settled', topups),
           Successor(h) =>
               (Successor(calls[x]) /\ h.key = calls[x].key) \/ ~Revoked(keys, h.key),
           (\A y \in Calls \ {x} : h.own \intersect calls[y].own = {}) =>
               OneCredit(h, topups)
    PROVE  Fine
<1>1. balances' = balances /\ ledger' = ledger /\ topups' = topups
      /\ accounts' = accounts /\ keys' = keys
  BY DEF UnchangedTables, tableVars
<1>2. Tables'
  BY <1>1, Mover DEF Tables, Store!TypeOK, PointersAreActive
<1>3. KeysKept
  BY <1>1 DEF KeysKept
<1> QED
  BY <1>1, <1>2, <1>3, CallStep DEF IInv

-----------------------------------------------------------------------------
\* What the ledger's theorems assume of its constants holds of the ones used here.
LEMMA StoreConstants ==
    /\ {PaymentOf[d].amount : d \in Deposits} \subseteq Nat /\ {} \subseteq Int
    /\ [f \in Payments |-> PaymentOf[f]]
         \in [Payments -> [payer : Consumers, amount : Nat \ {0}]]
    /\ NoRow \notin Payments
    /\ NoRow \notin Int
    /\ NoRow \notin [consumer : Consumers, reserved : Nat, charged : Nat,
                     status : {"reserved", "finalized", "released"}]
<1>1. \A p \in Payments \union Deposits :
          PaymentOf[p].payer \in Consumers /\ PaymentOf[p].amount \in Nat \ {0}
  BY PaymentAssumption
<1> QED
  BY <1>1, PaymentAssumption, ReferenceAssumption, NoRowAssumption

\* The store as it is used here and the store of the theorems are one specification.
LEMMA SameStep ==
    ASSUME Store!Next
    PROVE  Proofs!Next
<1> USE DEF Store!Post, Proofs!Post, Store!NewEntry, Proofs!NewEntry,
            Store!BalanceOf, Proofs!BalanceOf
<1>1. ASSUME NEW f \in Payments, Store!Topup(f)
      PROVE  Proofs!Topup(f)
  BY <1>1 DEF Store!Topup, Proofs!Topup
<1>2. ASSUME NEW c \in Consumers, NEW amount \in {PaymentOf[d].amount : d \in Deposits},
             Store!Credit(c, amount)
      PROVE  Proofs!Credit(c, amount)
  BY <1>2 DEF Store!Credit, Proofs!Credit
<1> QED
  BY <1>1, <1>2 DEF Store!Next, Proofs!Next

\* The store keeps the types of its tables, by the ledger's theorem.
LEMMA StoreTypes ==
    ASSUME Store!TypeOK,
           \/ \E f \in Payments : Store!Topup(f)
           \/ \E c \in Consumers, d \in Deposits : Store!Credit(c, PaymentOf[d].amount)
    PROVE  Store!TypeOK'
<1>1. Store!Next
  BY DEF Store!Next
<1>2. Proofs!TypeOK /\ Proofs!Next
  BY <1>1, SameStep
     DEF Store!TypeOK, Proofs!TypeOK, Store!Entry, Proofs!Entry,
         Store!Reservation, Proofs!Reservation, Store!Statuses, Proofs!Statuses
<1>3. Proofs!TypeOK'
  BY <1>2, StoreConstants, Proofs!TypeStep
<1> QED
  BY <1>3 DEF Store!TypeOK, Proofs!TypeOK, Store!Entry, Proofs!Entry,
              Store!Reservation, Proofs!Reservation, Store!Statuses, Proofs!Statuses

\* Recording a payment adds it, and a row without a key for a new consumer.
LEMMA TopupKeeps ==
    ASSUME IInv, NEW x \in Calls, calls[x].payment \in Payments,
           calls[x].consumer \in Consumers, RecordsTopup(x)
    PROVE  Tables' /\ KeysKept /\ topups' = topups \union {calls[x].payment}
<1>1. Tables
  BY Mover
<1>2. keys' = keys /\ topups' = topups \union {calls[x].payment}
  BY DEF RecordsTopup, prepaidVars, Store!Topup
<1>3. Store!TypeOK'
  <2>1. CASE calls[x].payment \in topups
    BY <1>1, <2>1 DEF RecordsTopup, prepaidVars, Tables, Store!TypeOK
  <2>2. CASE calls[x].payment \notin topups
    BY <1>1, <2>2, StoreTypes DEF RecordsTopup, Tables
  <2> QED
    BY <2>1, <2>2
<1>4. accounts' \in [Consumers -> Keys \union {NoKey, NoRow}]
  BY <1>1 DEF RecordsTopup, Tables
<1>5. PointersAreActive'
  BY <1>1, <1>2, NoKeyAssumption DEF RecordsTopup, Tables, PointersAreActive
<1> QED
  BY <1>1, <1>2, <1>3, <1>4, <1>5 DEF Tables, KeysKept

\* Revoking takes one active key, and the pointer to it.
LEMMA RevokeKeeps ==
    ASSUME IInv, NEW x \in Calls, calls[x].key \in Keys, calls[x].consumer \in Consumers,
           IsActive(x), RevokesKey(x)
    PROVE  Tables' /\ KeysKept /\ topups' = topups /\ Revoked(keys', calls[x].key)
<1> DEFINE k == calls[x].key
           row == [keys[k] EXCEPT !.status = "revoked"]
<1>1. Tables /\ keys[k] \in KeyRow /\ keys[k].status = "active"
      /\ keys[k].consumer = calls[x].consumer
  BY Mover, NoRowAssumption DEF IsActive, Tables, KeyRow
<1>2. row \in KeyRow /\ row.consumer = keys[k].consumer /\ row.status = "revoked"
  BY <1>1 DEF KeyRow
<1>3. keys' = [keys EXCEPT ![k] = row]
  BY DEF RevokesKey
<1>4. topups' = topups /\ Store!TypeOK'
  BY <1>1 DEF RevokesKey, prepaidVars, Tables, Store!TypeOK
<1> HIDE DEF row
<1>5. /\ keys' \in [Keys -> KeyRow \union {NoRow}] /\ keys'[k] = row
      /\ \A j \in Keys : j # k => keys'[j] = keys[j]
  BY <1>1, <1>2, <1>3 DEF Tables
<1>6. accounts' \in [Consumers -> Keys \union {NoKey, NoRow}]
  BY <1>1 DEF RevokesKey, Tables
<1>7. PointersAreActive'
  <2>1. ASSUME NEW c \in Consumers, accounts'[c] \in Keys
        PROVE  keys'[accounts'[c]] = [consumer |-> c, status |-> "active"]
    <3>1. accounts'[c] = accounts[c] /\ (c = calls[x].consumer => accounts[c] # k)
      BY <1>1, <2>1, NoKeyAssumption DEF RevokesKey, Tables
    <3>2. keys[accounts[c]] = [consumer |-> c, status |-> "active"]
      BY <1>1, <2>1, <3>1 DEF Tables, PointersAreActive
    <3>3. accounts[c] # k
      BY <1>1, <3>1, <3>2
    <3> QED
      BY <1>5, <2>1, <3>1, <3>2, <3>3
  <2> QED
    BY <2>1 DEF PointersAreActive
<1>8. KeysKept
  BY <1>1, <1>2, <1>5, KeyRowNames DEF KeysKept
<1> QED
  BY <1>2, <1>4, <1>5, <1>6, <1>7, <1>8, KeyRowNames DEF Tables, Revoked

\* A fresh key takes the place of whatever the consumer had.
LEMMA UpsertKeeps ==
    ASSUME IInv, NEW x \in Calls, calls[x].consumer \in Consumers,
           NEW k \in Keys, Fresh(k), UpsertsKey(x, k)
    PROVE  Tables' /\ KeysKept /\ topups' = topups
<1> DEFINE row == [consumer |-> calls[x].consumer, status |-> "active"]
<1>1. Tables /\ row \in KeyRow /\ keys[k] = NoRow
  BY Mover DEF KeyRow, Fresh
<1>2. topups' = topups /\ Store!TypeOK'
  BY <1>1 DEF UpsertsKey, prepaidVars, Tables, Store!TypeOK
<1>3. keys' = [keys EXCEPT ![k] = row] /\ accounts' = [accounts EXCEPT ![calls[x].consumer] = k]
  BY DEF UpsertsKey
<1>4. /\ keys' \in [Keys -> KeyRow \union {NoRow}]
      /\ accounts' \in [Consumers -> Keys \union {NoKey, NoRow}]
  BY <1>1, <1>3 DEF Tables
<1>5. PointersAreActive'
  <2>1. ASSUME NEW c \in Consumers, accounts'[c] \in Keys
        PROVE  keys'[accounts'[c]] = [consumer |-> c, status |-> "active"]
    <3>1. CASE c = calls[x].consumer
      BY <1>1, <1>3, <3>1 DEF Tables
    <3>2. CASE c # calls[x].consumer
      <4>1. accounts'[c] = accounts[c]
        BY <1>1, <1>3, <3>2 DEF Tables
      <4>2. keys[accounts[c]] = [consumer |-> c, status |-> "active"]
        BY <1>1, <2>1, <4>1 DEF Tables, PointersAreActive
      <4>3. accounts[c] # k
        BY <1>1, <4>2, NoRowAssumption
      <4> QED
        BY <1>1, <1>3, <2>1, <4>1, <4>2, <4>3 DEF Tables
    <3> QED
      BY <3>1, <3>2
  <2> QED
    BY <2>1 DEF PointersAreActive
<1>6. KeysKept
  BY <1>1, <1>3 DEF KeysKept, Tables
<1> QED
  BY <1>2, <1>4, <1>5, <1>6 DEF Tables

\* A deposit moves the balance only.
LEMMA DepositKeeps ==
    ASSUME IInv, NEW x \in Calls, calls[x].consumer \in Consumers,
           calls[x].payment \in Deposits, CreditsDeposit(x)
    PROVE  Tables' /\ KeysKept /\ topups' = topups
<1>1. Tables
  BY Mover
<1>2. Store!TypeOK'
  BY <1>1, StoreTypes DEF CreditsDeposit, Tables
<1>3. keys' = keys /\ accounts' = accounts /\ topups' = topups
  BY DEF CreditsDeposit, Store!Credit
<1> QED
  BY <1>1, <1>2, <1>3 DEF Tables, PointersAreActive, KeysKept

-----------------------------------------------------------------------------
\* A call that starts, with what it is given.
LEMMA BeginStep ==
    ASSUME IInv, NEW x \in Calls, BeginCall(x)
    PROVE  Fine
<1>1. calls[x] = Idle /\ UnchangedTables /\ UnchangedPayments
      /\ topups \subseteq signed /\ settled \subseteq Payments /\ signed \subseteq Payments
  BY DEF BeginCall, BeginCreate, BeginRevoke, BeginSelfRotate, BeginDeposit, BeginTopup,
         ResendTopup, Begin, IInv, Sent, TypeOK
<1>2. ASSUME NEW h \in Call, calls' = [calls EXCEPT ![x] = h], InPlace(h), h.own \subseteq signed,
             h.op # "topup" \/ h.at \notin {"lookup", "upsert"},
             h.op \in {"rotate", "selfRotate"} => h.at # "upsert",
             h.reply = "none", h.at # "record",
             h.own = {} \/ \E f \in signed : h.own = {f}
      PROVE  Fine
  <2>1. Rooted(x, h, keys, settled', topups) /\ ~Successor(h)
    BY <1>2 DEF Rooted, Successor
  <2>2. ASSUME \A y \in Calls \ {x} : h.own \intersect calls[y].own = {}
        PROVE  OneCredit(h, topups)
    <3>1. ASSUME NEW f \in signed, h.own = {f}
          PROVE  FALSE
      <4>1. PICK y \in Calls : f \in calls[y].own
        BY DEF IInv, Sent
      <4>2. y # x
        BY <1>1, <4>1 DEF Idle
      <4> QED
        BY <2>2, <3>1, <4>1, <4>2
    <3>2. h.own = {}
      BY <1>2, <3>1
    <3> QED
      BY <3>2 DEF OneCredit
  <2>3. calls[x].own \subseteq h.own
    BY <1>1 DEF Idle
  <2>4. signed' = signed \union h.own /\ settled' = settled
    BY <1>1, <1>2 DEF UnchangedPayments
  <2> QED
    BY <1>1, <1>2, <2>1, <2>2, <2>3, <2>4, QuietStep
<1>3. /\ Idle \in Call
      /\ \A p \in Payments \union Deposits : PaymentOf[p].payer \in Consumers
  BY PaymentAssumption DEF Idle, Call
<1>4. CASE BeginCreate(x)
  <2>1. PICK c \in Consumers :
            calls' = [calls EXCEPT ![x] = [Idle EXCEPT !.op = "create", !.at = "upsert",
                                                       !.consumer = c]]
    BY <1>4 DEF BeginCreate, Begin
  <2> DEFINE h == [Idle EXCEPT !.op = "create", !.at = "upsert", !.consumer = c]
  <2>2. h \in Call /\ h.op = "create" /\ h.at = "upsert" /\ h.consumer = c /\ h.own = {}
        /\ h.reply = "none"
    BY DEF Idle, Call
  <2>3. InPlace(h)
    BY <2>2 DEF InPlace
  <2> HIDE DEF h
  <2> QED
    BY <1>2, <2>1, <2>2, <2>3 DEF h
<1>5. CASE BeginRevoke(x)
  <2>1. PICK c \in Consumers, k \in Keys, op \in {"revoke", "rotate"} :
            calls' = [calls EXCEPT ![x] = [Idle EXCEPT !.op = op, !.at = "revoke",
                                                       !.consumer = c, !.key = k]]
    BY <1>5 DEF BeginRevoke, Begin
  <2> DEFINE h == [Idle EXCEPT !.op = op, !.at = "revoke", !.consumer = c, !.key = k]
  <2>2. h \in Call /\ h.op = op /\ h.at = "revoke" /\ h.consumer = c /\ h.own = {}
        /\ h.reply = "none" /\ h.key = k
    BY DEF Idle, Call
  <2>3. InPlace(h)
    BY <2>2 DEF InPlace
  <2> HIDE DEF h
  <2> QED
    BY <1>2, <2>1, <2>2, <2>3 DEF h
<1>6. CASE BeginSelfRotate(x)
  <2>1. PICK k \in Keys :
            calls' = [calls EXCEPT ![x] = [Idle EXCEPT !.op = "selfRotate",
                                                       !.at = "authorize", !.key = k]]
    BY <1>6 DEF BeginSelfRotate, Begin
  <2> DEFINE h == [Idle EXCEPT !.op = "selfRotate", !.at = "authorize", !.key = k]
  <2>2. h \in Call /\ h.op = "selfRotate" /\ h.at = "authorize" /\ h.own = {}
        /\ h.reply = "none" /\ h.key = k
    BY DEF Idle, Call
  <2>3. InPlace(h)
    BY <2>2 DEF InPlace
  <2> HIDE DEF h
  <2> QED
    BY <1>2, <2>1, <2>2, <2>3 DEF h
<1>7. CASE BeginDeposit(x)
  <2>1. PICK d \in Deposits :
            calls' = [calls EXCEPT ![x] = [Idle EXCEPT !.op = "deposit", !.at = "credit",
                                     !.consumer = PaymentOf[d].payer, !.payment = d]]
    BY <1>7 DEF BeginDeposit, Begin
  <2> DEFINE h == [Idle EXCEPT !.op = "deposit", !.at = "credit",
                               !.consumer = PaymentOf[d].payer, !.payment = d]
  <2>2. h \in Call /\ h.op = "deposit" /\ h.at = "credit" /\ h.own = {}
        /\ h.reply = "none" /\ h.consumer \in Consumers /\ h.payment = d
    BY <1>3 DEF Idle, Call
  <2>3. InPlace(h)
    BY <2>2 DEF InPlace
  <2> HIDE DEF h
  <2> QED
    BY <1>2, <2>1, <2>2, <2>3 DEF h
<1>8. CASE BeginTopup(x)
  <2>1. PICK c \in Consumers :
            calls' = [calls EXCEPT ![x] = [Idle EXCEPT !.op = "topup", !.at = "sign",
                                                       !.consumer = c, !.attempts = 1]]
    BY <1>8 DEF BeginTopup, Begin
  <2> DEFINE h == [Idle EXCEPT !.op = "topup", !.at = "sign", !.consumer = c,
                               !.attempts = 1]
  <2>2. h \in Call /\ h.op = "topup" /\ h.at = "sign" /\ h.own = {}
        /\ h.reply = "none" /\ h.consumer = c
    BY DEF Idle, Call
  <2>3. InPlace(h)
    BY <2>2 DEF InPlace
  <2> HIDE DEF h
  <2> QED
    BY <1>2, <2>1, <2>2, <2>3 DEF h
<1>9. CASE ResendTopup(x)
  <2>1. PICK f \in signed :
            calls' = [calls EXCEPT ![x] = [Idle EXCEPT !.op = "topup", !.at = "settle",
                           !.attempts = 1, !.consumer = PaymentOf[f].payer,
                           !.payment = f, !.own = {f}]]
    BY <1>9 DEF ResendTopup, Begin
  <2> DEFINE h == [Idle EXCEPT !.op = "topup", !.at = "settle", !.attempts = 1,
                               !.consumer = PaymentOf[f].payer,
                               !.payment = f, !.own = {f}]
  <2>2. h \in Call /\ h.op = "topup" /\ h.at = "settle" /\ h.own = {f}
        /\ h.reply = "none" /\ h.consumer \in Consumers /\ h.payment = f
    BY <1>1, <1>3 DEF Idle, Call
  <2>3. InPlace(h)
    BY <2>2 DEF InPlace
  <2> HIDE DEF h
  <2> QED
    BY <1>2, <2>1, <2>2, <2>3 DEF h
<1> QED
  BY <1>4, <1>5, <1>6, <1>7, <1>8, <1>9 DEF BeginCall

-----------------------------------------------------------------------------
\* A call goes on to another place, or ends with a reply.
Ended(c, place, reply) == [c EXCEPT !.at = place, !.reply = reply]
Moves(x, place, reply) == calls' = [calls EXCEPT ![x] = Ended(calls[x], place, reply)]

\* What a store call may have recorded for the call it was made by.
Records(x) ==
    \/ topups' = topups
    \/ calls[x].at = "record" /\ topups' = topups \union {calls[x].payment}

\* Goto and Finish in one form.
LEMMA MoveForms ==
    ASSUME IInv, NEW x \in Calls
    PROVE  /\ \A reply : Finish(x, reply) => Moves(x, "done", reply)
           /\ \A place : Goto(x, place) /\ calls[x].at # "done" => Moves(x, place, "none")
<1>1. calls[x] \in Call /\ InPlace(calls[x])
  BY Mover
<1>2. ASSUME NEW reply, Finish(x, reply)
      PROVE  Moves(x, "done", reply)
  BY <1>1, <1>2 DEF Finish, Moves, Ended
<1>3. ASSUME NEW place, Goto(x, place), calls[x].at # "done"
      PROVE  Moves(x, place, "none")
  <2>1. calls[x].reply = "none"
    BY <1>1, <1>3 DEF InPlace
  <2>2. [calls[x] EXCEPT !.at = place] = [calls[x] EXCEPT !.at = place, !.reply = "none"]
    BY <1>1, <2>1 DEF Call
  <2> QED
    BY <1>3, <2>2 DEF Goto, Moves, Ended
<1> QED
  BY <1>2, <1>3

\* A call that has ended is a call that differs in its place and its reply.
LEMMA CallEnds ==
    ASSUME NEW c \in Call, NEW place \in {"done", "dead"},
           NEW reply \in {"none", "ok", "payment", "error"},
           NEW h, h = Ended(c, place, reply)
    PROVE  /\ h \in Call /\ h.at = place /\ h.reply = reply /\ h.own = c.own
           /\ h.op = c.op /\ h.payment = c.payment /\ h.key = c.key
<1> DEFINE g == [c EXCEPT !.at = place]
<1>1. g \in Call
  BY DEF Call
<1>2. [g EXCEPT !.reply = reply] \in Call
  <2> HIDE DEF g
  <2> QED
    BY <1>1 DEF Call
<1>3. h = [g EXCEPT !.reply = reply]
  BY DEF Call, Ended
<1>4. h.at = place /\ h.reply = reply /\ h.own = c.own /\ h.op = c.op
      /\ h.payment = c.payment /\ h.key = c.key
  BY DEF Call, Ended
<1> QED
  BY <1>2, <1>3, <1>4

\* A call that ends, whatever it wrote at last.
LEMMA EndStep ==
    ASSUME IInv, NEW x \in Calls, NEW place \in {"done", "dead"},
           NEW reply \in {"none", "ok", "payment", "error"}, Moves(x, place, reply),
           Tables', KeysKept, UnchangedPayments, Records(x),
           place = "dead" => reply = "none",
           reply = "ok" => /\ calls[x].op \notin {"rotate", "selfRotate"}
                           /\ calls[x].op = "topup" => calls[x].payment \in topups,
           reply = "payment" => calls[x].at = "sign"
    PROVE  Fine
<1> DEFINE h == Ended(calls[x], place, reply)
<1>1. calls[x] \in Call /\ InPlace(calls[x]) /\ Rooted(x, calls[x], keys, settled, topups)
      /\ (NotShared(x) => OneCredit(calls[x], topups))
  BY Mover
<1>2. h \in Call /\ h.at = place /\ h.reply = reply /\ h.own = calls[x].own
      /\ h.op = calls[x].op /\ h.payment = calls[x].payment /\ h.key = calls[x].key
  <2>1. h = Ended(calls[x], place, reply)
    OBVIOUS
  <2> HIDE DEF h
  <2> QED
    BY <1>1, <2>1, CallEnds
<1>3. calls' = [calls EXCEPT ![x] = h]
  BY DEF Moves
<1> HIDE DEF h
<1>4. signed' = signed \union h.own /\ settled' = settled /\ settled \subseteq Payments
  BY <1>2 DEF UnchangedPayments, IInv, Sent, TypeOK
<1>5. /\ topups \subseteq topups'
      /\ \A f \in topups' \ topups : f \in h.own /\ (f \in settled' \/ x \in Trusting)
  BY <1>1, <1>2, <1>4 DEF Records, Rooted, InPlace
<1>6. InPlace(h) /\ ~Successor(h)
  BY <1>2 DEF InPlace, Successor
<1>7. Rooted(x, h, keys', settled', topups')
  BY <1>2, <1>5, <1>6 DEF Rooted
<1>8. ASSUME \A y \in Calls \ {x} : h.own \intersect calls[y].own = {}
      PROVE  OneCredit(h, topups')
  <2>1. OneCredit(calls[x], topups)
    BY <1>1, <1>2, <1>8 DEF NotShared
  <2>2. CASE topups' = topups
    BY <1>2, <2>1, <2>2 DEF OneCredit
  <2>3. CASE calls[x].at = "record" /\ topups' = topups \union {calls[x].payment}
    BY <1>2, <2>1, <2>3 DEF OneCredit
  <2> QED
    BY <2>2, <2>3 DEF Records
<1> QED
  BY <1>2, <1>3, <1>4, <1>5, <1>6, <1>7, <1>8, CallStep

\* Tables that nobody wrote keep what they had.
LEMMA QuietTables ==
    ASSUME IInv, UnchangedTables
    PROVE  Tables' /\ KeysKept /\ topups' = topups
BY DEF IInv, TypeOK, Tables, UnchangedTables, tableVars, Store!TypeOK, PointersAreActive, KeysKept

\* The client signs a payment nobody has seen.
LEMMA SignStep ==
    ASSUME IInv, NEW x \in Calls, SignPayment(x)
    PROVE  Fine
<1>1. PICK f \in Payments \ signed :
          /\ signed' = signed \union {f}
          /\ calls' = [calls EXCEPT ![x].at = "settle", ![x].payment = f,
                                    ![x].own = @ \union {f}, ![x].attempts = @ + 1]
  BY DEF SignPayment
<1>2. /\ calls[x] \in Call /\ InPlace(calls[x]) /\ calls[x].at = "sign"
      /\ calls[x].own \subseteq signed /\ settled' = settled /\ settled \subseteq Payments
      /\ topups \subseteq signed /\ UnchangedTables
      /\ (NotShared(x) => OneCredit(calls[x], topups))
  BY Mover DEF SignPayment, Wait, IInv, Sent, TypeOK
<1> DEFINE own == calls[x].own \union {f}
           n == calls[x].attempts + 1
           h == [calls[x] EXCEPT !.at = "settle", !.payment = f, !.own = own, !.attempts = n]
<1>3. own \in SUBSET Payments /\ n \in Nat
  BY <1>2 DEF Call
<1>4. calls' = [calls EXCEPT ![x] = h]
  BY <1>1, <1>2 DEF Call
<1>5. /\ h \in Call /\ h.at = "settle" /\ h.payment = f /\ h.own = own
      /\ h.op = calls[x].op /\ h.consumer = calls[x].consumer /\ h.reply = calls[x].reply
  <2> HIDE DEF own, n
  <2> QED
    BY <1>2, <1>3 DEF Call
<1> HIDE DEF h
<1>6. InPlace(h) /\ Rooted(x, h, keys, settled', topups) /\ ~Successor(h)
  BY <1>2, <1>5 DEF InPlace, Rooted, Successor
<1>7. ASSUME \A y \in Calls \ {x} : h.own \intersect calls[y].own = {}
      PROVE  OneCredit(h, topups)
  <2>1. OneCredit(calls[x], topups)
    BY <1>2, <1>5, <1>7 DEF NotShared
  <2> QED
    BY <1>2, <1>5, <2>1 DEF OneCredit
<1>8. signed' = signed \union h.own /\ calls[x].own \subseteq h.own
  BY <1>1, <1>2, <1>5
<1> QED
  BY <1>2, <1>4, <1>5, <1>6, <1>7, <1>8, QuietStep

\* The facilitator answers, or its answer is lost, or there is none to ask.
LEMMA SettleStep ==
    ASSUME IInv, NEW x \in Calls, PaymentSettles(x) \/ PaymentTrusted(x) \/ PaymentRefused(x)
    PROVE  Fine
<1>1. /\ calls[x] \in Call /\ InPlace(calls[x]) /\ calls[x].at = "settle" /\ UnchangedTables
      /\ (NotShared(x) => OneCredit(calls[x], topups))
      /\ settled \subseteq Payments /\ signed' = signed /\ calls[x].own \subseteq signed
  BY Mover DEF PaymentSettles, PaymentTrusted, PaymentRefused, Wait, UnchangedPayments,
               IInv, Sent, TypeOK
<1>2. PICK place \in {"record", "sign"} :
          /\ Goto(x, place)
          /\ settled' \in {settled, settled \union {calls[x].payment}}
          /\ place = "record" => calls[x].payment \in settled' \/ x \in Trusting
  BY DEF PaymentSettles, PaymentTrusted, PaymentRefused, UnchangedPayments
<1> DEFINE h == [calls[x] EXCEPT !.at = place]
<1>3. calls[x].payment \in Payments /\ calls[x].op = "topup" /\ calls[x].reply = "none"
      /\ calls[x].consumer \in Consumers
  BY <1>1 DEF InPlace, Call
<1>4. /\ h \in Call /\ h.at = place /\ h.own = calls[x].own /\ h.payment = calls[x].payment
      /\ h.op = "topup" /\ h.reply = "none" /\ h.consumer = calls[x].consumer
      /\ calls' = [calls EXCEPT ![x] = h]
  BY <1>1, <1>2, <1>3 DEF Call, Goto
<1> HIDE DEF h
<1>5. InPlace(h) /\ Rooted(x, h, keys, settled', topups) /\ ~Successor(h)
  BY <1>1, <1>2, <1>3, <1>4 DEF InPlace, Rooted, Successor
<1>6. ASSUME \A y \in Calls \ {x} : h.own \intersect calls[y].own = {}
      PROVE  OneCredit(h, topups)
  BY <1>1, <1>4, <1>6 DEF NotShared, OneCredit
<1>7. settled \subseteq settled' /\ settled' \subseteq Payments /\ signed' = signed \union h.own
  BY <1>1, <1>2, <1>3, <1>4
<1> QED
  BY <1>1, <1>4, <1>5, <1>6, <1>7, QuietStep

-----------------------------------------------------------------------------
\* A payment is recorded, and a key looked for.
LEMMA RecordStep ==
    ASSUME IInv, NEW x \in Calls, RecordTopup(x)
    PROVE  Fine
<1> DEFINE h == [calls[x] EXCEPT !.at = "lookup"]
<1>1. /\ calls[x] \in Call /\ InPlace(calls[x]) /\ calls[x].at = "record"
      /\ Rooted(x, calls[x], keys, settled, topups)
      /\ (NotShared(x) => OneCredit(calls[x], topups))
      /\ signed' = signed /\ settled' = settled /\ RecordsTopup(x)
      /\ calls[x].own \subseteq signed /\ settled \subseteq Payments
  BY Mover DEF RecordTopup, Wait, UnchangedPayments, IInv, Sent, TypeOK
<1>2. /\ calls[x].payment \in calls[x].own /\ calls[x].payment \in Payments
      /\ calls[x].payment \in settled \/ x \in Trusting
      /\ calls[x].consumer \in Consumers
      /\ calls[x].op = "topup" /\ calls[x].reply = "none"
  BY <1>1 DEF InPlace, Rooted, Call
<1>3. Tables' /\ KeysKept /\ topups' = topups \union {calls[x].payment}
  BY <1>1, <1>2, TopupKeeps
<1>4. /\ h \in Call /\ h.at = "lookup" /\ h.own = calls[x].own /\ h.payment = calls[x].payment
      /\ h.op = "topup" /\ h.reply = "none" /\ h.consumer = calls[x].consumer
      /\ calls' = [calls EXCEPT ![x] = h]
  BY <1>1, <1>2 DEF Call, RecordTopup, Goto
<1> HIDE DEF h
<1>5. InPlace(h) /\ Rooted(x, h, keys', settled', topups') /\ ~Successor(h)
  BY <1>2, <1>3, <1>4 DEF InPlace, Rooted, Successor
<1>6. ASSUME \A y \in Calls \ {x} : h.own \intersect calls[y].own = {}
      PROVE  OneCredit(h, topups')
  BY <1>1, <1>3, <1>4, <1>6 DEF NotShared, OneCredit
<1>7. /\ topups \subseteq topups' /\ signed' = signed \union h.own
      /\ \A f \in topups' \ topups : f \in h.own /\ (f \in settled' \/ x \in Trusting)
  BY <1>1, <1>2, <1>3, <1>4
<1> QED
  BY <1>1, <1>3, <1>4, <1>5, <1>6, <1>7, CallStep

\* The consumer has a key, or gets one.
LEMMA LookupStep ==
    ASSUME IInv, NEW x \in Calls, LookupKey(x)
    PROVE  Fine
<1>1. /\ calls[x] \in Call /\ InPlace(calls[x]) /\ calls[x].at = "lookup"
      /\ Rooted(x, calls[x], keys, settled, topups)
      /\ (NotShared(x) => OneCredit(calls[x], topups))
      /\ UnchangedTables /\ UnchangedPayments
      /\ calls[x].own \subseteq signed /\ settled \subseteq Payments
  BY Mover DEF LookupKey, Wait, IInv, Sent, TypeOK
<1>2. calls[x].payment \in topups /\ calls[x].consumer \in Consumers
      /\ calls[x].op = "topup" /\ calls[x].reply = "none"
  BY <1>1 DEF InPlace, Rooted
<1>3. CASE Finish(x, "ok")
  <2>1. Moves(x, "done", "ok") /\ Tables' /\ KeysKept /\ Records(x)
    BY <1>1, <1>3, MoveForms, QuietTables DEF Records
  <2> QED
    BY <1>1, <1>2, <2>1, EndStep
<1>4. CASE Goto(x, "upsert")
  <2> DEFINE h == [calls[x] EXCEPT !.at = "upsert"]
  <2>1. /\ h \in Call /\ h.at = "upsert" /\ h.own = calls[x].own
        /\ h.payment = calls[x].payment /\ h.op = "topup" /\ h.reply = "none"
        /\ h.consumer = calls[x].consumer /\ calls' = [calls EXCEPT ![x] = h]
    BY <1>1, <1>2, <1>4 DEF Call, Goto
  <2> HIDE DEF h
  <2>2. InPlace(h) /\ Rooted(x, h, keys, settled', topups) /\ ~Successor(h)
    BY <1>2, <2>1 DEF InPlace, Rooted, Successor
  <2>3. ASSUME \A y \in Calls \ {x} : h.own \intersect calls[y].own = {}
        PROVE  OneCredit(h, topups)
    BY <1>1, <2>1, <2>3 DEF NotShared, OneCredit
  <2>4. signed' = signed \union h.own /\ settled' = settled
    BY <1>1, <2>1 DEF UnchangedPayments
  <2> QED
    BY <1>1, <2>1, <2>2, <2>3, <2>4, QuietStep
<1> QED
  BY <1>3, <1>4 DEF LookupKey

\* A key authorizes its own rotation, or nothing.
LEMMA AuthorizeStep ==
    ASSUME IInv, NEW x \in Calls, Authorize(x)
    PROVE  Fine
<1>1. /\ calls[x] \in Call /\ InPlace(calls[x]) /\ calls[x].at = "authorize"
      /\ (NotShared(x) => OneCredit(calls[x], topups))
      /\ UnchangedTables /\ UnchangedPayments /\ Tables
      /\ calls[x].own \subseteq signed /\ settled \subseteq Payments
  BY Mover DEF Authorize, Wait, IInv, Sent, TypeOK
<1>2. calls[x].key \in Keys /\ calls[x].op = "selfRotate" /\ calls[x].reply = "none"
  BY <1>1 DEF InPlace
<1>3. CASE ~Works(calls[x].key)
  <2>1. Moves(x, "done", "error") /\ Tables' /\ KeysKept /\ Records(x)
    BY <1>1, <1>3, MoveForms, QuietTables DEF Records, Authorize
  <2> QED
    BY <1>1, <2>1, EndStep
<1>4. CASE Works(calls[x].key)
  <2> DEFINE c == keys[calls[x].key].consumer
             h == [calls[x] EXCEPT !.at = "revoke", !.consumer = c]
  <2>1. c \in Consumers
    BY <1>1, <1>2, <1>4, KeyRowNames DEF Works, Tables
  <2>2. calls' = [calls EXCEPT ![x] = h]
    BY <1>1, <1>4 DEF Authorize, Call
  <2> HIDE DEF c
  <2>3. /\ h \in Call /\ h.at = "revoke" /\ h.own = calls[x].own /\ h.key = calls[x].key
        /\ h.op = "selfRotate" /\ h.reply = "none" /\ h.consumer = c
    BY <1>1, <1>2, <2>1 DEF Call
  <2> HIDE DEF h
  <2>4. InPlace(h) /\ Rooted(x, h, keys, settled', topups) /\ ~Successor(h)
    BY <1>2, <2>1, <2>3 DEF InPlace, Rooted, Successor
  <2>5. ASSUME \A y \in Calls \ {x} : h.own \intersect calls[y].own = {}
        PROVE  OneCredit(h, topups)
    BY <1>1, <2>3, <2>5 DEF NotShared, OneCredit
  <2>6. signed' = signed \union h.own /\ settled' = settled
    BY <1>1, <2>3 DEF UnchangedPayments
  <2> QED
    BY <1>1, <2>2, <2>3, <2>4, <2>5, <2>6, QuietStep
<1> QED
  BY <1>3, <1>4

\* A key is revoked, at the end of a revocation or on the way of a rotation.
LEMMA RevokeStep ==
    ASSUME IInv, NEW x \in Calls, RevokeKey(x)
    PROVE  Fine
<1>1. /\ calls[x] \in Call /\ InPlace(calls[x]) /\ calls[x].at = "revoke"
      /\ (NotShared(x) => OneCredit(calls[x], topups))
      /\ UnchangedPayments
      /\ calls[x].own \subseteq signed /\ settled \subseteq Payments
  BY Mover DEF RevokeKey, Wait, IInv, Sent, TypeOK
<1>2. /\ calls[x].key \in Keys /\ calls[x].consumer \in Consumers /\ calls[x].reply = "none"
      /\ calls[x].op \in {"revoke", "rotate", "selfRotate"}
  BY <1>1 DEF InPlace
<1>3. CASE ~IsActive(x)
  <2>1. Moves(x, "done", "error") /\ Tables' /\ KeysKept /\ Records(x)
    BY <1>1, <1>3, MoveForms, QuietTables DEF Records, RevokeKey
  <2> QED
    BY <1>1, <2>1, EndStep
<1>4. ASSUME IsActive(x)
      PROVE  Tables' /\ KeysKept /\ topups' = topups /\ Revoked(keys', calls[x].key)
             /\ ~Revoked(keys, calls[x].key)
  <2>1. ~Revoked(keys, calls[x].key)
    BY <1>4 DEF IsActive, Revoked
  <2> QED
    BY <1>2, <1>4, <2>1, RevokeKeeps DEF RevokeKey
<1>5. CASE IsActive(x) /\ calls[x].op = "revoke"
  <2>1. Moves(x, "done", "ok") /\ Tables' /\ KeysKept /\ Records(x)
    BY <1>4, <1>5, MoveForms DEF Records, RevokeKey
  <2> QED
    BY <1>1, <1>5, <2>1, EndStep
<1>6. CASE IsActive(x) /\ calls[x].op # "revoke"
  <2> DEFINE h == [calls[x] EXCEPT !.at = "upsert"]
  <2>1. /\ h \in Call /\ h.at = "upsert" /\ h.own = calls[x].own /\ h.key = calls[x].key
        /\ h.op = calls[x].op /\ h.reply = "none" /\ h.consumer = calls[x].consumer
        /\ calls' = [calls EXCEPT ![x] = h]
    BY <1>1, <1>2, <1>6 DEF Call, RevokeKey, Goto
  <2> HIDE DEF h
  <2>2. InPlace(h) /\ Rooted(x, h, keys', settled', topups')
    BY <1>2, <1>4, <1>6, <2>1 DEF InPlace, Rooted
  <2>3. ASSUME \A y \in Calls \ {x} : h.own \intersect calls[y].own = {}
        PROVE  OneCredit(h, topups')
    BY <1>1, <1>4, <1>6, <2>1, <2>3 DEF NotShared, OneCredit
  <2>4. signed' = signed \union h.own /\ settled' = settled
    BY <1>1, <2>1 DEF UnchangedPayments
  <2> QED
    BY <1>1, <1>4, <1>6, <2>1, <2>2, <2>3, <2>4, CallStep
<1> QED
  BY <1>3, <1>5, <1>6

\* The new key is stored and handed out.
LEMMA UpsertStep ==
    ASSUME IInv, NEW x \in Calls, UpsertKey(x)
    PROVE  Fine
<1>1. /\ calls[x] \in Call /\ InPlace(calls[x]) /\ calls[x].at = "upsert"
      /\ Rooted(x, calls[x], keys, settled, topups)
      /\ (NotShared(x) => OneCredit(calls[x], topups))
      /\ UnchangedPayments
      /\ calls[x].own \subseteq signed /\ settled \subseteq Payments
  BY Mover DEF UpsertKey, Wait, IInv, Sent, TypeOK
<1>2. PICK k \in Keys : Fresh(k) /\ UpsertsKey(x, k) /\ HandOut(x, k)
  BY DEF UpsertKey
<1>3. Tables' /\ KeysKept /\ topups' = topups
  BY <1>1, <1>2, UpsertKeeps DEF InPlace
<1> DEFINE h == [calls[x] EXCEPT !.at = "done", !.reply = "ok", !.issued = k]
<1>4. /\ h \in Call /\ h.at = "done" /\ h.own = calls[x].own /\ h.key = calls[x].key
      /\ h.op = calls[x].op /\ h.reply = "ok" /\ h.payment = calls[x].payment
      /\ calls' = [calls EXCEPT ![x] = h]
  BY <1>1, <1>2 DEF Call, HandOut
<1> HIDE DEF h
<1>5. InPlace(h)
  BY <1>4 DEF InPlace
<1>6. Successor(h) => Successor(calls[x])
  BY <1>1, <1>4 DEF Successor
<1>7. Rooted(x, h, keys', settled', topups')
  <2>1. Successor(h) => h.key \in Keys /\ Revoked(keys', h.key)
    BY <1>1, <1>3, <1>4, <1>6 DEF Rooted, Revoked, KeysKept
  <2> QED
    BY <1>1, <1>3, <1>4, <2>1 DEF Rooted
<1>8. ASSUME \A y \in Calls \ {x} : h.own \intersect calls[y].own = {}
      PROVE  OneCredit(h, topups')
  BY <1>1, <1>3, <1>4, <1>8 DEF NotShared, OneCredit
<1>9. signed' = signed \union h.own /\ settled' = settled
  BY <1>1, <1>4 DEF UnchangedPayments
<1> QED
  BY <1>1, <1>3, <1>4, <1>5, <1>6, <1>7, <1>8, <1>9, CallStep

\* The calls that end: a client that gives up, a deposit, a failed store call, a crash.
LEMMA LastStep ==
    ASSUME IInv, NEW x \in Calls,
           GiveUpPaying(x) \/ CreditDeposit(x) \/ StoreFails(x) \/ CallDies(x)
    PROVE  Fine
<1>1. /\ calls[x] \in Call /\ InPlace(calls[x]) /\ UnchangedPayments
      /\ Rooted(x, calls[x], keys, settled, topups)
  BY Mover DEF GiveUpPaying, CreditDeposit, StoreFails, CallDies
<1>2. CASE GiveUpPaying(x)
  <2>1. Moves(x, "done", "payment") /\ Tables' /\ KeysKept /\ Records(x)
    BY <1>2, MoveForms, QuietTables DEF Records, GiveUpPaying
  <2> QED
    BY <1>1, <1>2, <2>1, EndStep DEF GiveUpPaying, Wait
<1>3. CASE CreditDeposit(x)
  <2>1. calls[x].consumer \in Consumers /\ calls[x].payment \in Deposits
        /\ calls[x].op = "deposit"
    BY <1>1, <1>3 DEF CreditDeposit, Wait, InPlace
  <2>2. CASE HasAccount(x)
    <3>1. Moves(x, "done", "ok") /\ Tables' /\ KeysKept /\ Records(x)
      BY <1>3, <2>1, <2>2, MoveForms, DepositKeeps DEF Records, CreditDeposit
    <3> QED
      BY <1>1, <2>1, <3>1, EndStep
  <2>3. CASE ~HasAccount(x)
    <3>1. Moves(x, "done", "error") /\ Tables' /\ KeysKept /\ Records(x)
      BY <1>3, <2>3, MoveForms, QuietTables DEF Records, CreditDeposit
    <3> QED
      BY <1>1, <3>1, EndStep
  <2> QED
    BY <2>2, <2>3
<1>4. CASE StoreFails(x)
  <2>1. Moves(x, "done", "error")
    BY <1>4, MoveForms DEF StoreFails
  <2>2. Tables' /\ KeysKept /\ Records(x)
    <3>1. CASE UnchangedTables
      BY <3>1, QuietTables DEF Records
    <3>2. CASE Wait(x, "record") /\ RecordsTopup(x)
      <4>1. calls[x].payment \in Payments /\ calls[x].consumer \in Consumers
        BY <1>1, <3>2 DEF Wait, InPlace, Call
      <4> QED
        BY <3>2, <4>1, TopupKeeps DEF Records, Wait
    <3>3. CASE Wait(x, "revoke") /\ IsActive(x) /\ RevokesKey(x)
      BY <1>1, <3>3, RevokeKeeps DEF Records, Wait, InPlace
    <3>4. CASE Wait(x, "upsert") /\ \E k \in Keys : Fresh(k) /\ UpsertsKey(x, k)
      BY <1>1, <3>4, UpsertKeeps DEF Records, Wait, InPlace
    <3>5. CASE Wait(x, "credit") /\ HasAccount(x) /\ CreditsDeposit(x)
      BY <1>1, <3>5, DepositKeeps DEF Records, Wait, InPlace
    <3> QED
      BY <1>4, <3>1, <3>2, <3>3, <3>4, <3>5 DEF StoreFails
  <2> QED
    BY <1>1, <2>1, <2>2, EndStep
<1>5. CASE CallDies(x)
  <2>1. Moves(x, "dead", "none") /\ Tables' /\ KeysKept /\ Records(x)
    BY <1>5, MoveForms, QuietTables DEF Records, CallDies
  <2> QED
    BY <1>1, <2>1, EndStep
<1> QED
  BY <1>2, <1>3, <1>4, <1>5

-----------------------------------------------------------------------------
LEMMA Step ==
    ASSUME IInv, [Next]_vars
    PROVE  Fine
<1>1. ASSUME NEW x \in Calls, BeginCall(x) \/ Handle(x) \/ StoreFails(x) \/ CallDies(x)
      PROVE  Fine
  BY <1>1, BeginStep, SignStep, SettleStep, RecordStep, LookupStep, AuthorizeStep,
     RevokeStep, UpsertStep, LastStep DEF Handle
<1>2. CASE UNCHANGED vars
  BY <1>2 DEF vars, Fine, IInv, TypeOK, Store!TypeOK, PointersAreActive, OneSuccessor,
              Replaces, Sent, NotShared, KeysKept, Accepted
<1> QED
  BY <1>1, <1>2 DEF Next

LEMMA Start == Init => IInv
<1> SUFFICES ASSUME Init
             PROVE  IInv
  OBVIOUS
<1>1. Idle \in Call
  BY DEF Idle, Call
<1>2. /\ \A x \in Calls : calls[x] = Idle
      /\ topups = {} /\ settled = {} /\ signed = {}
      /\ \A c \in Consumers : accounts[c] = NoRow
  BY DEF Init, Store!Init
<1>3. TypeOK
  BY <1>1 DEF Init, Store!Init, Store!TypeOK, TypeOK
<1>4. PointersAreActive /\ OneSuccessor /\ Sent
  BY <1>2, NoRowAssumption DEF PointersAreActive, OneSuccessor, Replaces, Sent, Idle
<1>5. /\ InPlace(Idle) /\ OneCredit(Idle, topups)
      /\ \A x \in Calls : Rooted(x, Idle, keys, settled, topups)
  BY DEF Idle, InPlace, Rooted, Successor, OneCredit
<1> QED
  BY <1>2, <1>3, <1>4, <1>5 DEF IInv

LEMMA Inductive == Spec => []IInv
<1>1. IInv /\ [Next]_vars => IInv'
  BY Step DEF Fine
<1> QED
  BY <1>1, Start, PTL DEF Spec

(***************************************************************************)
(* The key tables agree, a key has one successor, and balance and key only *)
(* come for settled money, once per command, for any number of concurrent  *)
(* handlers of create, revoke, rotate, topup and deposit, store calls that *)
(* fail after they committed, lost answers and crashes.                    *)
(***************************************************************************)
THEOREM AccountsCorrect ==
    Spec => [](TypeOK /\ PointersAreActive /\ OneSuccessor
                 /\ CreditedOnlyIfSettled /\ OneCreditPerCommand)
<1>1. ASSUME IInv
      PROVE  CreditedOnlyIfSettled
  BY <1>1 DEF IInv, Rooted, CreditedOnlyIfSettled
<1>2. ASSUME IInv
      PROVE  OneCreditPerCommand
  BY <1>2 DEF IInv, OneCredit, OneCreditPerCommand
<1>3. IInv => TypeOK /\ PointersAreActive /\ OneSuccessor
                /\ CreditedOnlyIfSettled /\ OneCreditPerCommand
  BY <1>1, <1>2 DEF IInv
<1> QED
  BY <1>3, Inductive, PTL

(***************************************************************************)
(* A key that was revoked stays revoked, and no key changes hands.         *)
(***************************************************************************)
THEOREM RevocationFinal == Spec => RevokedForever
<1>1. IInv /\ [Next]_vars =>
        [\A k \in Keys : keys[k] # NoRow =>
           /\ keys'[k] # NoRow /\ keys'[k].consumer = keys[k].consumer
           /\ keys[k].status = "revoked" => keys'[k] = keys[k]]_vars
  BY Step DEF Fine, KeysKept
<1> QED
  BY <1>1, Inductive, PTL DEF Spec, RevokedForever

-----------------------------------------------------------------------------
\* The handlers write the prepaid tables by operations of the store only.
LEMMA StoreStep ==
    ASSUME IInv, [Next]_vars
    PROVE  Store!Next \/ UNCHANGED prepaidVars
<1>1. ASSUME NEW x \in Calls, calls[x].at = "record", RecordsTopup(x)
      PROVE  Store!Next \/ UNCHANGED prepaidVars
  <2>1. calls[x].payment \in Payments
    BY <1>1, Mover DEF InPlace, Call
  <2> QED
    BY <1>1, <2>1 DEF RecordsTopup, Store!Next
<1>2. ASSUME NEW x \in Calls, calls[x].at = "credit", CreditsDeposit(x)
      PROVE  Store!Next \/ UNCHANGED prepaidVars
  <2>1. calls[x].payment \in Deposits /\ calls[x].consumer \in Consumers
    BY <1>2, Mover DEF InPlace
  <2> QED
    BY <1>2, <2>1 DEF CreditsDeposit, Store!Next
<1>3. ASSUME UnchangedTables
      PROVE  UNCHANGED prepaidVars
  BY <1>3 DEF UnchangedTables, tableVars, prepaidVars
<1>4. ASSUME NEW x \in Calls, NEW k, RevokesKey(x) \/ UpsertsKey(x, k)
      PROVE  UNCHANGED prepaidVars
  BY <1>4 DEF RevokesKey, UpsertsKey
<1>5. ASSUME NEW x \in Calls, BeginCall(x)
      PROVE  UnchangedTables
  BY <1>5 DEF BeginCall, BeginCreate, BeginRevoke, BeginSelfRotate, BeginDeposit, BeginTopup,
              ResendTopup
<1>6. ASSUME NEW x \in Calls,
             \/ SignPayment(x) \/ GiveUpPaying(x)
             \/ PaymentSettles(x) \/ PaymentTrusted(x) \/ PaymentRefused(x)
             \/ LookupKey(x) \/ Authorize(x) \/ CallDies(x)
      PROVE  UnchangedTables
  BY <1>6 DEF SignPayment, GiveUpPaying, PaymentSettles, PaymentTrusted, PaymentRefused,
              LookupKey, Authorize, CallDies
<1>7. ASSUME NEW x \in Calls,
             RecordTopup(x) \/ RevokeKey(x) \/ UpsertKey(x) \/ CreditDeposit(x) \/ StoreFails(x)
      PROVE  Store!Next \/ UNCHANGED prepaidVars
  BY <1>1, <1>2, <1>3, <1>4, <1>7
     DEF RecordTopup, RevokeKey, UpsertKey, CreditDeposit, StoreFails, Wait
<1>8. CASE UNCHANGED vars
  BY <1>8 DEF vars, prepaidVars
<1> QED
  BY <1>3, <1>5, <1>6, <1>7, <1>8 DEF Next, Handle

(***************************************************************************)
(* The account handlers implement the ledger too: topups and deposits are  *)
(* whole operations of the store, whatever fails around them.              *)
(***************************************************************************)
THEOREM AccountsKeepPromise == Spec => Store!Spec
<1>1. Init => Store!Init
  BY DEF Init
<1>2. IInv /\ [Next]_vars => [Store!Next]_(Store!vars)
  BY StoreStep DEF prepaidVars, Store!vars
<1> QED
  BY <1>1, <1>2, Inductive, PTL DEF Spec, Store!Spec

\* Store and Proofs state the same of the tables.
LEMMA SameFunctions ==
    /\ \A c : Proofs!RequestsOf(c) = Store!RequestsOf(c)
    /\ \A c, type, ref : Proofs!Posted(c, type, ref) = Store!Posted(c, type, ref)
    /\ \A entries, amount : Proofs!Once(entries, amount) = Store!Once(entries, amount)
    /\ \A c : /\ Proofs!PaidIn(c) = Store!PaidIn(c)
              /\ Proofs!Held(c) = Store!Held(c)
              /\ Proofs!Spent(c) = Store!Spent(c)
<1>1. \A c, type, ref : Proofs!Posted(c, type, ref) = Store!Posted(c, type, ref)
  BY DEF Proofs!Posted, Store!Posted
<1>2. \A entries, amount : Proofs!Once(entries, amount) = Store!Once(entries, amount)
  BY Zenon DEF Proofs!Once, Store!Once
<1>3. \A c : Proofs!RequestsOf(c) = Store!RequestsOf(c)
  BY DEF Proofs!RequestsOf, Store!RequestsOf
<1>4. \A c : Proofs!HoldsOf(c) = Store!HoldsOf(c)
  BY <1>3 DEF Proofs!HoldsOf, Store!HoldsOf
<1>5. \A entries : Proofs!CreditsIn(entries) = Store!CreditsIn(entries)
  BY DEF Proofs!CreditsIn, Store!CreditsIn
<1>6. \A f : Proofs!SumFunction(f) = Store!SumFunction(f)
  BY Zenon DEF Proofs!SumFunction, Store!SumFunction,
               Proofs!SumFunctionOnSet, Store!SumFunctionOnSet,
               Proofs!FoldFunctionOnSet, Store!FoldFunctionOnSet,
               Proofs!MapThenFoldSet, Store!MapThenFoldSet
<1>7. \A c : Proofs!PaidIn(c) = Store!PaidIn(c)
  BY <1>5, <1>6, Zenon DEF Proofs!PaidIn, Store!PaidIn
<1>8. \A c : Proofs!Held(c) = Store!Held(c)
  BY <1>4, <1>6, Zenon DEF Proofs!Held, Store!Held
<1>9. \A c : Proofs!Spent(c) = Store!Spent(c)
  BY <1>3, <1>6, Zenon DEF Proofs!Spent, Store!Spent
<1> QED
  BY <1>1, <1>2, <1>3, <1>7, <1>8, <1>9, Zenon

LEMMA SameClaims ==
    /\ Proofs!LedgerChains => Store!LedgerChains
    /\ Proofs!NeverOverdrawn => Store!NeverOverdrawn
    /\ Proofs!LedgerExplainsReservations => Store!LedgerExplainsReservations
    /\ Proofs!TopupCreditedOnce => Store!TopupCreditedOnce
    /\ Proofs!Conservation => Store!Conservation
<1>1. \A c \in Consumers : Proofs!BalanceOf(c) = Store!BalanceOf(c)
  BY DEF Proofs!BalanceOf, Store!BalanceOf
<1>2. \A c \in Consumers : \A i : Proofs!AfterOf(c, i) = Store!AfterOf(c, i)
  BY DEF Proofs!AfterOf, Store!AfterOf
<1>3. ASSUME NEW c, NEW r
      PROVE  Proofs!Explained(c, r) = Store!Explained(c, r)
  <2>1. /\ Proofs!RequestsOf(c) = Store!RequestsOf(c)
        /\ \A type : Proofs!Posted(c, type, r) = Store!Posted(c, type, r)
        /\ \A entries, amount : Proofs!Once(entries, amount) = Store!Once(entries, amount)
    BY SameFunctions, Zenon
  <2> QED
    BY <2>1 DEF Proofs!Explained, Store!Explained
<1>4. ASSUME NEW c, NEW f
      PROVE  Proofs!CreditedOnce(c, f) = Store!CreditedOnce(c, f)
  <2>1. /\ Proofs!Posted(c, "credit", f) = Store!Posted(c, "credit", f)
        /\ \A entries, amount : Proofs!Once(entries, amount) = Store!Once(entries, amount)
    BY SameFunctions, Zenon
  <2> QED
    BY <2>1 DEF Proofs!CreditedOnce, Store!CreditedOnce
<1> QED
  BY <1>1, <1>2, <1>3, <1>4, SameFunctions, Zenon
     DEF Proofs!LedgerChains, Store!LedgerChains, Proofs!NeverOverdrawn, Store!NeverOverdrawn,
         Proofs!LedgerExplainsReservations, Store!LedgerExplainsReservations,
         Proofs!TopupCreditedOnce, Store!TopupCreditedOnce,
         Proofs!Conservation, Store!Conservation

(***************************************************************************)
(* So whatever fails in the handlers and whatever commands retry, every    *)
(* ledger chains, a topup is credited once, and what a consumer paid in is *)
(* its balance.                                                            *)
(***************************************************************************)
THEOREM AccountsLedgerCorrect ==
    Spec => [](/\ Store!LedgerChains /\ Store!NeverOverdrawn
               /\ Store!LedgerExplainsReservations /\ Store!TopupCreditedOnce
               /\ Store!Conservation)
<1>1. Store!Init => Proofs!Init
  BY DEF Store!Init, Proofs!Init
<1>2. [Store!Next]_(Store!vars) => [Proofs!Next]_(Proofs!vars)
  BY SameStep DEF Store!vars, Proofs!vars
<1>3. Proofs!Spec => [](/\ Proofs!LedgerChains /\ Proofs!NeverOverdrawn
                       /\ Proofs!LedgerExplainsReservations /\ Proofs!TopupCreditedOnce
                       /\ Proofs!Conservation)
  <2>1. /\ Proofs!Spec => [](Proofs!LedgerChains /\ Proofs!NeverOverdrawn)
        /\ Proofs!Spec => []Proofs!LedgerExplainsReservations
        /\ Proofs!Spec => []Proofs!TopupCreditedOnce
        /\ Proofs!Spec => []Proofs!Conservation
    BY Proofs!LedgerCorrect, Proofs!LedgerExplains, Proofs!TopupsCredited,
       Proofs!MoneyConserved, StoreConstants
  <2> QED
    BY <2>1, PTL
<1> QED
  BY <1>1, <1>2, <1>3, SameClaims, AccountsKeepPromise, PTL
     DEF Store!Spec, Proofs!Spec

-----------------------------------------------------------------------------
(***************************************************************************)
(* What backs the credits in a ledger: one that names a payment is the     *)
(* only one that does, in the ledger of its payer and of its amount, and   *)
(* the payment was sent by a client, recorded, and settled by the          *)
(* facilitator, or sent to a gateway that has none.                        *)
(***************************************************************************)
CreditsAreBacked ==
    \A c \in Consumers, f \in Payments : \A credit \in Store!Posted(c, "credit", f) :
        /\ Store!Posted(c, "credit", f) = {credit}
        /\ PaymentOf[f].payer = c /\ credit[2] = PaymentOf[f].amount
        /\ f \in signed \intersect topups
        /\ f \in settled \/ \E x \in Trusting : f \in calls[x].own

(***************************************************************************)
(* However handlers die between the settlement, the record and the answer, *)
(* and however often a payment is sent, no ledger shows money that did not *)
(* move; only the gateways without a facilitator are taken at their word.  *)
(***************************************************************************)
THEOREM NoCreditWithoutPayment == Spec => []CreditsAreBacked
<1>1. ASSUME IInv, Store!TopupCreditedOnce
      PROVE  CreditsAreBacked
  <2> SUFFICES ASSUME NEW c \in Consumers, NEW f \in Payments,
                      NEW credit \in Store!Posted(c, "credit", f)
               PROVE  /\ Store!Posted(c, "credit", f) = {credit}
                      /\ PaymentOf[f].payer = c /\ credit[2] = PaymentOf[f].amount
                      /\ f \in signed \intersect topups
                      /\ f \in settled \/ \E x \in Trusting : f \in calls[x].own
    BY DEF CreditsAreBacked
  <2>1. Store!CreditedOnce(c, f)
    BY <1>1 DEF Store!TopupCreditedOnce
  <2>2. f \in topups /\ PaymentOf[f].payer = c
    BY <2>1 DEF Store!CreditedOnce
  <2>3. Store!Once(Store!Posted(c, "credit", f), PaymentOf[f].amount)
    BY <2>1, <2>2 DEF Store!CreditedOnce
  <2>4. PICK entry \in Store!Posted(c, "credit", f) :
            Store!Posted(c, "credit", f) = {entry} /\ entry[2] = PaymentOf[f].amount
    BY <2>3 DEF Store!Once
  <2>5. credit = entry
    BY <2>4
  <2>6. f \in signed /\ (f \in settled \/ \E x \in Trusting : f \in calls[x].own)
    BY <1>1, <2>2 DEF IInv, Sent, Accepted
  <2> QED
    BY <2>2, <2>4, <2>5, <2>6
<1> QED
  BY <1>1, Inductive, AccountsLedgerCorrect, PTL

=============================================================================

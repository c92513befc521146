--------------------------- MODULE PrepaidLedger ---------------------------
(***************************************************************************)
(* What the prepaid accounting store promises the gateway: every operation *)
(* of the interface either happens completely, at one instant, or not at   *)
(* all.  Money is counted in micro-USDC, the six decimals NUMERIC(20, 6)   *)
(* keeps.  PrepaidStore shows that the SQL transactions of                 *)
(* pkg/dataplane/postgres_store.go keep this promise statement by          *)
(* statement.                                                              *)
(***************************************************************************)
EXTENDS Integers, Sequences, Functions

CONSTANTS
    Consumers,      \* consumer ids that have a row in "consumers"
    Requests,       \* gateway request ids, the key of prepaid_reservations
    Fingerprints,   \* hashes of x402 payment headers, the key of x402_prepaid_topups
    Amounts,        \* amounts a caller may pass, in micro-USDC; 0 is rejected
    Charges,        \* costs a finished request may report
    PaymentOf,      \* the payer and the amount a payment header carries
    NoRow           \* the absence of a row

ASSUME AmountsAssumption == Amounts \subseteq Nat /\ Charges \subseteq Int
ASSUME PaymentAssumption ==
    PaymentOf \in [Fingerprints -> [payer : Consumers, amount : Nat \ {0}]]
\* A deposit is posted under no topup's reference, which carries a prefix of its own.
ASSUME ReferenceAssumption == NoRow \notin Fingerprints
ASSUME NoRowAssumption == NoRow \notin Int /\ NoRow \notin [consumer : Consumers,
    reserved : Nat, charged : Nat, status : {"reserved", "finalized", "released"}]

VARIABLES
    balances,       \* consumer_balances: consumer -> current_balance or NoRow
    ledger,         \* balance_ledger: the entries of each consumer in id order
    reservations,   \* prepaid_reservations: request id -> row or NoRow
    topups          \* x402_prepaid_topups: the fingerprints recorded so far

vars == <<balances, ledger, reservations, topups>>

Statuses == {"reserved", "finalized", "released"}
Reservation == [consumer : Consumers, reserved : Nat, charged : Nat, status : Statuses]
Entry == [type : {"reserve", "release", "debit", "credit"},
          ref : Requests \union Fingerprints \union {NoRow},
          amount : Int, after : Int]

(***************************************************************************)
(* The four tables have their columns' types and the statuses and entry    *)
(* types their CHECK constraints allow.                                    *)
(***************************************************************************)
TypeOK ==
    /\ balances \in [Consumers -> Int \union {NoRow}]
    /\ ledger \in [Consumers -> Seq(Entry)]
    /\ reservations \in [Requests -> Reservation \union {NoRow}]
    /\ topups \in SUBSET Fingerprints

(***************************************************************************)
(* A missing balance row counts as an empty balance.                       *)
(***************************************************************************)
BalanceOf(c) == IF balances[c] = NoRow THEN 0 ELSE balances[c]

NewEntry(type, ref, amount, after) ==
    [type |-> type, ref |-> ref, amount |-> amount, after |-> after]

\* UPDATE consumer_balances, then the INSERTs into balance_ledger.
Post(c, after, entries) ==
    /\ balances' = [balances EXCEPT ![c] = after]
    /\ ledger' = [ledger EXCEPT ![c] = @ \o entries]

\* What a finished request pays: nothing unless it succeeded, at most its hold.
ChargeFor(actual, success, reserved) ==
    CASE ~success \/ actual < 0 -> 0
      [] success /\ actual > reserved -> reserved
      [] OTHER -> actual

Init ==
    /\ balances = [c \in Consumers |-> NoRow]
    /\ ledger = [c \in Consumers |-> <<>>]
    /\ reservations = [r \in Requests |-> NoRow]
    /\ topups = {}

Reserve(c, r, amount) ==
    /\ amount > 0
    /\ reservations[r] = NoRow
    /\ BalanceOf(c) >= amount
    /\ LET after == BalanceOf(c) - amount
       IN  Post(c, after, <<NewEntry("reserve", r, -amount, after)>>)
    /\ reservations' = [reservations EXCEPT ![r] =
           [consumer |-> c, reserved |-> amount, charged |-> 0, status |-> "reserved"]]
    /\ UNCHANGED topups

\* Mutant: the debit entry forgets the release that goes before it.
SettlementEntriesUnchained(r, reserved, charge, balance) ==
    LET release == NewEntry("release", r, reserved, balance + reserved)
        debit == NewEntry("debit", r, -charge, balance - charge)
    IN  IF charge > 0 THEN <<release, debit>> ELSE <<release>>

\* Mutant: a debit entry even when nothing is charged.
SettlementEntriesAlwaysDebit(r, reserved, charge, balance) ==
    LET released == balance + reserved
    IN  <<NewEntry("release", r, reserved, released),
          NewEntry("debit", r, -charge, released - charge)>>

\* The release entry gives the whole hold back, the debit entry takes the charge.
SettlementEntries(r, reserved, charge, balance) ==
    LET released == balance + reserved
        release == NewEntry("release", r, reserved, released)
        debit == NewEntry("debit", r, -charge, released - charge)
    IN  IF charge > 0 THEN <<release, debit>> ELSE <<release>>

\* Mutant: the charge is not stored.
SettledUncharged(row, charge) ==
    [row EXCEPT !.status = IF charge > 0 THEN "finalized" ELSE "released"]

Settled(row, charge) ==
    [row EXCEPT !.charged = charge,
                !.status = IF charge > 0 THEN "finalized" ELSE "released"]

\* Mutant: a reservation that is already settled is settled again.
FinalizeAgain(r, actual, success) ==
    /\ reservations[r] # NoRow
    /\ LET row == reservations[r]
           c == row.consumer
           charge == ChargeFor(actual, success, row.reserved)
       IN  /\ Post(c, BalanceOf(c) + row.reserved - charge,
                   SettlementEntries(r, row.reserved, charge, BalanceOf(c)))
           /\ reservations' = [reservations EXCEPT ![r] = Settled(row, charge)]
    /\ UNCHANGED topups

Finalize(r, actual, success) ==
    /\ reservations[r] # NoRow
    /\ reservations[r].status = "reserved"
    /\ LET row == reservations[r]
           c == row.consumer
           charge == ChargeFor(actual, success, row.reserved)
       IN  /\ Post(c, BalanceOf(c) + row.reserved - charge,
                   SettlementEntries(r, row.reserved, charge, BalanceOf(c)))
           /\ reservations' = [reservations EXCEPT ![r] = Settled(row, charge)]
    /\ UNCHANGED topups

Credit(c, amount) ==
    /\ amount > 0
    /\ LET after == BalanceOf(c) + amount
       IN  Post(c, after, <<NewEntry("credit", NoRow, amount, after)>>)
    /\ UNCHANGED <<reservations, topups>>

\* Mutant: the conflict on the fingerprint is not looked at.
TopupRepeated(f) ==
    /\ LET c == PaymentOf[f].payer
           after == BalanceOf(c) + PaymentOf[f].amount
       IN  Post(c, after, <<NewEntry("credit", f, PaymentOf[f].amount, after)>>)
    /\ topups' = topups \union {f}
    /\ UNCHANGED reservations

Topup(f) ==
    /\ f \notin topups
    /\ LET c == PaymentOf[f].payer
           after == BalanceOf(c) + PaymentOf[f].amount
       IN  Post(c, after, <<NewEntry("credit", f, PaymentOf[f].amount, after)>>)
    /\ topups' = topups \union {f}
    /\ UNCHANGED reservations

Next ==
    \/ \E c \in Consumers, r \in Requests, amount \in Amounts : Reserve(c, r, amount)
    \/ \E r \in Requests, actual \in Charges, success \in BOOLEAN :
           Finalize(r, actual, success)
    \/ \E c \in Consumers, amount \in Amounts : Credit(c, amount)
    \/ \E f \in Fingerprints : Topup(f)

Spec == Init /\ [][Next]_vars

-----------------------------------------------------------------------------
(***************************************************************************)
(* Every ledger entry starts from the balance the entry before it left,    *)
(* and the balance row is what the last entry left.  Two operations that   *)
(* both computed their balance from the same read would break the chain.   *)
(***************************************************************************)
AfterOf(c, i) == IF i = 0 THEN 0 ELSE ledger[c][i].after

LedgerChains ==
    \A c \in Consumers :
        /\ \A i \in 1..Len(ledger[c]) :
               ledger[c][i].after = AfterOf(c, i - 1) + ledger[c][i].amount
        /\ BalanceOf(c) = AfterOf(c, Len(ledger[c]))

(***************************************************************************)
(* A consumer is never overdrawn, now or at any entry of its ledger.       *)
(***************************************************************************)
NeverOverdrawn ==
    \A c \in Consumers :
        /\ BalanceOf(c) >= 0
        /\ \A i \in 1..Len(ledger[c]) : ledger[c][i].after >= 0

(***************************************************************************)
(* Nothing is created or lost: what a consumer paid in is its balance,     *)
(* what its running requests hold, and what its finished requests cost.    *)
(***************************************************************************)
RequestsOf(c) ==
    {r \in Requests : reservations[r] # NoRow /\ reservations[r].consumer = c}
CreditsIn(entries) == {i \in 1..Len(entries) : entries[i].type = "credit"}
HoldsOf(c) == {r \in RequestsOf(c) : reservations[r].status = "reserved"}

PaidIn(c) == SumFunction([i \in CreditsIn(ledger[c]) |-> ledger[c][i].amount])
Held(c) == SumFunction([r \in HoldsOf(c) |-> reservations[r].reserved])
Spent(c) == SumFunction([r \in RequestsOf(c) |-> reservations[r].charged])

Conservation ==
    \A c \in Consumers : PaidIn(c) = BalanceOf(c) + Held(c) + Spent(c)

(***************************************************************************)
(* The ledger alone tells the state of every reservation: one reserve      *)
(* entry of its hold, one release entry once it is settled, and one debit  *)
(* entry exactly when it cost something, all in its consumer's ledger.     *)
(***************************************************************************)
Posted(c, type, ref) ==
    {<<i, ledger[c][i].amount>> : i \in
        {j \in 1..Len(ledger[c]) : ledger[c][j].type = type /\ ledger[c][j].ref = ref}}
Once(entries, amount) ==
    \E entry \in entries : entries = {entry} /\ entry[2] = amount

Explained(c, r) ==
    LET row == reservations[r]
    IN  IF r \notin RequestsOf(c)
        THEN \A type \in {"reserve", "release", "debit"} : Posted(c, type, r) = {}
        ELSE /\ Once(Posted(c, "reserve", r), -row.reserved)
             /\ IF row.status = "reserved"
                THEN Posted(c, "release", r) = {}
                ELSE Once(Posted(c, "release", r), row.reserved)
             /\ IF row.status = "finalized"
                THEN Once(Posted(c, "debit", r), -row.charged)
                ELSE Posted(c, "debit", r) = {} /\ row.charged = 0

LedgerExplainsReservations == \A c \in Consumers, r \in Requests : Explained(c, r)

(***************************************************************************)
(* A payment header is worth money once: its fingerprint has one credit    *)
(* entry when it is recorded and none before, however often it is sent.    *)
(***************************************************************************)
CreditedOnce(c, f) ==
    IF f \in topups /\ PaymentOf[f].payer = c
    THEN Once(Posted(c, "credit", f), PaymentOf[f].amount)
    ELSE Posted(c, "credit", f) = {}

TopupCreditedOnce == \A c \in Consumers, f \in Fingerprints : CreditedOnce(c, f)

(***************************************************************************)
(* A settled request stays as it was settled, and a hold never changes     *)
(* hands or size: retries, late finalizes and reused request ids included. *)
(***************************************************************************)
SettledForever ==
    [][\A r \in Requests : reservations[r] # NoRow =>
           /\ reservations'[r] # NoRow
           /\ reservations'[r].consumer = reservations[r].consumer
           /\ reservations'[r].reserved = reservations[r].reserved
           /\ reservations[r].status # "reserved" => reservations'[r] = reservations[r]]_vars

=============================================================================

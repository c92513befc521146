------------------------ MODULE PrepaidLedgerProofs ------------------------
(***************************************************************************)
(* Proofs about PrepaidLedger, for every set of consumers, requests,       *)
(* payment headers and amounts.                                            *)
(***************************************************************************)
EXTENDS PrepaidLedger, SequenceTheorems, FiniteSetTheorems, TLAPS

\* A settlement never charges less than nothing or more than the hold.
LEMMA ChargeBounds ==
    ASSUME NEW actual \in Int, NEW success \in BOOLEAN, NEW reserved \in Nat
    PROVE  ChargeFor(actual, success, reserved) \in 0..reserved
BY DEF ChargeFor

\* Settling a reservation leaves a reservation.
LEMMA SettledType ==
    ASSUME NEW row \in Reservation, NEW charge \in Nat
    PROVE  Settled(row, charge) \in Reservation
BY DEF Settled, Reservation, Statuses

\* The balance of a consumer is a number, whether it has a row or not.
LEMMA BalanceType ==
    ASSUME TypeOK, NEW c \in Consumers
    PROVE  BalanceOf(c) \in Int
BY DEF TypeOK, BalanceOf

\* Every step that moves money posts a consumer's balance and entries.
Posting(c, after, entries) ==
    /\ c \in Consumers
    /\ after \in Int
    /\ entries \in Seq(Entry)
    /\ Post(c, after, entries)

\* What posting does to the tables it writes.
LEMMA PostType ==
    ASSUME TypeOK, NEW c, NEW after, NEW entries, Posting(c, after, entries)
    PROVE  /\ balances' \in [Consumers -> Int \union {NoRow}]
           /\ ledger' \in [Consumers -> Seq(Entry)]
<1>1. ledger[c] \o entries \in Seq(Entry)
  BY ConcatProperties DEF TypeOK, Posting
<1> QED
  BY <1>1 DEF TypeOK, Posting, Post

\* Reserving posts one entry.
LEMMA ReservePosts ==
    ASSUME TypeOK, NEW c \in Consumers, NEW r \in Requests, NEW amount \in Amounts,
           Reserve(c, r, amount)
    PROVE  LET after == BalanceOf(c) - amount
           IN  Posting(c, after, <<NewEntry("reserve", r, -amount, after)>>)
<1>1. BalanceOf(c) \in Int /\ amount \in Int
  BY BalanceType, AmountsAssumption
<1> QED
  BY <1>1 DEF Reserve, Posting, NewEntry, Entry

\* Settling posts the release entry and, when there is a charge, the debit.
LEMMA SettlementType ==
    ASSUME NEW r \in Requests, NEW reserved \in Nat, NEW charge \in 0..reserved,
           NEW balance \in Int
    PROVE  SettlementEntries(r, reserved, charge, balance) \in Seq(Entry)
<1> DEFINE released == balance + reserved
           release == NewEntry("release", r, reserved, released)
           debit == NewEntry("debit", r, -charge, released - charge)
<1>1. release \in Entry /\ debit \in Entry
  BY DEF NewEntry, Entry
<1>2. <<release>> \in Seq(Entry) /\ <<release, debit>> \in Seq(Entry)
  <2> HIDE DEF release, debit
  <2> QED
    BY <1>1
<1> QED
  BY <1>2 DEF SettlementEntries

\* A settlement moves the balance of the hold's consumer, by a charge within the hold.
LEMMA FinalizePosts ==
    ASSUME TypeOK, NEW r \in Requests, NEW actual \in Charges, NEW success \in BOOLEAN,
           Finalize(r, actual, success)
    PROVE  LET row == reservations[r]
               charge == ChargeFor(actual, success, row.reserved)
               balance == BalanceOf(row.consumer)
           IN  /\ row \in Reservation
               /\ charge \in 0..row.reserved
               /\ Posting(row.consumer, balance + row.reserved - charge,
                          SettlementEntries(r, row.reserved, charge, balance))
<1> DEFINE row == reservations[r]
           charge == ChargeFor(actual, success, row.reserved)
           balance == BalanceOf(row.consumer)
<1>1. row \in Reservation
  BY DEF Finalize, TypeOK
<1>2. row.consumer \in Consumers /\ row.reserved \in Nat
  BY <1>1 DEF Reservation
<1>3. charge \in 0..row.reserved
  BY <1>2, ChargeBounds, AmountsAssumption
<1>4. balance \in Int
  BY <1>2, BalanceType
<1>5. SettlementEntries(r, row.reserved, charge, balance) \in Seq(Entry)
  BY <1>2, <1>3, <1>4, SettlementType
<1>6. Post(row.consumer, balance + row.reserved - charge,
           SettlementEntries(r, row.reserved, charge, balance))
  BY DEF Finalize
<1>7. balance + row.reserved - charge \in Int
  BY <1>2, <1>3, <1>4
<1> QED
  BY <1>1, <1>2, <1>3, <1>5, <1>6, <1>7 DEF Posting

\* A credit posts one entry.
LEMMA CreditPosts ==
    ASSUME TypeOK, NEW c \in Consumers, NEW amount \in Amounts, Credit(c, amount)
    PROVE  LET after == BalanceOf(c) + amount
           IN  Posting(c, after, <<NewEntry("credit", NoRow, amount, after)>>)
<1>1. BalanceOf(c) \in Int /\ amount \in Int
  BY BalanceType, AmountsAssumption
<1> QED
  BY <1>1 DEF Credit, Posting, NewEntry, Entry

\* A topup posts one entry in the payer's ledger.
LEMMA TopupPosts ==
    ASSUME TypeOK, NEW f \in Fingerprints, Topup(f)
    PROVE  LET c == PaymentOf[f].payer
               amount == PaymentOf[f].amount
               after == BalanceOf(c) + amount
           IN  /\ amount \in Nat
               /\ Posting(c, after, <<NewEntry("credit", f, amount, after)>>)
<1> DEFINE c == PaymentOf[f].payer
           amount == PaymentOf[f].amount
<1>1. c \in Consumers /\ amount \in Nat
  BY PaymentAssumption, AmountsAssumption
<1>2. BalanceOf(c) \in Int
  BY <1>1, BalanceType
<1> QED
  BY <1>1, <1>2 DEF Topup, Posting, NewEntry, Entry

-----------------------------------------------------------------------------
\* Every step keeps the types.
LEMMA TypeStep ==
    ASSUME TypeOK, [Next]_vars
    PROVE  TypeOK'
<1>1. ASSUME NEW c \in Consumers, NEW r \in Requests, NEW amount \in Amounts,
             Reserve(c, r, amount)
      PROVE  TypeOK'
  <2>1. [consumer |-> c, reserved |-> amount, charged |-> 0, status |-> "reserved"]
          \in Reservation
    BY AmountsAssumption DEF Reservation, Statuses
  <2>2. reservations' \in [Requests -> Reservation \union {NoRow}]
    BY <1>1, <2>1 DEF TypeOK, Reserve
  <2> QED
    BY <1>1, <2>2, ReservePosts, PostType DEF TypeOK, Reserve
<1>2. ASSUME NEW r \in Requests, NEW actual \in Charges, NEW success \in BOOLEAN,
             Finalize(r, actual, success)
      PROVE  TypeOK'
  <2> DEFINE row == reservations[r]
             charge == ChargeFor(actual, success, row.reserved)
  <2>1. /\ row \in Reservation
        /\ charge \in 0..row.reserved
        /\ Posting(row.consumer, BalanceOf(row.consumer) + row.reserved - charge,
                   SettlementEntries(r, row.reserved, charge, BalanceOf(row.consumer)))
    BY <1>2, FinalizePosts
  <2>2. Settled(row, charge) \in Reservation
    <3>1. charge \in Nat
      BY <2>1 DEF Reservation
    <3> HIDE DEF row, charge
    <3> QED
      BY <2>1, <3>1, SettledType
  <2>3. reservations' \in [Requests -> Reservation \union {NoRow}]
    BY <1>2, <2>2 DEF TypeOK, Finalize
  <2> QED
    BY <1>2, <2>1, <2>3, PostType DEF TypeOK, Finalize
<1>3. ASSUME NEW c \in Consumers, NEW amount \in Amounts, Credit(c, amount)
      PROVE  TypeOK'
  BY <1>3, CreditPosts, PostType DEF TypeOK, Credit
<1>4. ASSUME NEW f \in Fingerprints, Topup(f)
      PROVE  TypeOK'
  BY <1>4, TopupPosts, PostType DEF TypeOK, Topup
<1>5. CASE UNCHANGED vars
  BY <1>5 DEF vars, TypeOK
<1> QED
  BY <1>1, <1>2, <1>3, <1>4, <1>5 DEF Next

\* TypeOK holds in every reachable state.
THEOREM TypeCorrect == Spec => []TypeOK
<1>1. Init => TypeOK
  BY DEF Init, TypeOK
<1>2. TypeOK /\ [Next]_vars => TypeOK'
  BY TypeStep
<1> QED
  BY <1>1, <1>2, PTL DEF Spec

-----------------------------------------------------------------------------
(***************************************************************************)
(* Entries continue a chain when each of them, the first included, starts  *)
(* from the balance before it, and the last one leaves the new balance.    *)
(***************************************************************************)
Continues(before, entries, after) ==
    /\ Len(entries) > 0
    /\ \A i \in 1..Len(entries) :
           entries[i].after =
             (IF i = 1 THEN before ELSE entries[i - 1].after) + entries[i].amount
    /\ after = entries[Len(entries)].after

\* One entry that adds its amount to the balance before it continues the chain.
LEMMA OneEntryContinues ==
    ASSUME NEW type, NEW ref, NEW amount \in Int, NEW before \in Int,
           NEW after, after = before + amount
    PROVE  Continues(before, <<NewEntry(type, ref, amount, after)>>, after)
BY DEF Continues, NewEntry

\* So do the release and the debit of a settlement.
LEMMA SettlementContinues ==
    ASSUME NEW r, NEW reserved \in Nat, NEW charge \in 0..reserved, NEW before \in Int
    PROVE  Continues(before, SettlementEntries(r, reserved, charge, before),
                     before + reserved - charge)
<1> DEFINE released == before + reserved
           release == NewEntry("release", r, reserved, released)
           debit == NewEntry("debit", r, -charge, released - charge)
<1>1. CASE charge > 0
  <2>1. SettlementEntries(r, reserved, charge, before) = <<release, debit>>
    BY <1>1 DEF SettlementEntries
  <2>2. \A i \in 1..2 : i = 1 \/ i = 2
    OBVIOUS
  <2>3. Continues(before, <<release, debit>>, before + reserved - charge)
    BY <2>2 DEF Continues, NewEntry
  <2> QED
    BY <2>1, <2>3
<1>2. CASE ~(charge > 0)
  <2>1. SettlementEntries(r, reserved, charge, before) = <<release>> /\ charge = 0
    BY <1>2 DEF SettlementEntries
  <2> QED
    BY <2>1, OneEntryContinues
<1> QED
  BY <1>1, <1>2

\* Posting entries that continue the chain of their ledger keeps every chain.
LEMMA PostChains ==
    ASSUME TypeOK, LedgerChains, NEW c, NEW after, NEW entries,
           Posting(c, after, entries), Continues(BalanceOf(c), entries, after)
    PROVE  LedgerChains'
<1>1. c \in Consumers /\ ledger[c] \in Seq(Entry) /\ entries \in Seq(Entry) /\ after \in Int
  BY DEF TypeOK, Posting
<1>2. ledger' = [ledger EXCEPT ![c] = @ \o entries]
  BY DEF Posting, Post
<1>3. balances' = [balances EXCEPT ![c] = after]
  BY DEF Posting, Post
<1>4. ASSUME NEW d \in Consumers, d # c
      PROVE  /\ \A i \in 1..Len(ledger'[d]) :
                   ledger'[d][i].after = AfterOf(d, i - 1)' + ledger'[d][i].amount
             /\ BalanceOf(d)' = AfterOf(d, Len(ledger[d]))'
  <2>1. ledger'[d] = ledger[d] /\ balances'[d] = balances[d]
    BY <1>2, <1>3, <1>4 DEF TypeOK
  <2> QED
    BY <2>1 DEF LedgerChains, BalanceOf, AfterOf
<1>5. /\ \A i \in 1..Len(ledger'[c]) :
            ledger'[c][i].after = AfterOf(c, i - 1)' + ledger'[c][i].amount
      /\ BalanceOf(c)' = AfterOf(c, Len(ledger[c]))'
  <2> DEFINE old == ledger[c]  new == ledger'[c]  n == Len(old)  m == Len(entries)
  <2>1. new = old \o entries
    BY <1>1, <1>2 DEF TypeOK
  <2>2. n \in Nat /\ m \in Nat /\ m > 0
    BY <1>1 DEF Continues
  <2>3. /\ Len(new) = n + m
        /\ \A i \in 1..(n + m) : new[i] = IF i <= n THEN old[i] ELSE entries[i - n]
    BY <1>1, <2>1, ConcatProperties
  <2>4. BalanceOf(c) = IF n = 0 THEN 0 ELSE old[n].after
    BY <1>1 DEF LedgerChains, AfterOf
  <2>5. ASSUME NEW i \in 1..(n + m)
        PROVE  new[i].after = (IF i = 1 THEN 0 ELSE new[i - 1].after) + new[i].amount
    <3> HIDE DEF n, m, new, old
    <3>1. CASE i <= n
      <4>1. i \in 1..n /\ new[i] = old[i] /\ (i # 1 => new[i - 1] = old[i - 1])
        BY <2>2, <2>3, <3>1
      <4>2. old[i].after = (IF i = 1 THEN 0 ELSE old[i - 1].after) + old[i].amount
        BY <1>1, <2>2, <4>1 DEF LedgerChains, AfterOf, n, old
      <4> QED
        BY <4>1, <4>2
    <3>2. CASE i = n + 1
      <4>1. new[i] = entries[1] /\ 1 \in 1..m
        BY <2>2, <2>3, <3>2
      <4>2. entries[1].after = BalanceOf(c) + entries[1].amount
        BY <4>1 DEF Continues
      <4>3. BalanceOf(c) = IF i = 1 THEN 0 ELSE new[i - 1].after
        BY <2>2, <2>3, <2>4, <3>2
      <4> QED
        BY <4>1, <4>2, <4>3
    <3>3. CASE i > n + 1
      <4>1. i - n \in 1..m /\ i - n # 1 /\ i # 1 /\ (i - 1) - n = (i - n) - 1
        BY <2>2, <3>3
      <4>2. new[i] = entries[i - n] /\ new[i - 1] = entries[(i - n) - 1]
        BY <2>2, <2>3, <3>3, <4>1
      <4>3. entries[i - n].after = entries[(i - n) - 1].after + entries[i - n].amount
        BY <4>1 DEF Continues, m
      <4> QED
        BY <4>1, <4>2, <4>3
    <3> QED
      BY <2>2, <3>1, <3>2, <3>3
  <2>6. BalanceOf(c)' = new[n + m].after
    <3>1. new[n + m] = entries[m]
      BY <2>2, <2>3
    <3>2. balances'[c] = after /\ after # NoRow
      BY <1>1, <1>3, NoRowAssumption DEF TypeOK
    <3> QED
      BY <3>1, <3>2 DEF Continues, BalanceOf
  <2> QED
    BY <2>2, <2>3, <2>5, <2>6 DEF AfterOf
<1> QED
  BY <1>4, <1>5 DEF LedgerChains

\* No entry leaves a consumer in debt.
Funded(entries) == \A i \in 1..Len(entries) : entries[i].after >= 0

\* Posting funded entries keeps every consumer out of debt.
LEMMA PostFunded ==
    ASSUME TypeOK, NeverOverdrawn, NEW c, NEW after, NEW entries,
           Posting(c, after, entries), after >= 0, Funded(entries)
    PROVE  NeverOverdrawn'
<1>1. c \in Consumers /\ ledger[c] \in Seq(Entry) /\ entries \in Seq(Entry)
  BY DEF TypeOK, Posting
<1>2. ledger' = [ledger EXCEPT ![c] = ledger[c] \o entries]
  BY DEF Posting, Post
<1>3. balances' = [balances EXCEPT ![c] = after]
  BY DEF Posting, Post
<1>4. ASSUME NEW d \in Consumers
      PROVE  BalanceOf(d)' >= 0
  BY <1>1, <1>3 DEF TypeOK, NeverOverdrawn, BalanceOf
<1>5. ASSUME NEW d \in Consumers, NEW i \in 1..Len(ledger'[d])
      PROVE  ledger'[d][i].after >= 0
  <2>1. CASE d # c
    BY <1>2, <1>5, <2>1 DEF TypeOK, NeverOverdrawn
  <2>2. CASE d = c
    <3>1. ledger'[d] = ledger[c] \o entries
      BY <1>1, <1>2, <2>2 DEF TypeOK
    <3>2. \/ i \in 1..Len(ledger[c]) /\ ledger'[d][i] = ledger[c][i]
          \/ i - Len(ledger[c]) \in 1..Len(entries)
               /\ ledger'[d][i] = entries[i - Len(ledger[c])]
      BY <1>1, <1>5, <3>1, ConcatProperties
    <3> QED
      BY <1>1, <3>2 DEF NeverOverdrawn, Funded
  <2> QED
    BY <2>1, <2>2
<1> QED
  BY <1>4, <1>5 DEF NeverOverdrawn

\* Every step posts funded entries that continue a chain.
LEMMA StepPosts ==
    ASSUME TypeOK, NeverOverdrawn, Next
    PROVE  \E c, after, entries :
               /\ Posting(c, after, entries)
               /\ Continues(BalanceOf(c), entries, after)
               /\ after >= 0 /\ Funded(entries)
<1>1. ASSUME NEW c \in Consumers, NEW r \in Requests, NEW amount \in Amounts,
             Reserve(c, r, amount)
      PROVE  \E after, entries :
                 /\ Posting(c, after, entries)
                 /\ Continues(BalanceOf(c), entries, after)
                 /\ after >= 0 /\ Funded(entries)
  <2> DEFINE after == BalanceOf(c) - amount
             entries == <<NewEntry("reserve", r, -amount, after)>>
  <2>1. BalanceOf(c) \in Int /\ amount \in Int /\ after = BalanceOf(c) + (-amount)
    BY BalanceType, AmountsAssumption
  <2>2. after >= 0
    BY <1>1, <2>1 DEF Reserve
  <2>3. Posting(c, after, entries)
    BY <1>1, ReservePosts
  <2>4. Continues(BalanceOf(c), entries, after)
    <3>1. -amount \in Int
      BY <2>1
    <3> HIDE DEF after
    <3> QED
      BY <2>1, <3>1, OneEntryContinues
  <2>5. Funded(entries)
    BY <2>2 DEF Funded, NewEntry
  <2> QED
    BY <2>2, <2>3, <2>4, <2>5
<1>2. ASSUME NEW r \in Requests, NEW actual \in Charges, NEW success \in BOOLEAN,
             Finalize(r, actual, success)
      PROVE  \E c, after, entries :
                 /\ Posting(c, after, entries)
                 /\ Continues(BalanceOf(c), entries, after)
                 /\ after >= 0 /\ Funded(entries)
  <2> DEFINE row == reservations[r]
             charge == ChargeFor(actual, success, row.reserved)
             balance == BalanceOf(row.consumer)
             after == balance + row.reserved - charge
             entries == SettlementEntries(r, row.reserved, charge, balance)
  <2>1. Posting(row.consumer, after, entries)
    BY <1>2, FinalizePosts
  <2>2. row.consumer \in Consumers /\ row.reserved \in Nat /\ charge \in 0..row.reserved
    BY <1>2, FinalizePosts DEF Reservation
  <2>3. balance \in Int /\ balance >= 0
    BY <2>2, BalanceType DEF NeverOverdrawn
  <2>4. Continues(balance, entries, after)
    BY <2>2, <2>3, SettlementContinues
  <2>5. after >= 0
    BY <2>2, <2>3
  <2>6. Funded(entries)
    BY <2>2, <2>3 DEF SettlementEntries, Funded, NewEntry
  <2> QED
    BY <2>1, <2>4, <2>5, <2>6
<1>3. ASSUME NEW c \in Consumers, NEW amount \in Amounts, Credit(c, amount)
      PROVE  \E after, entries :
                 /\ Posting(c, after, entries)
                 /\ Continues(BalanceOf(c), entries, after)
                 /\ after >= 0 /\ Funded(entries)
  <2> DEFINE after == BalanceOf(c) + amount
             entries == <<NewEntry("credit", NoRow, amount, after)>>
  <2>1. BalanceOf(c) \in Int /\ amount \in Nat
    BY BalanceType, AmountsAssumption
  <2>2. after >= 0
    BY <2>1 DEF NeverOverdrawn
  <2>3. Posting(c, after, entries)
    BY <1>3, CreditPosts
  <2>4. Continues(BalanceOf(c), entries, after)
    BY <2>1, OneEntryContinues
  <2>5. Funded(entries)
    BY <2>2 DEF Funded, NewEntry
  <2> QED
    BY <2>2, <2>3, <2>4, <2>5
<1>4. ASSUME NEW f \in Fingerprints, Topup(f)
      PROVE  \E c, after, entries :
                 /\ Posting(c, after, entries)
                 /\ Continues(BalanceOf(c), entries, after)
                 /\ after >= 0 /\ Funded(entries)
  <2> DEFINE c == PaymentOf[f].payer
             amount == PaymentOf[f].amount
             after == BalanceOf(c) + amount
             entries == <<NewEntry("credit", f, amount, after)>>
  <2>1. Posting(c, after, entries) /\ amount \in Nat
    BY <1>4, TopupPosts
  <2>2. c \in Consumers
    BY PaymentAssumption
  <2>3. BalanceOf(c) \in Int
    BY <2>2, BalanceType
  <2>4. after >= 0
    BY <2>1, <2>2, <2>3 DEF NeverOverdrawn
  <2>5. Continues(BalanceOf(c), entries, after)
    BY <2>1, <2>3, OneEntryContinues
  <2>6. Funded(entries)
    BY <2>4 DEF Funded, NewEntry
  <2> QED
    BY <2>1, <2>4, <2>5, <2>6
<1> QED
  BY <1>1, <1>2, <1>3, <1>4 DEF Next

-----------------------------------------------------------------------------
\* What new entries behind the first n ones post of one type and reference.
Added(n, entries, type, ref) ==
    {<<n + j, entries[j].amount>> : j \in
        {k \in 1..Len(entries) : entries[k].type = type /\ entries[k].ref = ref}}

\* Posting adds what its entries say to their consumer's ledger, and nothing elsewhere.
LEMMA PostedAfter ==
    ASSUME TypeOK, NEW c, NEW after, NEW entries, Posting(c, after, entries),
           NEW d \in Consumers, NEW type, NEW ref
    PROVE  Posted(d, type, ref)' =
             IF d = c THEN Posted(d, type, ref) \union Added(Len(ledger[c]), entries, type, ref)
                      ELSE Posted(d, type, ref)
<1>1. c \in Consumers /\ ledger[c] \in Seq(Entry) /\ entries \in Seq(Entry)
  BY DEF TypeOK, Posting
<1>2. ledger' = [ledger EXCEPT ![c] = ledger[c] \o entries]
  BY DEF Posting, Post
<1>3. CASE d # c
  <2>1. ledger'[d] = ledger[d]
    BY <1>2, <1>3 DEF TypeOK
  <2> QED
    BY <1>3, <2>1 DEF Posted
<1>4. CASE d = c
  <2> DEFINE old == ledger[c]  new == ledger'[c]  n == Len(old)  m == Len(entries)
             Here(log, k) == log[k].type = type /\ log[k].ref = ref
  <2>1. n \in Nat /\ m \in Nat
    BY <1>1
  <2>2. /\ Len(new) = n + m
        /\ \A k \in 1..(n + m) : new[k] = IF k <= n THEN old[k] ELSE entries[k - n]
    <3>1. new = old \o entries
      BY <1>1, <1>2 DEF TypeOK
    <3> HIDE DEF old, new
    <3> QED
      BY <1>1, <3>1, ConcatProperties DEF old
  <2> HIDE DEF old, new, n, m
  <2>3. ASSUME NEW k \in 1..(n + m), Here(new, k)
        PROVE  \/ \E i \in {i \in 1..n : Here(old, i)} : <<k, new[k].amount>> = <<i, old[i].amount>>
               \/ \E j \in {j \in 1..m : Here(entries, j)} :
                      <<k, new[k].amount>> = <<n + j, entries[j].amount>>
    <3>1. CASE k <= n
      BY <2>1, <2>2, <2>3, <3>1
    <3>2. CASE k > n
      <4>1. k - n \in 1..m /\ new[k] = entries[k - n] /\ k = n + (k - n)
        BY <2>1, <2>2, <3>2
      <4> QED
        BY <2>3, <4>1
    <3> QED
      BY <2>1, <3>1, <3>2
  <2>4. ASSUME NEW i \in 1..n, Here(old, i)
        PROVE  \E k \in {k \in 1..(n + m) : Here(new, k)} :
                   <<k, new[k].amount>> = <<i, old[i].amount>>
    <3>1. i \in 1..(n + m) /\ new[i] = old[i]
      BY <2>1, <2>2
    <3> QED
      BY <2>4, <3>1
  <2>5. ASSUME NEW j \in 1..m, Here(entries, j)
        PROVE  \E k \in {k \in 1..(n + m) : Here(new, k)} :
                   <<k, new[k].amount>> = <<n + j, entries[j].amount>>
    <3>1. n + j \in 1..(n + m) /\ new[n + j] = entries[j]
      BY <2>1, <2>2
    <3> QED
      BY <2>5, <3>1
  <2>6. {<<k, new[k].amount>> : k \in {k \in 1..(n + m) : Here(new, k)}} =
          {<<i, old[i].amount>> : i \in {i \in 1..n : Here(old, i)}}
            \union {<<n + j, entries[j].amount>> : j \in {j \in 1..m : Here(entries, j)}}
    BY <2>3, <2>4, <2>5
  <2>7. /\ Posted(d, type, ref)' = {<<k, new[k].amount>> : k \in {k \in 1..(n + m) : Here(new, k)}}
        /\ Posted(c, type, ref) = {<<i, old[i].amount>> : i \in {i \in 1..n : Here(old, i)}}
        /\ Added(Len(ledger[c]), entries, type, ref) =
             {<<n + j, entries[j].amount>> : j \in {j \in 1..m : Here(entries, j)}}
    BY <1>4, <2>2 DEF Posted, Added, old, new, n, m
  <2> QED
    BY <1>4, <2>6, <2>7
<1> QED
  BY <1>3, <1>4

\* What a single entry posts.
LEMMA AddedByOne ==
    ASSUME NEW n \in Nat, NEW kind, NEW name, NEW amount, NEW after, NEW type, NEW ref
    PROVE  Added(n, <<NewEntry(kind, name, amount, after)>>, type, ref) =
             IF kind = type /\ name = ref THEN {<<n + 1, amount>>} ELSE {}
BY DEF Added, NewEntry

\* What a settlement posts: a release entry, and a debit entry of a charge.
LEMMA AddedBySettlement ==
    ASSUME NEW n \in Nat, NEW r, NEW reserved \in Nat, NEW charge \in 0..reserved,
           NEW balance \in Int, NEW type, NEW ref
    PROVE  Added(n, SettlementEntries(r, reserved, charge, balance), type, ref) =
             (IF type = "release" /\ ref = r THEN {<<n + 1, reserved>>} ELSE {})
               \union (IF type = "debit" /\ ref = r /\ charge > 0
                        THEN {<<n + 2, -charge>>} ELSE {})
<1> DEFINE released == balance + reserved
           release == NewEntry("release", r, reserved, released)
           debit == NewEntry("debit", r, -charge, released - charge)
<1>1. CASE charge > 0
  <2>1. SettlementEntries(r, reserved, charge, balance) = <<release, debit>>
    BY <1>1 DEF SettlementEntries
  <2>2. \A i : i \in 1..2 <=> i = 1 \/ i = 2
    OBVIOUS
  <2>3. <<release, debit>>[1] = release /\ <<release, debit>>[2] = debit
    OBVIOUS
  <2>4. /\ release.type = "release" /\ release.ref = r /\ release.amount = reserved
        /\ debit.type = "debit" /\ debit.ref = r /\ debit.amount = -charge
    BY DEF NewEntry
  <2> HIDE DEF release, debit
  <2>5. Added(n, <<release, debit>>, type, ref) =
          (IF type = "release" /\ ref = r THEN {<<n + 1, reserved>>} ELSE {})
            \union (IF type = "debit" /\ ref = r THEN {<<n + 2, -charge>>} ELSE {})
    BY <2>2, <2>3, <2>4 DEF Added
  <2> QED
    BY <1>1, <2>1, <2>5
<1>2. CASE ~(charge > 0)
  <2>1. SettlementEntries(r, reserved, charge, balance) = <<release>>
    BY <1>2 DEF SettlementEntries
  <2>2. Added(n, <<release>>, type, ref) =
          IF type = "release" /\ ref = r THEN {<<n + 1, reserved>>} ELSE {}
    <3> HIDE DEF released
    <3> QED
      BY AddedByOne
  <2> QED
    BY <1>2, <2>1, <2>2
<1> QED
  BY <1>1, <1>2

-----------------------------------------------------------------------------
\* What is posted of a request is still explained when neither of them changes.
LEMMA ExplainedKept ==
    ASSUME NEW c \in Consumers, NEW r \in Requests, Explained(c, r),
           reservations'[r] = reservations[r],
           \A type \in {"reserve", "release", "debit"} : Posted(c, type, r)' = Posted(c, type, r)
    PROVE  Explained(c, r)'
BY DEF Explained, RequestsOf

LEMMA PostedOnce ==
    ASSUME NEW i, NEW amount
    PROVE  Once({<<i, amount>>}, amount)
BY DEF Once

\* The row of a hold that was just made.
Hold(c, amount) == [consumer |-> c, reserved |-> amount, charged |-> 0, status |-> "reserved"]

LEMMA ReserveExplained ==
    ASSUME TypeOK, LedgerExplainsReservations,
           NEW c \in Consumers, NEW r \in Requests, NEW amount \in Amounts, Reserve(c, r, amount),
           NEW d \in Consumers, NEW s \in Requests
    PROVE  Explained(d, s)'
<1> DEFINE after == BalanceOf(c) - amount
           n == Len(ledger[c])
<1>1. /\ Posting(c, after, <<NewEntry("reserve", r, -amount, after)>>)
      /\ n \in Nat
  BY ReservePosts DEF TypeOK
<1> HIDE DEF after, n
<1>2. ASSUME NEW type
      PROVE  Posted(d, type, s)' =
               IF d = c /\ type = "reserve" /\ s = r
               THEN Posted(d, type, s) \union {<<n + 1, -amount>>}
               ELSE Posted(d, type, s)
  <2> DEFINE entries == <<NewEntry("reserve", r, -amount, after)>>
  <2>1. Added(n, entries, type, s) =
          IF type = "reserve" /\ s = r THEN {<<n + 1, -amount>>} ELSE {}
    BY <1>1, AddedByOne
  <2> HIDE DEF entries
  <2>2. Posted(d, type, s)' =
          IF d = c THEN Posted(d, type, s) \union Added(n, entries, type, s)
                   ELSE Posted(d, type, s)
    BY <1>1, PostedAfter DEF n, entries
  <2> QED
    BY <2>1, <2>2
<1>3. reservations' = [reservations EXCEPT ![r] = Hold(c, amount)]
  BY DEF Reserve, Hold
<1>4. Hold(c, amount) # NoRow
  <2>1. Hold(c, amount) \in [consumer : Consumers, reserved : Nat, charged : Nat,
                             status : {"reserved", "finalized", "released"}]
    BY AmountsAssumption DEF Hold
  <2> QED
    BY <2>1, NoRowAssumption
<1>5. Explained(d, s)
  BY DEF LedgerExplainsReservations
<1>6. CASE s # r
  BY <1>2, <1>3, <1>5, <1>6, ExplainedKept DEF TypeOK
<1>7. CASE s = r
  <2>1. s \notin RequestsOf(d)
    BY <1>7 DEF Reserve, RequestsOf
  <2>2. \A type \in {"reserve", "release", "debit"} : Posted(d, type, s) = {}
    BY <1>5, <2>1 DEF Explained
  <2>3. reservations'[s] = Hold(c, amount)
    BY <1>3, <1>7 DEF TypeOK
  <2>4. CASE d # c
    <3>1. s \notin RequestsOf(d)'
      BY <2>3, <2>4 DEF RequestsOf, Hold
    <3> QED
      BY <1>2, <2>2, <2>4, <3>1 DEF Explained
  <2>5. CASE d = c
    <3>1. /\ Posted(d, "reserve", s)' = {<<n + 1, -amount>>}
          /\ Posted(d, "release", s)' = {} /\ Posted(d, "debit", s)' = {}
      BY <1>2, <1>7, <2>2, <2>5
    <3>2. Once(Posted(d, "reserve", s)', -amount)
      BY <3>1, PostedOnce
    <3>3. s \in RequestsOf(d)'
      BY <1>4, <2>3, <2>5 DEF RequestsOf, Hold
    <3> QED
      BY <2>3, <3>1, <3>2, <3>3 DEF Explained, Hold, Once
  <2> QED
    BY <2>4, <2>5
<1> QED
  BY <1>6, <1>7

LEMMA FinalizeExplained ==
    ASSUME TypeOK, LedgerExplainsReservations,
           NEW r \in Requests, NEW actual \in Charges, NEW success \in BOOLEAN,
           Finalize(r, actual, success), NEW d \in Consumers, NEW s \in Requests
    PROVE  Explained(d, s)'
<1> DEFINE row == reservations[r]
           c == row.consumer
           charge == ChargeFor(actual, success, row.reserved)
           n == Len(ledger[c])
           after == BalanceOf(c) + row.reserved - charge
           entries == SettlementEntries(r, row.reserved, charge, BalanceOf(c))
<1>1. row \in Reservation /\ charge \in 0..row.reserved /\ Posting(c, after, entries)
  BY FinalizePosts
<1>2. c \in Consumers /\ row.reserved \in Nat /\ charge \in Nat /\ BalanceOf(c) \in Int
  BY <1>1, BalanceType DEF Reservation
<1>3. n \in Nat
  BY <1>2 DEF TypeOK
<1>4. reservations' = [reservations EXCEPT ![r] = Settled(row, charge)]
  BY DEF Finalize
<1>5. row # NoRow /\ row.status = "reserved"
  BY DEF Finalize
<1> HIDE DEF row, c, charge, n, after, entries
<1>6. \A type : Posted(d, type, s)' =
        IF d = c THEN Posted(d, type, s) \union Added(n, entries, type, s) ELSE Posted(d, type, s)
  BY <1>1, PostedAfter DEF n
<1>7. \A type : Added(n, entries, type, s) =
        (IF type = "release" /\ s = r THEN {<<n + 1, row.reserved>>} ELSE {})
          \union (IF type = "debit" /\ s = r /\ charge > 0 THEN {<<n + 2, -charge>>} ELSE {})
  BY <1>1, <1>2, <1>3, AddedBySettlement DEF entries
<1>8. Explained(d, s)
  BY DEF LedgerExplainsReservations
<1>9. CASE s # r
  BY <1>4, <1>6, <1>7, <1>8, <1>9, ExplainedKept DEF TypeOK
<1>10. CASE s = r
  <2>1. /\ reservations'[s] = Settled(row, charge)
        /\ Settled(row, charge).consumer = c /\ Settled(row, charge).reserved = row.reserved
        /\ Settled(row, charge).charged = charge
        /\ Settled(row, charge).status = IF charge > 0 THEN "finalized" ELSE "released"
    BY <1>1, <1>4, <1>10 DEF TypeOK, Settled, Reservation, c
  <2>2. Settled(row, charge) # NoRow
    BY <1>1, <1>2, SettledType, NoRowAssumption DEF Reservation, Statuses
  <2>3. CASE d # c
    <3>1. s \notin RequestsOf(d) /\ s \notin RequestsOf(d)'
      BY <1>10, <2>1, <2>3 DEF RequestsOf, row, c
    <3> QED
      BY <1>6, <1>8, <2>3, <3>1 DEF Explained
  <2>4. CASE d = c
    <3>1. s \in RequestsOf(d) /\ s \in RequestsOf(d)'
      BY <1>5, <1>10, <2>1, <2>2, <2>4 DEF RequestsOf, row, c
    <3>2. /\ Once(Posted(d, "reserve", s), -row.reserved)
          /\ Posted(d, "release", s) = {} /\ Posted(d, "debit", s) = {}
      BY <1>5, <1>8, <1>10, <3>1 DEF Explained, row
    <3>3. /\ Posted(d, "reserve", s)' = Posted(d, "reserve", s)
          /\ Posted(d, "release", s)' = {<<n + 1, row.reserved>>}
          /\ Posted(d, "debit", s)' = IF charge > 0 THEN {<<n + 2, -charge>>} ELSE {}
      <4>1. /\ Added(n, entries, "reserve", s) = {}
            /\ Added(n, entries, "release", s) = {<<n + 1, row.reserved>>}
            /\ Added(n, entries, "debit", s) = IF charge > 0 THEN {<<n + 2, -charge>>} ELSE {}
        BY <1>7, <1>10
      <4> QED
        BY <1>6, <2>4, <3>2, <4>1
    <3>4. /\ Once(Posted(d, "reserve", s)', -row.reserved)
          /\ Once(Posted(d, "release", s)', row.reserved)
      BY <3>2, <3>3, PostedOnce
    <3>5. CASE charge > 0
      <4>1. Once(Posted(d, "debit", s)', -charge)
        BY <3>3, <3>5, PostedOnce
      <4> QED
        BY <2>1, <3>1, <3>4, <3>5, <4>1 DEF Explained, Once
    <3>6. CASE ~(charge > 0)
      <4>1. charge = 0 /\ Posted(d, "debit", s)' = {}
        BY <1>2, <3>3, <3>6
      <4> QED
        BY <2>1, <3>1, <3>4, <3>6, <4>1 DEF Explained, Once
    <3> QED
      BY <3>5, <3>6
  <2> QED
    BY <2>3, <2>4
<1> QED
  BY <1>9, <1>10

\* A credit entry says nothing about requests.
LEMMA CreditExplained ==
    ASSUME TypeOK, LedgerExplainsReservations, NEW c, NEW after, NEW ref, NEW amount,
           Posting(c, after, <<NewEntry("credit", ref, amount, after)>>),
           UNCHANGED reservations
    PROVE  LedgerExplainsReservations'
<1> SUFFICES ASSUME NEW d \in Consumers, NEW s \in Requests
             PROVE  Explained(d, s)'
  BY DEF LedgerExplainsReservations
<1>1. Len(ledger[c]) \in Nat
  BY DEF TypeOK, Posting
<1>2. ASSUME NEW type \in {"reserve", "release", "debit"}
      PROVE  Posted(d, type, s)' = Posted(d, type, s)
  <2> DEFINE entries == <<NewEntry("credit", ref, amount, after)>>
  <2>1. Added(Len(ledger[c]), entries, type, s) = {}
    BY <1>1, AddedByOne
  <2>2. Posting(c, after, entries)
    OBVIOUS
  <2> HIDE DEF entries
  <2>3. CASE d = c
    <3>1. Posted(d, type, s)' =
            Posted(d, type, s) \union Added(Len(ledger[c]), entries, type, s)
      BY <2>2, <2>3, PostedAfter
    <3> QED
      BY <2>1, <3>1
  <2>4. CASE d # c
    BY <2>2, <2>4, PostedAfter
  <2> QED
    BY <2>3, <2>4
<1> QED
  BY <1>2, ExplainedKept DEF LedgerExplainsReservations

LEMMA ExplainedStep ==
    ASSUME TypeOK, LedgerExplainsReservations, [Next]_vars
    PROVE  LedgerExplainsReservations'
<1>1. ASSUME NEW c \in Consumers, NEW r \in Requests, NEW amount \in Amounts,
             Reserve(c, r, amount)
      PROVE  LedgerExplainsReservations'
  BY <1>1, ReserveExplained DEF LedgerExplainsReservations
<1>2. ASSUME NEW r \in Requests, NEW actual \in Charges, NEW success \in BOOLEAN,
             Finalize(r, actual, success)
      PROVE  LedgerExplainsReservations'
  BY <1>2, FinalizeExplained DEF LedgerExplainsReservations
<1>3. ASSUME NEW c \in Consumers, NEW amount \in Amounts, Credit(c, amount)
      PROVE  LedgerExplainsReservations'
  BY <1>3, CreditPosts, CreditExplained DEF Credit
<1>4. ASSUME NEW f \in Fingerprints, Topup(f)
      PROVE  LedgerExplainsReservations'
  BY <1>4, TopupPosts, CreditExplained DEF Topup
<1>5. CASE UNCHANGED vars
  BY <1>5, SMTT(30) DEF vars, LedgerExplainsReservations, Explained, RequestsOf, Posted, Once
<1> QED
  BY <1>1, <1>2, <1>3, <1>4, <1>5 DEF Next

-----------------------------------------------------------------------------
\* What is posted of a payment still counts when neither of them changes.
LEMMA CreditedKept ==
    ASSUME NEW c \in Consumers, NEW f \in Fingerprints, CreditedOnce(c, f),
           f \in topups' <=> f \in topups,
           Posted(c, "credit", f)' = Posted(c, "credit", f)
    PROVE  CreditedOnce(c, f)'
BY DEF CreditedOnce

\* Posting anything but a credit entry of the payment itself leaves it as it was.
LEMMA CreditedElsewhere ==
    ASSUME TypeOK, TopupCreditedOnce, NEW c, NEW after, NEW entries,
           Posting(c, after, entries), NEW f \in Fingerprints, f \in topups' <=> f \in topups,
           Added(Len(ledger[c]), entries, "credit", f) = {}, NEW d \in Consumers
    PROVE  CreditedOnce(d, f)'
<1>1. Posted(d, "credit", f)' = Posted(d, "credit", f)
  <2>1. CASE d = c
    <3>1. Posted(d, "credit", f)' =
            Posted(d, "credit", f) \union Added(Len(ledger[c]), entries, "credit", f)
      BY <2>1, PostedAfter
    <3> QED
      BY <3>1
  <2>2. CASE d # c
    BY <2>2, PostedAfter
  <2> QED
    BY <2>1, <2>2
<1> QED
  BY <1>1, CreditedKept DEF TopupCreditedOnce

LEMMA TopupCredited ==
    ASSUME TypeOK, TopupCreditedOnce, NEW f \in Fingerprints, Topup(f),
           NEW d \in Consumers, NEW g \in Fingerprints
    PROVE  CreditedOnce(d, g)'
<1> DEFINE c == PaymentOf[f].payer
           amount == PaymentOf[f].amount
           after == BalanceOf(c) + amount
           entries == <<NewEntry("credit", f, amount, after)>>
           n == Len(ledger[c])
<1>1. Posting(c, after, entries) /\ c \in Consumers
  BY TopupPosts DEF Posting
<1>2. n \in Nat
  BY <1>1 DEF TypeOK
<1>3. Added(n, entries, "credit", g) = IF f = g THEN {<<n + 1, amount>>} ELSE {}
  <2>1. ASSUME NEW paid, NEW left
        PROVE  Added(n, <<NewEntry("credit", f, paid, left)>>, "credit", g) =
                 IF "credit" = "credit" /\ f = g THEN {<<n + 1, paid>>} ELSE {}
    <3> HIDE DEF n
    <3> QED
      BY <1>2, AddedByOne, Zenon
  <2> QED
    BY <2>1
<1>4. f \notin topups /\ topups' = topups \union {f}
  BY DEF Topup
<1> HIDE DEF c, amount, after, entries, n
<1>5. CASE g # f
  BY <1>1, <1>3, <1>4, <1>5, CreditedElsewhere DEF n
<1>6. CASE g = f
  <2>1. Posted(d, "credit", g) = {}
    BY <1>4, <1>6 DEF TopupCreditedOnce, CreditedOnce
  <2>2. Posted(d, "credit", g)' = IF d = c THEN {<<n + 1, amount>>} ELSE {}
    BY <1>1, <1>3, <1>6, <2>1, PostedAfter DEF n
  <2>3. CASE d = c
    <3>1. Once(Posted(d, "credit", g)', amount)
      BY <2>2, <2>3, PostedOnce
    <3> QED
      BY <1>4, <1>6, <2>3, <3>1 DEF CreditedOnce, c, amount
  <2>4. CASE d # c
    BY <1>6, <2>2, <2>4 DEF CreditedOnce, c
  <2> QED
    BY <2>3, <2>4
<1> QED
  BY <1>5, <1>6

LEMMA CreditedStep ==
    ASSUME TypeOK, TopupCreditedOnce, [Next]_vars
    PROVE  TopupCreditedOnce'
<1>1. ASSUME NEW c \in Consumers, NEW r \in Requests, NEW amount \in Amounts,
             Reserve(c, r, amount)
      PROVE  TopupCreditedOnce'
  <2> DEFINE after == BalanceOf(c) - amount
             entries == <<NewEntry("reserve", r, -amount, after)>>
  <2>1. Posting(c, after, entries) /\ Len(ledger[c]) \in Nat
    BY <1>1, ReservePosts DEF TypeOK
  <2>2. \A f : Added(Len(ledger[c]), entries, "credit", f) = {}
    <3> HIDE DEF after
    <3> QED
      BY <2>1, AddedByOne
  <2> HIDE DEF after, entries
  <2> QED
    BY <1>1, <2>1, <2>2, CreditedElsewhere DEF TopupCreditedOnce, Reserve
<1>2. ASSUME NEW r \in Requests, NEW actual \in Charges, NEW success \in BOOLEAN,
             Finalize(r, actual, success)
      PROVE  TopupCreditedOnce'
  <2> DEFINE row == reservations[r]
             c == row.consumer
             charge == ChargeFor(actual, success, row.reserved)
             after == BalanceOf(c) + row.reserved - charge
             entries == SettlementEntries(r, row.reserved, charge, BalanceOf(c))
  <2>1. row \in Reservation /\ charge \in 0..row.reserved /\ Posting(c, after, entries)
    BY <1>2, FinalizePosts
  <2>2. c \in Consumers /\ row.reserved \in Nat
    BY <2>1 DEF Reservation
  <2>3. BalanceOf(c) \in Int /\ Len(ledger[c]) \in Nat
    BY <2>2, BalanceType DEF TypeOK
  <2> HIDE DEF row, c, charge, after
  <2>4. \A f : Added(Len(ledger[c]), entries, "credit", f) = {}
    BY <2>1, <2>2, <2>3, AddedBySettlement
  <2> HIDE DEF entries
  <2> QED
    BY <1>2, <2>1, <2>4, CreditedElsewhere DEF TopupCreditedOnce, Finalize
<1>3. ASSUME NEW c \in Consumers, NEW amount \in Amounts, Credit(c, amount)
      PROVE  TopupCreditedOnce'
  <2> DEFINE after == BalanceOf(c) + amount
             entries == <<NewEntry("credit", NoRow, amount, after)>>
  <2>1. Posting(c, after, entries) /\ Len(ledger[c]) \in Nat
    BY <1>3, CreditPosts DEF TypeOK
  <2>2. \A f \in Fingerprints : Added(Len(ledger[c]), entries, "credit", f) = {}
    <3> HIDE DEF after
    <3> QED
      BY <2>1, AddedByOne, ReferenceAssumption
  <2> HIDE DEF after, entries
  <2> QED
    BY <1>3, <2>1, <2>2, CreditedElsewhere DEF TopupCreditedOnce, Credit
<1>4. ASSUME NEW f \in Fingerprints, Topup(f)
      PROVE  TopupCreditedOnce'
  BY <1>4, TopupCredited DEF TopupCreditedOnce
<1>5. CASE UNCHANGED vars
  BY <1>5 DEF vars, TopupCreditedOnce, CreditedOnce, Posted, Once
<1> QED
  BY <1>1, <1>2, <1>3, <1>4, <1>5 DEF Next

-----------------------------------------------------------------------------
(***************************************************************************)
(* Sums.  SumFunctionOnSet is a recursive function on a set's subsets;     *)
(* what it computes on finite sets follows by looking at a smallest subset *)
(* for which it would not.                                                 *)
(***************************************************************************)
\* Of a family of subsets of a finite set, one has no smaller one below it.
LEMMA SmallestSubset ==
    ASSUME NEW S, IsFiniteSet(S), NEW family \in SUBSET SUBSET S, family # {}
    PROVE  \E T \in family : \A U \in SUBSET T : U \in family => U = T
<1>1. IsWellFoundedOn(StrictSubsetOrdering(S), FiniteSubsetsOf(S))
  BY FS_StrictSubsetOrderingWellFounded
<1>2. family \subseteq FiniteSubsetsOf(S)
  BY FS_FiniteSubsetsOfFinite
<1>3. \E T \in family : \A U \in family : ~ (<<U, T>> \in StrictSubsetOrdering(S))
  BY <1>1, <1>2, WFMin
<1> QED
  BY <1>3 DEF StrictSubsetOrdering

\* What a sum takes away first, and what it leaves.
Picked(s) == CHOOSE x \in s : TRUE
Others(s) == s \ {Picked(s)}

\* sum adds up the values of f on every subset of S.
Adds(sum, f, S) ==
    sum = [s \in SUBSET S |-> IF s = {} THEN 0 ELSE f[Picked(s)] + sum[Others(s)]]

LEMMA PickedIsIn ==
    ASSUME NEW S, NEW s \in SUBSET S, s # {}
    PROVE  Picked(s) \in s /\ Others(s) \in SUBSET S /\ Others(s) \in SUBSET s /\ Others(s) # s
BY DEF Picked, Others

LEMMA AddsAt ==
    ASSUME NEW S, NEW f, NEW sum, Adds(sum, f, S), NEW s \in SUBSET S
    PROVE  sum[s] = IF s = {} THEN 0 ELSE f[Picked(s)] + sum[Others(s)]
<1> DEFINE rhs(x) == IF x = {} THEN 0 ELSE f[Picked(x)] + sum[Others(x)]
<1>1. sum = [x \in SUBSET S |-> rhs(x)]
  BY DEF Adds
<1> HIDE DEF rhs
<1>2. sum[s] = rhs(s)
  BY <1>1
<1> QED
  BY <1>2 DEF rhs

\* There is one such sum at most.
LEMMA AddsOneWay ==
    ASSUME NEW S, IsFiniteSet(S), NEW f, NEW g, NEW T \in SUBSET S,
           \A x \in T : f[x] = g[x],
           NEW sum, NEW tally, Adds(sum, f, S), Adds(tally, g, T)
    PROVE  sum[T] = tally[T]
<1> DEFINE different == {s \in SUBSET T : sum[s] # tally[s]}
<1>1. ASSUME NEW s \in different, \A U \in SUBSET s : U \in different => U = s
      PROVE  FALSE
  <2>1. s \in SUBSET S /\ s \in SUBSET T
    OBVIOUS
  <2>2. /\ sum[s] = IF s = {} THEN 0 ELSE f[Picked(s)] + sum[Others(s)]
        /\ tally[s] = IF s = {} THEN 0 ELSE g[Picked(s)] + tally[Others(s)]
    BY <2>1, AddsAt
  <2>3. s # {}
    BY <2>2
  <2>4. Picked(s) \in T /\ Others(s) \in SUBSET T /\ Others(s) \in SUBSET s /\ Others(s) # s
    BY <2>1, <2>3, PickedIsIn
  <2>5. sum[Others(s)] = tally[Others(s)]
    BY <1>1, <2>4
  <2> QED
    BY <2>2, <2>3, <2>4, <2>5
<1>2. different \in SUBSET SUBSET S
  OBVIOUS
<1>3. different = {}
  <2> HIDE DEF different
  <2> QED
    BY <1>1, <1>2, SmallestSubset
<1> QED
  BY <1>3

\* There is one.
LEMMA AddsExists ==
    ASSUME NEW S, IsFiniteSet(S), NEW f
    PROVE  \E sum : Adds(sum, f, S)
<1> DEFINE open == {T \in SUBSET S : ~ \E sum : Adds(sum, f, T)}
<1>1. ASSUME NEW T \in open, \A U \in SUBSET T : U \in open => U = T
      PROVE  FALSE
  <2> DEFINE sumOf(U) == CHOOSE sum : Adds(sum, f, U)
             total == [s \in SUBSET T |->
                         IF s = {} THEN 0 ELSE f[Picked(s)] + sumOf(Others(s))[Others(s)]]
  <2>1. T \in SUBSET S /\ IsFiniteSet(T) /\ ~ \E sum : Adds(sum, f, T)
    BY FS_Subset
  <2>2. ASSUME NEW U \in SUBSET T, U # T
        PROVE  Adds(sumOf(U), f, U)
    <3>1. \E sum : Adds(sum, f, U)
      BY <1>1, <2>1, <2>2
    <3> QED
      BY <3>1, Zenon
  <2>3. ASSUME NEW s \in SUBSET T, s # {}
        PROVE  sumOf(Others(s))[Others(s)] = total[Others(s)]
    <3> DEFINE U == Others(s)
    <3>1. U \in SUBSET T /\ U # T
      BY <2>3, PickedIsIn
    <3>2. CASE U = {}
      <4>1. sumOf(U)[U] = 0
        BY <2>2, <3>1, <3>2, AddsAt
      <4> QED
        BY <3>1, <3>2, <4>1
    <3>3. CASE U # {}
      <4> DEFINE V == Others(U)
      <4>1. V \in SUBSET U /\ V # U /\ V \in SUBSET T /\ V # T
        BY <3>1, <3>3, PickedIsIn
      <4>2. sumOf(U)[U] = f[Picked(U)] + sumOf(U)[V]
        <5>1. Adds(sumOf(U), f, U) /\ U \in SUBSET U
          BY <2>2, <3>1
        <5> HIDE DEF sumOf, U
        <5> QED
          BY <3>3, <5>1, AddsAt
      <4>3. sumOf(U)[V] = sumOf(V)[V]
        <5>1. Adds(sumOf(U), f, U) /\ Adds(sumOf(V), f, V) /\ IsFiniteSet(U)
          BY <2>1, <2>2, <3>1, <4>1, FS_Subset
        <5> HIDE DEF sumOf, U, V
        <5> QED
          BY <4>1, <5>1, AddsOneWay
      <4>4. total[U] = f[Picked(U)] + sumOf(V)[V]
        <5> HIDE DEF sumOf, U
        <5> QED
          BY <3>1, <3>3
      <4> QED
        BY <4>2, <4>3, <4>4
    <3> QED
      BY <3>2, <3>3
  <2>4. Adds(total, f, T)
    <3>1. total = [s \in SUBSET T |-> IF s = {} THEN 0 ELSE f[Picked(s)] + total[Others(s)]]
      <4> DEFINE rhs(s) == IF s = {} THEN 0 ELSE f[Picked(s)] + total[Others(s)]
                 lhs(s) == IF s = {} THEN 0 ELSE f[Picked(s)] + sumOf(Others(s))[Others(s)]
      <4>1. \A s \in SUBSET T : lhs(s) = rhs(s)
        <5> HIDE DEF sumOf, total
        <5> QED
          BY <2>3
      <4>2. total = [s \in SUBSET T |-> lhs(s)]
        OBVIOUS
      <4> HIDE DEF lhs, rhs, total
      <4>3. total = [s \in SUBSET T |-> rhs(s)]
        BY <4>1, <4>2
      <4> QED
        BY <4>3 DEF rhs
    <3> HIDE DEF total
    <3> QED
      BY <3>1 DEF Adds
  <2> QED
    BY <2>1, <2>4
<1>2. open \in SUBSET SUBSET S /\ (S \notin open => \E sum : Adds(sum, f, S))
  OBVIOUS
<1>3. open = {}
  <2> HIDE DEF open
  <2> QED
    BY <1>1, <1>2, SmallestSubset
<1> QED
  BY <1>2, <1>3


\* The community module's sum is the sum that adds up.
LEMMA SumAdds ==
    ASSUME NEW f, NEW S, IsFiniteSet(S)
    PROVE  \E sum : Adds(sum, f, S) /\ SumFunctionOnSet(f, S) = sum[S]
<1> DEFINE sum == CHOOSE total : Adds(total, f, S)
<1>1. SumFunctionOnSet(f, S) = sum[S]
  BY Zenon DEF SumFunctionOnSet, FoldFunctionOnSet, MapThenFoldSet, Adds, Picked, Others
<1>2. Adds(sum, f, S)
  BY AddsExists, Zenon
<1> QED
  BY <1>1, <1>2, Zenon

LEMMA SumSame ==
    ASSUME NEW f, NEW g, NEW S, IsFiniteSet(S), \A x \in S : f[x] = g[x]
    PROVE  SumFunctionOnSet(f, S) = SumFunctionOnSet(g, S)
<1>1. PICK sum : Adds(sum, f, S) /\ SumFunctionOnSet(f, S) = sum[S]
  BY SumAdds
<1>2. PICK tally : Adds(tally, g, S) /\ SumFunctionOnSet(g, S) = tally[S]
  BY SumAdds
<1>3. sum[S] = tally[S]
  BY <1>1, <1>2, AddsOneWay
<1> QED
  BY <1>1, <1>2, <1>3

LEMMA SumEmpty == ASSUME NEW f PROVE SumFunctionOnSet(f, {}) = 0
<1>1. IsFiniteSet({})
  BY FS_EmptySet
<1>2. PICK sum : Adds(sum, f, {}) /\ SumFunctionOnSet(f, {}) = sum[{}]
  BY <1>1, SumAdds
<1> QED
  BY <1>2, AddsAt

LEMMA SumPick ==
    ASSUME NEW f, NEW S, IsFiniteSet(S), S # {}
    PROVE  SumFunctionOnSet(f, S) = f[Picked(S)] + SumFunctionOnSet(f, Others(S))
<1>1. PICK sum : Adds(sum, f, S) /\ SumFunctionOnSet(f, S) = sum[S]
  BY SumAdds
<1>2. Others(S) \in SUBSET S /\ IsFiniteSet(Others(S))
  BY PickedIsIn, FS_Subset
<1>3. PICK rest : Adds(rest, f, Others(S)) /\ SumFunctionOnSet(f, Others(S)) = rest[Others(S)]
  BY <1>2, SumAdds
<1>4. sum[Others(S)] = rest[Others(S)]
  BY <1>1, <1>2, <1>3, AddsOneWay
<1>5. sum[S] = f[Picked(S)] + sum[Others(S)]
  BY <1>1, AddsAt
<1> QED
  BY <1>1, <1>3, <1>4, <1>5

LEMMA SumType ==
    ASSUME NEW S, IsFiniteSet(S), NEW f, \A x \in S : f[x] \in Int
    PROVE  SumFunctionOnSet(f, S) \in Int
<1> DEFINE bad == {T \in SUBSET S : SumFunctionOnSet(f, T) \notin Int}
<1>1. ASSUME NEW T \in bad, \A U \in SUBSET T : U \in bad => U = T
      PROVE  FALSE
  <2>1. T # {}
    BY SumEmpty
  <2>2. Picked(T) \in S /\ Others(T) \in SUBSET S /\ Others(T) \in SUBSET T /\ Others(T) # T
    BY <2>1, PickedIsIn
  <2>3. SumFunctionOnSet(f, Others(T)) \in Int
    BY <1>1, <2>2
  <2>4. IsFiniteSet(T)
    BY FS_Subset
  <2>5. SumFunctionOnSet(f, T) = f[Picked(T)] + SumFunctionOnSet(f, Others(T))
    BY <2>1, <2>4, SumPick
  <2> QED
    BY <2>2, <2>3, <2>5
<1>2. bad \in SUBSET SUBSET S /\ (S \notin bad => SumFunctionOnSet(f, S) \in Int)
  OBVIOUS
<1>3. bad = {}
  <2> HIDE DEF bad
  <2> QED
    BY <1>1, <1>2, SmallestSubset
<1> QED
  BY <1>2, <1>3

\* A sum does not depend on what is taken away first.
LEMMA SumWithout ==
    ASSUME NEW S, IsFiniteSet(S), NEW f, \A x \in S : f[x] \in Int, NEW x \in S
    PROVE  SumFunctionOnSet(f, S) = f[x] + SumFunctionOnSet(f, S \ {x})
<1> DEFINE bad == {T \in SUBSET S : \E y \in T : SumFunctionOnSet(f, T) # f[y] + SumFunctionOnSet(f, T \ {y})}
<1>1. ASSUME NEW T \in bad, \A U \in SUBSET T : U \in bad => U = T
      PROVE  FALSE
  <2>1. PICK y \in T : SumFunctionOnSet(f, T) # f[y] + SumFunctionOnSet(f, T \ {y})
    OBVIOUS
  <2> DEFINE p == Picked(T)  both == (T \ {p}) \ {y}
  <2>2. T # {} /\ p \in T /\ Others(T) = T \ {p}
    BY <2>1, PickedIsIn DEF Others
  <2>3. IsFiniteSet(T) /\ IsFiniteSet(both)
    BY FS_Subset
  <2>4. SumFunctionOnSet(f, T) = f[p] + SumFunctionOnSet(f, T \ {p})
    BY <2>2, <2>3, SumPick
  <2>5. y # p
    BY <2>1, <2>4
  <2>6. ASSUME NEW z \in T, NEW w \in T, w # z
        PROVE  SumFunctionOnSet(f, T \ {z}) = f[w] + SumFunctionOnSet(f, (T \ {z}) \ {w})
    <3>1. T \ {z} \in SUBSET T /\ T \ {z} # T /\ T \ {z} \in SUBSET S /\ w \in T \ {z}
      BY <2>6
    <3>2. T \ {z} \notin bad
      <4> HIDE DEF bad
      <4> QED
        BY <1>1, <3>1
    <3> QED
      BY <3>1, <3>2
  <2>7. /\ SumFunctionOnSet(f, T \ {p}) = f[y] + SumFunctionOnSet(f, both)
        /\ SumFunctionOnSet(f, T \ {y}) = f[p] + SumFunctionOnSet(f, both)
    <3>1. (T \ {y}) \ {p} = both
      OBVIOUS
    <3> QED
      BY <2>2, <2>5, <2>6, <3>1
  <2>8. SumFunctionOnSet(f, both) \in Int /\ f[p] \in Int /\ f[y] \in Int
    BY <2>2, <2>3, SumType
  <2> QED
    BY <2>1, <2>4, <2>7, <2>8
<1>2. bad \in SUBSET SUBSET S /\ (S \notin bad => SumFunctionOnSet(f, S) = f[x] + SumFunctionOnSet(f, S \ {x}))
  OBVIOUS
<1>3. bad = {}
  <2> HIDE DEF bad
  <2> QED
    BY <1>1, <1>2, SmallestSubset
<1> QED
  BY <1>2, <1>3

\* Adding an element to a set adds its value, when the others keep theirs.
LEMMA SumPlus ==
    ASSUME NEW S, IsFiniteSet(S), NEW x, x \notin S, NEW f, NEW g,
           \A y \in S : f[y] = g[y], \A y \in S \union {x} : g[y] \in Int
    PROVE  SumFunctionOnSet(g, S \union {x}) = SumFunctionOnSet(f, S) + g[x]
<1>1. IsFiniteSet(S \union {x})
  BY FS_AddElement
<1>2. SumFunctionOnSet(g, S \union {x}) = g[x] + SumFunctionOnSet(g, (S \union {x}) \ {x})
  BY <1>1, SumWithout
<1>3. (S \union {x}) \ {x} = S
  OBVIOUS
<1>4. SumFunctionOnSet(g, S) = SumFunctionOnSet(f, S)
  BY SumSame
<1>5. SumFunctionOnSet(g, S) \in Int
  BY SumType
<1>6. g[x] \in Int
  OBVIOUS
<1>7. SumFunctionOnSet(g, S \union {x}) = g[x] + SumFunctionOnSet(f, S)
  BY <1>2, <1>3, <1>4
<1> QED
  BY <1>4, <1>5, <1>6, <1>7

\* Two values of a set that differ by delta at one element have totals that do.
LEMMA SumChanged ==
    ASSUME NEW S, IsFiniteSet(S), NEW x \in S, NEW f, NEW g,
           \A y \in S \ {x} : f[y] = g[y],
           \A y \in S : f[y] \in Int /\ g[y] \in Int
    PROVE  SumFunctionOnSet(g, S) = SumFunctionOnSet(f, S) + g[x] - f[x]
<1>1. IsFiniteSet(S \ {x})
  BY FS_RemoveElement
<1>2. SumFunctionOnSet(g, S) = g[x] + SumFunctionOnSet(g, S \ {x}) /\ SumFunctionOnSet(f, S) = f[x] + SumFunctionOnSet(f, S \ {x})
  BY SumWithout
<1>3. SumFunctionOnSet(g, S \ {x}) = SumFunctionOnSet(f, S \ {x})
  BY <1>1, SumSame
<1>4. SumFunctionOnSet(f, S \ {x}) \in Int
  BY <1>1, SumType
<1> QED
  BY <1>2, <1>3, <1>4

-----------------------------------------------------------------------------
\* What Conservation adds up: the credits of a ledger, the holds and the costs of rows.
AmountsIn(entries) == [i \in CreditsIn(entries) |-> entries[i].amount]
HoldsIn(rows, S) == [r \in S |-> rows[r].reserved]
CostsIn(rows, S) == [r \in S |-> rows[r].charged]

LEMMA SumsAre ==
    ASSUME NEW c
    PROVE  /\ PaidIn(c) = SumFunctionOnSet(AmountsIn(ledger[c]), CreditsIn(ledger[c]))
           /\ Held(c) = SumFunctionOnSet(HoldsIn(reservations, HoldsOf(c)), HoldsOf(c))
           /\ Spent(c) = SumFunctionOnSet(CostsIn(reservations, RequestsOf(c)), RequestsOf(c))
           /\ PaidIn(c)' = SumFunctionOnSet(AmountsIn(ledger'[c]), CreditsIn(ledger'[c]))
           /\ Held(c)' = SumFunctionOnSet(HoldsIn(reservations', HoldsOf(c)'), HoldsOf(c)')
           /\ Spent(c)' =
                SumFunctionOnSet(CostsIn(reservations', RequestsOf(c)'), RequestsOf(c)')
BY DEF PaidIn, Held, Spent, SumFunction, AmountsIn, HoldsIn, CostsIn

\* Only finitely many requests have a row at any time.
FewRows == IsFiniteSet({r \in Requests : reservations[r] # NoRow})

LEMMA FewRequests ==
    ASSUME TypeOK, FewRows, NEW c \in Consumers
    PROVE  /\ IsFiniteSet(RequestsOf(c)) /\ IsFiniteSet(HoldsOf(c))
           /\ \A r \in RequestsOf(c) : reservations[r] \in Reservation
           /\ Held(c) \in Int /\ Spent(c) \in Int
<1>1. RequestsOf(c) \in SUBSET {r \in Requests : reservations[r] # NoRow}
      /\ HoldsOf(c) \in SUBSET RequestsOf(c)
  BY DEF RequestsOf, HoldsOf
<1>2. IsFiniteSet(RequestsOf(c)) /\ IsFiniteSet(HoldsOf(c))
  BY <1>1, FS_Subset DEF FewRows
<1>3. \A r \in RequestsOf(c) : reservations[r] \in Reservation
  BY DEF TypeOK, RequestsOf
<1>4. /\ \A r \in HoldsOf(c) : HoldsIn(reservations, HoldsOf(c))[r] \in Int
      /\ \A r \in RequestsOf(c) : CostsIn(reservations, RequestsOf(c))[r] \in Int
  BY <1>1, <1>3 DEF HoldsIn, CostsIn, Reservation
<1> QED
  BY <1>2, <1>3, <1>4, SumsAre, SumType

LEMMA FewCredits ==
    ASSUME TypeOK, NEW c \in Consumers
    PROVE  /\ IsFiniteSet(CreditsIn(ledger[c]))
           /\ \A i \in CreditsIn(ledger[c]) : ledger[c][i].amount \in Int
           /\ PaidIn(c) \in Int
<1>1. ledger[c] \in Seq(Entry) /\ Len(ledger[c]) \in Int
  BY DEF TypeOK
<1>2. IsFiniteSet(1..Len(ledger[c])) /\ CreditsIn(ledger[c]) \in SUBSET (1..Len(ledger[c]))
  BY <1>1, FS_Interval DEF CreditsIn
<1>3. IsFiniteSet(CreditsIn(ledger[c]))
  BY <1>2, FS_Subset
<1>4. \A i \in CreditsIn(ledger[c]) : ledger[c][i].amount \in Int
  <2>1. \A i \in 1..Len(ledger[c]) : ledger[c][i] \in Entry
    BY <1>1
  <2> QED
    BY <2>1 DEF CreditsIn, Entry
<1>5. \A i \in CreditsIn(ledger[c]) : AmountsIn(ledger[c])[i] \in Int
  BY <1>4 DEF AmountsIn
<1> QED
  BY <1>3, <1>4, <1>5, SumsAre, SumType

\* Entries that are no credits pay nothing in.
LEMMA NothingPaidIn ==
    ASSUME TypeOK, NEW c, NEW after, NEW entries, Posting(c, after, entries),
           \A j \in 1..Len(entries) : entries[j].type # "credit", NEW d \in Consumers
    PROVE  PaidIn(d)' = PaidIn(d)
<1>1. c \in Consumers /\ ledger[c] \in Seq(Entry) /\ entries \in Seq(Entry)
  BY DEF TypeOK, Posting
<1>2. ledger' = [ledger EXCEPT ![c] = ledger[c] \o entries]
  BY DEF Posting, Post
<1>3. AmountsIn(ledger'[d]) = AmountsIn(ledger[d]) /\ CreditsIn(ledger'[d]) = CreditsIn(ledger[d])
  <2>1. CASE d # c
    <3>1. ledger'[d] = ledger[d]
      BY <1>2, <2>1 DEF TypeOK
    <3> QED
      BY <3>1
  <2>2. CASE d = c
    <3> DEFINE old == ledger[c]  new == ledger'[d]  n == Len(old)  m == Len(entries)
    <3>1. new = old \o entries
      BY <1>1, <1>2, <2>2 DEF TypeOK
    <3> HIDE DEF new
    <3>2. /\ n \in Nat /\ m \in Nat /\ Len(new) = n + m
          /\ \A k \in 1..(n + m) : new[k] = IF k <= n THEN old[k] ELSE entries[k - n]
      BY <1>1, <3>1, ConcatProperties
    <3> HIDE DEF old, n, m
    <3>3. \A k \in 1..(n + m) : k > n => new[k].type # "credit"
      <4>1. ASSUME NEW k \in 1..(n + m), k > n
            PROVE  k - n \in 1..m /\ new[k] = entries[k - n]
        BY <3>2, <4>1
      <4> QED
        BY <4>1 DEF m
    <3>4. CreditsIn(new) = CreditsIn(old)
      BY <3>2, <3>3 DEF CreditsIn, n
    <3>5. \A k \in CreditsIn(old) : new[k] = old[k]
      BY <3>2 DEF CreditsIn, n
    <3>6. AmountsIn(new) = AmountsIn(old)
      BY <3>4, <3>5 DEF AmountsIn
    <3> QED
      BY <2>2, <3>4, <3>6 DEF new, old
  <2> QED
    BY <2>1, <2>2
<1> QED
  BY <1>3, SumsAre

\* A credit entry pays its amount in.
LEMMA CreditPaidIn ==
    ASSUME TypeOK, NEW c, NEW after, NEW ref, NEW amount \in Int,
           Posting(c, after, <<NewEntry("credit", ref, amount, after)>>), NEW d \in Consumers
    PROVE  PaidIn(d)' = IF d = c THEN PaidIn(d) + amount ELSE PaidIn(d)
<1> DEFINE entry == NewEntry("credit", ref, amount, after)
<1>1. c \in Consumers /\ ledger[c] \in Seq(Entry) /\ <<entry>> \in Seq(Entry)
  BY DEF TypeOK, Posting
<1>2. ledger' = [ledger EXCEPT ![c] = ledger[c] \o <<entry>>]
  BY DEF Posting, Post
<1>3. CASE d # c
  <2>1. ledger'[d] = ledger[d]
    BY <1>2, <1>3 DEF TypeOK
  <2> QED
    BY <1>3, <2>1, SumsAre
<1>4. CASE d = c
  <2> DEFINE old == ledger[c]  new == ledger'[c]  n == Len(old)
  <2>1. new = old \o <<entry>>
    BY <1>1, <1>2 DEF TypeOK
  <2>2. entry.type = "credit" /\ entry.amount = amount
    BY DEF NewEntry
  <2> HIDE DEF new, entry
  <2>3. /\ n \in Nat /\ Len(new) = n + 1
        /\ \A k \in 1..n : new[k] = old[k]
        /\ new[n + 1] = entry
    BY <1>1, <2>1, ConcatProperties
  <2> HIDE DEF old, n
  <2>4. CreditsIn(new) = CreditsIn(old) \union {n + 1} /\ n + 1 \notin CreditsIn(old)
    BY <2>2, <2>3 DEF CreditsIn, n
  <2>5. \A k \in CreditsIn(old) : k \in 1..n
    BY DEF CreditsIn, n
  <2>6. /\ \A k \in CreditsIn(old) : AmountsIn(old)[k] = AmountsIn(new)[k]
        /\ AmountsIn(new)[n + 1] = amount
    BY <2>2, <2>3, <2>4, <2>5 DEF AmountsIn
  <2>7. \A k \in CreditsIn(old) : AmountsIn(new)[k] \in Int
    BY <1>1, <2>6, FewCredits DEF AmountsIn, old
  <2>8. SumFunctionOnSet(AmountsIn(new), CreditsIn(old) \union {n + 1}) =
          SumFunctionOnSet(AmountsIn(old), CreditsIn(old)) + amount
    <3>1. IsFiniteSet(CreditsIn(old))
      BY <1>1, FewCredits DEF old
    <3>2. \A k \in CreditsIn(old) \union {n + 1} : AmountsIn(new)[k] \in Int
      BY <2>6, <2>7
    <3>3. SumFunctionOnSet(AmountsIn(new), CreditsIn(old) \union {n + 1}) =
            SumFunctionOnSet(AmountsIn(old), CreditsIn(old)) + AmountsIn(new)[n + 1]
      <4> DEFINE next == n + 1
      <4>1. next \notin CreditsIn(old)
        BY <2>4
      <4> HIDE DEF next
      <4>2. \A k \in CreditsIn(old) \union {next} : AmountsIn(new)[k] \in Int
        BY <3>2 DEF next
      <4>3. SumFunctionOnSet(AmountsIn(new), CreditsIn(old) \union {next}) =
              SumFunctionOnSet(AmountsIn(old), CreditsIn(old)) + AmountsIn(new)[next]
        BY <2>6, <3>1, <4>1, <4>2, SumPlus, ZenonT(60)
      <4> QED
        BY <4>3 DEF next
    <3> QED
      BY <2>6, <3>3
  <2> QED
    BY <1>4, <2>4, <2>8, SumsAre DEF new, old
<1> QED
  BY <1>3, <1>4

-----------------------------------------------------------------------------
\* Whom a posting does not concern, and whose requests stay, keeps its account.
LEMMA AccountKept ==
    ASSUME NEW d \in Consumers, balances'[d] = balances[d], PaidIn(d)' = PaidIn(d),
           HoldsOf(d)' = HoldsOf(d), RequestsOf(d)' = RequestsOf(d),
           \A r \in RequestsOf(d) : reservations'[r] = reservations[r],
           PaidIn(d) = BalanceOf(d) + Held(d) + Spent(d)
    PROVE  PaidIn(d)' = BalanceOf(d)' + Held(d)' + Spent(d)'
<1>1. HoldsOf(d) \subseteq RequestsOf(d)
  BY DEF HoldsOf
<1>2. /\ HoldsIn(reservations', HoldsOf(d)) = HoldsIn(reservations, HoldsOf(d))
      /\ CostsIn(reservations', RequestsOf(d)) = CostsIn(reservations, RequestsOf(d))
  BY <1>1 DEF HoldsIn, CostsIn
<1>3. Held(d)' = Held(d) /\ Spent(d)' = Spent(d)
  BY <1>2, SumsAre
<1> QED
  BY <1>3 DEF BalanceOf

\* The invariant that Conservation needs: finite sums, and no cost before a settlement.
Balanced == Conservation /\ FewRows /\ LedgerExplainsReservations

LEMMA ReserveConserves ==
    ASSUME TypeOK, Balanced,
           NEW c \in Consumers, NEW r \in Requests, NEW amount \in Amounts, Reserve(c, r, amount)
    PROVE  Conservation' /\ FewRows'
<1> DEFINE after == BalanceOf(c) - amount
           entries == <<NewEntry("reserve", r, -amount, after)>>
<1>1. Posting(c, after, entries) /\ after \in Int /\ amount \in Nat /\ BalanceOf(c) \in Int
  BY ReservePosts, AmountsAssumption, BalanceType DEF Posting
<1>2. \A j \in 1..Len(entries) : entries[j].type # "credit"
  BY DEF NewEntry
<1>3. reservations[r] = NoRow /\ reservations' = [reservations EXCEPT ![r] = Hold(c, amount)]
  BY DEF Reserve, Hold
<1>4. Hold(c, amount) # NoRow
  <2>1. Hold(c, amount) \in [consumer : Consumers, reserved : Nat, charged : Nat,
                             status : {"reserved", "finalized", "released"}]
    BY <1>1 DEF Hold
  <2> QED
    BY <2>1, NoRowAssumption
<1>5. balances' = [balances EXCEPT ![c] = after]
  BY DEF Reserve, Post
<1>6. \A d \in Consumers : PaidIn(d)' = PaidIn(d)
  <2> HIDE DEF entries
  <2> QED
    BY <1>1, <1>2, NothingPaidIn
<1> HIDE DEF after, entries
<1>7. FewRows'
  <2>1. {s \in Requests : reservations'[s] # NoRow}
          = {s \in Requests : reservations[s] # NoRow} \union {r}
    BY <1>3, <1>4 DEF TypeOK
  <2> QED
    BY <2>1, FS_AddElement DEF FewRows, Balanced
<1>8. ASSUME NEW d \in Consumers
      PROVE  PaidIn(d)' = BalanceOf(d)' + Held(d)' + Spent(d)'
  <2>1. PaidIn(d) = BalanceOf(d) + Held(d) + Spent(d)
    BY DEF Balanced, Conservation
  <2>2. \A s \in Requests : s # r => reservations'[s] = reservations[s]
    BY <1>3 DEF TypeOK
  <2>3. reservations'[r] = Hold(c, amount) /\ r \notin RequestsOf(d)
    BY <1>3 DEF TypeOK, RequestsOf
  <2>4. CASE d # c
    <3>1. RequestsOf(d)' = RequestsOf(d)
      BY <2>2, <2>3, <2>4 DEF RequestsOf, Hold
    <3>2. \A s \in RequestsOf(d) : reservations'[s] = reservations[s]
      BY <2>2, <2>3 DEF RequestsOf
    <3>3. HoldsOf(d)' = HoldsOf(d)
      BY <3>1, <3>2 DEF HoldsOf
    <3>4. balances'[d] = balances[d]
      BY <1>5, <2>4 DEF TypeOK
    <3> QED
      BY <1>6, <2>1, <3>1, <3>2, <3>3, <3>4, AccountKept
  <2>5. CASE d = c
    <3>1. RequestsOf(c)' = RequestsOf(c) \union {r}
      BY <1>4, <2>2, <2>3 DEF RequestsOf, Hold
    <3>2. \A s \in RequestsOf(c) : s # r /\ reservations'[s] = reservations[s]
      BY <2>2, <2>3, <2>5 DEF RequestsOf
    <3>3. HoldsOf(c)' = HoldsOf(c) \union {r} /\ HoldsOf(c) \subseteq RequestsOf(c)
      BY <2>3, <3>1, <3>2 DEF HoldsOf, Hold
    <3>4. /\ IsFiniteSet(RequestsOf(c)) /\ IsFiniteSet(HoldsOf(c))
          /\ \A s \in RequestsOf(c) : reservations[s] \in Reservation
          /\ Held(c) \in Int /\ Spent(c) \in Int
      BY FewRequests DEF Balanced
    <3>5. Held(c)' = Held(c) + amount
      <4> DEFINE old == HoldsIn(reservations, HoldsOf(c))
                 new == HoldsIn(reservations', HoldsOf(c) \union {r})
      <4>1. /\ \A s \in HoldsOf(c) : old[s] = new[s]
            /\ new[r] = amount
            /\ \A s \in HoldsOf(c) \union {r} : new[s] \in Int
        BY <1>1, <2>3, <3>2, <3>3, <3>4 DEF HoldsIn, Hold, Reservation
      <4>2. r \notin HoldsOf(c)
        BY <3>2, <3>3
      <4>0. IsFiniteSet(HoldsOf(c))
        BY <3>4
      <4> HIDE DEF old, new
      <4>3. SumFunctionOnSet(new, HoldsOf(c) \union {r})
              = SumFunctionOnSet(old, HoldsOf(c)) + new[r]
        BY <4>0, <4>1, <4>2, SumPlus, ZenonT(60)
      <4> QED
        BY <3>3, <4>1, <4>3, SumsAre DEF old, new
    <3>6. Spent(c)' = Spent(c)
      <4> DEFINE old == CostsIn(reservations, RequestsOf(c))
                 new == CostsIn(reservations', RequestsOf(c) \union {r})
      <4>1. /\ \A s \in RequestsOf(c) : old[s] = new[s]
            /\ new[r] = 0
            /\ \A s \in RequestsOf(c) \union {r} : new[s] \in Int
        BY <2>3, <3>2, <3>4 DEF CostsIn, Hold, Reservation
      <4>2. r \notin RequestsOf(c)
        BY <3>2
      <4>0. IsFiniteSet(RequestsOf(c))
        BY <3>4
      <4> HIDE DEF old, new
      <4>3. SumFunctionOnSet(new, RequestsOf(c) \union {r})
              = SumFunctionOnSet(old, RequestsOf(c)) + new[r]
        BY <4>0, <4>1, <4>2, SumPlus, ZenonT(60)
      <4>4. Spent(c) = SumFunctionOnSet(old, RequestsOf(c))
        BY SumsAre DEF old
      <4>5. Spent(c)' = SumFunctionOnSet(new, RequestsOf(c) \union {r})
        BY <3>1, SumsAre DEF new
      <4> QED
        BY <3>4, <4>1, <4>3, <4>4, <4>5
    <3>7. BalanceOf(c)' = BalanceOf(c) - amount
      BY <1>1, <1>5, NoRowAssumption DEF TypeOK, BalanceOf, after
    <3> QED
      BY <1>1, <1>6, <2>1, <2>5, <3>4, <3>5, <3>6, <3>7
  <2> QED
    BY <2>4, <2>5
<1> QED
  BY <1>7, <1>8 DEF Conservation

LEMMA FinalizeConserves ==
    ASSUME TypeOK, Balanced,
           NEW r \in Requests, NEW actual \in Charges, NEW success \in BOOLEAN,
           Finalize(r, actual, success)
    PROVE  Conservation' /\ FewRows'
<1> DEFINE row == reservations[r]
           c == row.consumer
           charge == ChargeFor(actual, success, row.reserved)
           after == BalanceOf(c) + row.reserved - charge
           entries == SettlementEntries(r, row.reserved, charge, BalanceOf(c))
           settled == Settled(row, charge)
<1>1. row \in Reservation /\ charge \in 0..row.reserved /\ Posting(c, after, entries)
  BY FinalizePosts
<1>2. c \in Consumers /\ row.reserved \in Nat /\ charge \in Nat /\ BalanceOf(c) \in Int
  BY <1>1, BalanceType DEF Reservation
<1>3. \A j \in 1..Len(entries) : entries[j].type # "credit"
  <2> HIDE DEF row, charge, c
  <2> QED
    BY DEF SettlementEntries, NewEntry
<1>4. row # NoRow /\ row.status = "reserved" /\ reservations' = [reservations EXCEPT ![r] = settled]
  BY DEF Finalize
<1>5. balances' = [balances EXCEPT ![c] = after]
  BY DEF Finalize, Post
<1> HIDE DEF row, c, charge, after, entries
<1>6. /\ settled \in Reservation /\ settled # NoRow
      /\ settled.consumer = c /\ settled.reserved = row.reserved /\ settled.charged = charge
      /\ settled.status # "reserved"
  <2>1. settled \in Reservation
    BY <1>1, <1>2, SettledType
  <2> QED
    BY <1>1, <2>1, NoRowAssumption DEF Settled, Reservation, Statuses, c
<1> HIDE DEF settled
<1>7. \A d \in Consumers : PaidIn(d)' = PaidIn(d)
  BY <1>1, <1>3, NothingPaidIn
<1>8. FewRows'
  <2>1. {s \in Requests : reservations'[s] # NoRow} = {s \in Requests : reservations[s] # NoRow}
    BY <1>4, <1>6 DEF TypeOK, row
  <2> QED
    BY <2>1 DEF FewRows, Balanced
<1>9. ASSUME NEW d \in Consumers
      PROVE  PaidIn(d)' = BalanceOf(d)' + Held(d)' + Spent(d)'
  <2>1. PaidIn(d) = BalanceOf(d) + Held(d) + Spent(d)
    BY DEF Balanced, Conservation
  <2>2. /\ \A s \in Requests : s # r => reservations'[s] = reservations[s]
        /\ reservations'[r] = settled
    BY <1>4 DEF TypeOK
  <2>3. RequestsOf(d)' = RequestsOf(d)
    BY <1>4, <1>6, <2>2 DEF RequestsOf, row, c
  <2>4. CASE d # c
    <3>1. r \notin RequestsOf(d)
      BY <2>4 DEF RequestsOf, row, c
    <3>2. \A s \in RequestsOf(d) : reservations'[s] = reservations[s]
      BY <2>2, <3>1 DEF RequestsOf
    <3>3. HoldsOf(d)' = HoldsOf(d)
      BY <2>3, <3>2 DEF HoldsOf
    <3>4. balances'[d] = balances[d]
      BY <1>5, <2>4 DEF TypeOK
    <3> QED
      BY <1>7, <2>1, <2>3, <3>2, <3>3, <3>4, AccountKept
  <2>5. CASE d = c
    <3>1. r \in RequestsOf(d) /\ r \in HoldsOf(d) /\ HoldsOf(d) \subseteq RequestsOf(d)
      BY <1>4, <2>5 DEF RequestsOf, HoldsOf, row, c
    <3>2. \A s \in RequestsOf(d) : s # r => reservations'[s] = reservations[s]
      BY <2>2 DEF RequestsOf
    <3>3. HoldsOf(d)' = HoldsOf(d) \ {r}
      BY <1>6, <2>2, <2>3, <3>1, <3>2 DEF HoldsOf
    <3>4. /\ IsFiniteSet(RequestsOf(d)) /\ IsFiniteSet(HoldsOf(d))
          /\ \A s \in RequestsOf(d) : reservations[s] \in Reservation
          /\ Held(d) \in Int /\ Spent(d) \in Int
      BY FewRequests DEF Balanced
    <3>5. Held(d) = Held(d)' + row.reserved /\ Held(d)' \in Int
      <4> DEFINE old == HoldsIn(reservations, HoldsOf(d))
                 new == HoldsIn(reservations', HoldsOf(d) \ {r})
      <4>1. /\ \A s \in HoldsOf(d) \ {r} : new[s] = old[s]
            /\ old[r] = row.reserved
            /\ \A s \in HoldsOf(d) : old[s] \in Int
        BY <3>1, <3>2, <3>4 DEF HoldsIn, Reservation, row
      <4> HIDE DEF old, new
      <4>2. SumFunctionOnSet(old, HoldsOf(d)) = old[r] + SumFunctionOnSet(old, HoldsOf(d) \ {r})
        BY <3>1, <3>4, <4>1, SumWithout
      <4>3. IsFiniteSet(HoldsOf(d) \ {r})
        BY <3>4, FS_RemoveElement
      <4>4. SumFunctionOnSet(old, HoldsOf(d) \ {r}) = SumFunctionOnSet(new, HoldsOf(d) \ {r})
        BY <4>1, <4>3, SumSame
      <4>5. SumFunctionOnSet(old, HoldsOf(d) \ {r}) \in Int
        BY <4>1, <4>3, SumType
      <4>6. Held(d) = SumFunctionOnSet(old, HoldsOf(d))
        BY SumsAre DEF old
      <4>7. Held(d)' = SumFunctionOnSet(new, HoldsOf(d) \ {r})
        BY <3>3, SumsAre DEF new
      <4> QED
        BY <1>2, <4>1, <4>2, <4>4, <4>5, <4>6, <4>7
    <3>6. Spent(d)' = Spent(d) + charge
      <4> DEFINE old == CostsIn(reservations, RequestsOf(d))
                 new == CostsIn(reservations', RequestsOf(d))
      <4>1. row.charged = 0
        BY <1>4, <3>1 DEF Balanced, LedgerExplainsReservations, Explained, row
      <4>2. /\ \A s \in RequestsOf(d) \ {r} : old[s] = new[s]
            /\ old[r] = 0 /\ new[r] = charge
            /\ \A s \in RequestsOf(d) : old[s] \in Int /\ new[s] \in Int
        BY <1>2, <1>6, <2>2, <3>1, <3>2, <3>4, <4>1 DEF CostsIn, Reservation, row
      <4> HIDE DEF old, new
      <4>3. SumFunctionOnSet(new, RequestsOf(d))
              = SumFunctionOnSet(old, RequestsOf(d)) + new[r] - old[r]
        BY <3>1, <3>4, <4>2, SumChanged
      <4>4. Spent(d) = SumFunctionOnSet(old, RequestsOf(d))
        BY SumsAre DEF old
      <4>5. Spent(d)' = SumFunctionOnSet(new, RequestsOf(d))
        BY <2>3, SumsAre DEF new
      <4> QED
        BY <1>2, <3>4, <4>2, <4>3, <4>4, <4>5
    <3>7. BalanceOf(d)' = BalanceOf(d) + row.reserved - charge
      <4>1. after \in Int
        BY <1>1 DEF Posting
      <4>2. balances'[d] = after /\ after # NoRow
        BY <1>5, <2>5, <4>1, NoRowAssumption DEF TypeOK
      <4>3. after = BalanceOf(d) + row.reserved - charge
        BY <2>5 DEF after
      <4> QED
        BY <4>2, <4>3 DEF BalanceOf
    <3> QED
      BY <1>2, <1>7, <2>1, <2>5, <3>4, <3>5, <3>6, <3>7
  <2> QED
    BY <2>4, <2>5
<1> QED
  BY <1>8, <1>9 DEF Conservation

LEMMA CreditConserves ==
    ASSUME TypeOK, Balanced, NEW c, NEW after, NEW ref, NEW amount \in Int,
           Posting(c, after, <<NewEntry("credit", ref, amount, after)>>),
           after = BalanceOf(c) + amount, UNCHANGED reservations
    PROVE  Conservation' /\ FewRows'
<1>1. c \in Consumers /\ after \in Int /\ balances' = [balances EXCEPT ![c] = after]
  BY DEF Posting, Post
<1>2. FewRows'
  BY DEF FewRows, Balanced
<1>3. ASSUME NEW d \in Consumers
      PROVE  PaidIn(d)' = BalanceOf(d)' + Held(d)' + Spent(d)'
  <2>1. PaidIn(d) = BalanceOf(d) + Held(d) + Spent(d)
    BY DEF Balanced, Conservation
  <2>2. PaidIn(d)' = IF d = c THEN PaidIn(d) + amount ELSE PaidIn(d)
    BY CreditPaidIn
  <2>3. RequestsOf(d)' = RequestsOf(d) /\ HoldsOf(d)' = HoldsOf(d)
    BY DEF RequestsOf, HoldsOf
  <2>4. CASE d # c
    <3>1. balances'[d] = balances[d]
      BY <1>1, <2>4 DEF TypeOK
    <3> QED
      BY <2>1, <2>2, <2>3, <2>4, <3>1, AccountKept
  <2>5. CASE d = c
    <3>1. Held(d)' = Held(d) /\ Spent(d)' = Spent(d)
      BY <2>3, SumsAre
    <3>2. Held(d) \in Int /\ Spent(d) \in Int /\ BalanceOf(d) \in Int
      BY FewRequests, BalanceType DEF Balanced
    <3>3. BalanceOf(d)' = BalanceOf(d) + amount
      BY <1>1, <2>5, NoRowAssumption DEF TypeOK, BalanceOf
    <3> QED
      BY <2>1, <2>2, <2>5, <3>1, <3>2, <3>3
  <2> QED
    BY <2>4, <2>5
<1> QED
  BY <1>2, <1>3 DEF Conservation

LEMMA ConservationStep ==
    ASSUME TypeOK, Balanced, [Next]_vars
    PROVE  Conservation' /\ FewRows'
<1>1. ASSUME NEW c \in Consumers, NEW r \in Requests, NEW amount \in Amounts,
             Reserve(c, r, amount)
      PROVE  Conservation' /\ FewRows'
  BY <1>1, ReserveConserves
<1>2. ASSUME NEW r \in Requests, NEW actual \in Charges, NEW success \in BOOLEAN,
             Finalize(r, actual, success)
      PROVE  Conservation' /\ FewRows'
  BY <1>2, FinalizeConserves
<1>3. ASSUME NEW c \in Consumers, NEW amount \in Amounts, Credit(c, amount)
      PROVE  Conservation' /\ FewRows'
  <2>1. amount \in Int
    BY AmountsAssumption
  <2> QED
    BY <1>3, <2>1, CreditPosts, CreditConserves DEF Credit
<1>4. ASSUME NEW f \in Fingerprints, Topup(f)
      PROVE  Conservation' /\ FewRows'
  BY <1>4, TopupPosts, CreditConserves DEF Topup
<1>5. CASE UNCHANGED vars
  <2>1. FewRows'
    BY <1>5 DEF vars, FewRows, Balanced
  <2>2. ASSUME NEW d \in Consumers
        PROVE  PaidIn(d)' = BalanceOf(d)' + Held(d)' + Spent(d)'
    <3>1. RequestsOf(d)' = RequestsOf(d) /\ HoldsOf(d)' = HoldsOf(d)
      BY <1>5 DEF vars, RequestsOf, HoldsOf
    <3>2. PaidIn(d)' = PaidIn(d)
      BY <1>5, SumsAre DEF vars
    <3> QED
      BY <1>5, <3>1, <3>2, AccountKept DEF vars, Balanced, Conservation
  <2> QED
    BY <2>1, <2>2 DEF Conservation
<1> QED
  BY <1>1, <1>2, <1>3, <1>4, <1>5 DEF Next

(***************************************************************************)
(* The ledger is a correct account of the balance, and no consumer is ever *)
(* overdrawn, in every reachable state.                                    *)
(***************************************************************************)
THEOREM LedgerCorrect == Spec => [](LedgerChains /\ NeverOverdrawn)
<1>1. Init => LedgerChains /\ NeverOverdrawn
  BY DEF Init, LedgerChains, NeverOverdrawn, BalanceOf, AfterOf
<1>2. TypeOK /\ LedgerChains /\ NeverOverdrawn /\ [Next]_vars
        => LedgerChains' /\ NeverOverdrawn'
  <2> SUFFICES ASSUME TypeOK, LedgerChains, NeverOverdrawn, [Next]_vars
               PROVE  LedgerChains' /\ NeverOverdrawn'
    OBVIOUS
  <2>1. CASE Next
    BY <2>1, StepPosts, PostChains, PostFunded
  <2>2. CASE UNCHANGED vars
    BY <2>2 DEF vars, LedgerChains, NeverOverdrawn, BalanceOf, AfterOf
  <2> QED
    BY <2>1, <2>2
<1> QED
  BY <1>1, <1>2, TypeCorrect, PTL DEF Spec

LEMMA InitialAccounts ==
    ASSUME Init
    PROVE  LedgerExplainsReservations /\ TopupCreditedOnce /\ Conservation /\ FewRows
<1>1. /\ \A r \in Requests : reservations[r] = NoRow
      /\ \A c \in Consumers : ledger[c] = <<>> /\ BalanceOf(c) = 0
      /\ topups = {}
  BY DEF Init, BalanceOf
<1>2. \A c \in Consumers : RequestsOf(c) = {} /\ HoldsOf(c) = {} /\ CreditsIn(ledger[c]) = {}
  BY <1>1 DEF RequestsOf, HoldsOf, CreditsIn
<1>3. \A c \in Consumers : \A type, ref : Posted(c, type, ref) = {}
  BY <1>1 DEF Posted
<1>4. LedgerExplainsReservations /\ TopupCreditedOnce
  BY <1>1, <1>2, <1>3
     DEF LedgerExplainsReservations, Explained, TopupCreditedOnce, CreditedOnce
<1>5. \A c \in Consumers : PaidIn(c) = 0 /\ Held(c) = 0 /\ Spent(c) = 0
  BY <1>2, SumsAre, SumEmpty
<1>6. {r \in Requests : reservations[r] # NoRow} = {}
  BY <1>1
<1> QED
  BY <1>1, <1>4, <1>5, <1>6, FS_EmptySet DEF Conservation, FewRows

(***************************************************************************)
(* From the ledger alone one can tell what happened to every request: it   *)
(* was reserved once, released once when it was settled, and debited once  *)
(* when it cost something, each time with the amount in its row.           *)
(***************************************************************************)
THEOREM LedgerExplains == Spec => []LedgerExplainsReservations
<1>1. Init => LedgerExplainsReservations
  BY InitialAccounts
<1>2. TypeOK /\ LedgerExplainsReservations /\ [Next]_vars => LedgerExplainsReservations'
  BY ExplainedStep
<1> QED
  BY <1>1, <1>2, TypeCorrect, PTL DEF Spec

(***************************************************************************)
(* However often a payment header is sent, its payer is credited once.     *)
(***************************************************************************)
THEOREM TopupsCredited == Spec => []TopupCreditedOnce
<1>1. Init => TopupCreditedOnce
  BY InitialAccounts
<1>2. TypeOK /\ TopupCreditedOnce /\ [Next]_vars => TopupCreditedOnce'
  BY CreditedStep
<1> QED
  BY <1>1, <1>2, TypeCorrect, PTL DEF Spec

(***************************************************************************)
(* No money is made or lost: what a consumer paid in is its balance, its   *)
(* running holds and what its requests cost.  A settlement moves a hold to *)
(* the balance and the cost, which needs that a running request has cost   *)
(* nothing yet: LedgerExplainsReservations says so.                        *)
(***************************************************************************)
THEOREM MoneyConserved == Spec => []Conservation
<1>1. Init => Conservation /\ FewRows
  BY InitialAccounts
<1>2. TypeOK /\ Balanced /\ [Next]_vars => Conservation' /\ FewRows'
  BY ConservationStep
<1>3. Balanced <=> Conservation /\ FewRows /\ LedgerExplainsReservations
  BY DEF Balanced
<1> QED
  BY <1>1, <1>2, <1>3, TypeCorrect, LedgerExplains, PTL DEF Spec

-----------------------------------------------------------------------------
\* The status of a row says whether it cost something.
StatusesAgree ==
    \A r \in Requests : reservations[r] # NoRow =>
        (reservations[r].status = "finalized" <=> reservations[r].charged > 0)

LEMMA StatusesAlwaysAgree == Spec => []StatusesAgree
<1>1. Init => StatusesAgree
  BY DEF Init, StatusesAgree
<1>2. TypeOK /\ StatusesAgree /\ [Next]_vars => StatusesAgree'
  <2> SUFFICES ASSUME TypeOK, StatusesAgree, [Next]_vars
               PROVE  StatusesAgree'
    OBVIOUS
  <2>1. ASSUME NEW c \in Consumers, NEW r \in Requests, NEW amount \in Amounts,
               Reserve(c, r, amount)
        PROVE  StatusesAgree'
    BY <2>1 DEF TypeOK, Reserve, StatusesAgree
  <2>2. ASSUME NEW r \in Requests, NEW actual \in Charges, NEW success \in BOOLEAN,
               Finalize(r, actual, success)
        PROVE  StatusesAgree'
    <3> DEFINE row == reservations[r]
               charge == ChargeFor(actual, success, row.reserved)
    <3>1. row \in Reservation /\ charge \in 0..row.reserved
      BY <2>2, FinalizePosts
    <3>2. reservations' = [reservations EXCEPT ![r] = Settled(row, charge)]
      BY <2>2 DEF Finalize
    <3>3. row.reserved \in Nat
      BY <3>1 DEF Reservation
    <3> HIDE DEF row, charge
    <3>4. /\ Settled(row, charge).charged = charge
          /\ Settled(row, charge).status = "finalized" <=> charge > 0
      BY <3>1, <3>3 DEF Settled, Reservation
    <3> QED
      BY <3>2, <3>4 DEF TypeOK, StatusesAgree
  <2>3. CASE UNCHANGED reservations
    BY <2>3 DEF StatusesAgree
  <2> QED
    BY <2>1, <2>2, <2>3 DEF Next, Credit, Topup, vars
<1> QED
  BY <1>1, <1>2, TypeCorrect, PTL DEF Spec

-----------------------------------------------------------------------------
(***************************************************************************)
(* What a reader of balance_ledger can rely on without looking at any      *)
(* entry's balance_after: the amounts of a consumer's entries add up to    *)
(* its balance.                                                            *)
(***************************************************************************)
EntrySum(c, n) == SumFunctionOnSet([i \in 1..Len(ledger[c]) |-> ledger[c][i].amount], 1..n)

BalanceIsSumOfEntries == \A c \in Consumers : BalanceOf(c) = EntrySum(c, Len(ledger[c]))

\* A chained ledger telescopes: there is no first entry where the sum is another.
LEMMA ChainTelescopes ==
    ASSUME TypeOK, LedgerChains, NEW c \in Consumers
    PROVE  \A n \in 0..Len(ledger[c]) : EntrySum(c, n) = AfterOf(c, n)
<1>1. PICK L \in Nat : L = Len(ledger[c])
  BY DEF TypeOK
<1>2. PICK f : f = [i \in 1..L |-> ledger[c][i].amount]
  OBVIOUS
<1>3. \A n \in 0..L : EntrySum(c, n) = SumFunctionOnSet(f, 1..n)
  BY <1>1, <1>2 DEF EntrySum
<1>4. \A i \in 1..L : f[i] \in Int /\ AfterOf(c, i) = AfterOf(c, i - 1) + f[i]
  <2>1. \A i \in 1..L : ledger[c][i] \in Entry
    BY <1>1 DEF TypeOK
  <2> QED
    BY <1>1, <1>2, <2>1 DEF Entry, LedgerChains, AfterOf
<1> DEFINE wrong == {1..n : n \in {m \in 0..L : EntrySum(c, m) # AfterOf(c, m)}}
<1>5. ASSUME NEW T \in wrong, \A U \in SUBSET T : U \in wrong => U = T
      PROVE  FALSE
  <2>1. PICK n \in 0..L : T = 1..n /\ EntrySum(c, n) # AfterOf(c, n)
    OBVIOUS
  <2>2. EntrySum(c, 0) = 0 /\ AfterOf(c, 0) = 0
    <3>1. 1..0 = {} /\ 0 \in 0..L
      OBVIOUS
    <3> QED
      BY <1>3, <3>1, SumEmpty DEF AfterOf
  <2>3. n - 1 \in 0..L /\ n \in 1..L
    BY <2>1, <2>2
  <2>4. PICK before : before = 1..(n - 1)
    OBVIOUS
  <2>5. /\ T = before \union {n} /\ n \notin before /\ before \in SUBSET (1..L)
        /\ IsFiniteSet(before)
    <3>1. n - 1 \in Int
      BY <2>3
    <3>2. IsFiniteSet(before)
      BY <2>4, <3>1, FS_Interval
    <3> QED
      BY <2>1, <2>3, <2>4, <3>2
  <2>6. before \notin wrong
    BY <1>5, <2>5
  <2>7. EntrySum(c, n - 1) = AfterOf(c, n - 1)
    BY <2>3, <2>4, <2>6
  <2>8. SumFunctionOnSet(f, before \union {n}) = SumFunctionOnSet(f, before) + f[n]
    <3>1. \A y \in before \union {n} : f[y] \in Int
      BY <1>4, <2>3, <2>5
    <3> QED
      BY <2>5, <3>1, SumPlus
  <2>9. EntrySum(c, n) = EntrySum(c, n - 1) + f[n]
    BY <1>3, <2>1, <2>3, <2>4, <2>5, <2>8
  <2> QED
    BY <1>4, <2>1, <2>3, <2>7, <2>9
<1>6. wrong \in SUBSET SUBSET (1..L)
  <2>1. \A n \in 0..L : 1..n \in SUBSET (1..L)
    OBVIOUS
  <2> QED
    BY <2>1
<1>7. wrong = {}
  <2>1. PICK S : S = 1..L
    OBVIOUS
  <2>2. IsFiniteSet(S)
    BY <2>1, FS_Interval
  <2>3. wrong \in SUBSET SUBSET S
    BY <1>6, <2>1
  <2> HIDE DEF wrong
  <2> QED
    BY <1>5, <2>2, <2>3, SmallestSubset
<1> QED
  BY <1>1, <1>7

(***************************************************************************)
(* A balance is the sum of its ledger, however many operations made it.    *)
(***************************************************************************)
THEOREM LedgerAddsUp == Spec => []BalanceIsSumOfEntries
<1>1. TypeOK /\ LedgerChains => BalanceIsSumOfEntries
  <2> SUFFICES ASSUME TypeOK, LedgerChains, NEW c \in Consumers
               PROVE  BalanceOf(c) = EntrySum(c, Len(ledger[c]))
    BY DEF BalanceIsSumOfEntries
  <2>1. Len(ledger[c]) \in 0..Len(ledger[c])
    BY DEF TypeOK
  <2>2. EntrySum(c, Len(ledger[c])) = AfterOf(c, Len(ledger[c]))
    BY <2>1, ChainTelescopes
  <2> QED
    BY <2>2 DEF LedgerChains
<1> QED
  BY <1>1, TypeCorrect, LedgerCorrect, PTL

\* Settled requests stay settled, and holds keep their owner and size.
THEOREM SettlementFinal == Spec => SettledForever
<1> DEFINE Kept == \A r \in Requests : reservations[r] # NoRow =>
                     /\ reservations'[r] # NoRow
                     /\ reservations'[r].consumer = reservations[r].consumer
                     /\ reservations'[r].reserved = reservations[r].reserved
                     /\ reservations[r].status # "reserved"
                          => reservations'[r] = reservations[r]
<1>1. TypeOK /\ [Next]_vars => [Kept]_vars
  <2> SUFFICES ASSUME TypeOK, Next PROVE Kept
    OBVIOUS
  <2>1. ASSUME NEW c \in Consumers, NEW r \in Requests, NEW amount \in Amounts,
               Reserve(c, r, amount)
        PROVE  Kept
    BY <2>1 DEF TypeOK, Reserve
  <2>2. ASSUME NEW r \in Requests, NEW actual \in Charges, NEW success \in BOOLEAN,
               Finalize(r, actual, success)
        PROVE  Kept
    <3> DEFINE row == reservations[r]
               charge == ChargeFor(actual, success, row.reserved)
    <3>1. row \in Reservation /\ charge \in 0..row.reserved
      BY <2>2, FinalizePosts
    <3>2. reservations' = [reservations EXCEPT ![r] = Settled(row, charge)]
      BY <2>2 DEF Finalize
    <3>3. row.status = "reserved"
      BY <2>2 DEF Finalize
    <3>4. /\ Settled(row, charge) \in Reservation
          /\ Settled(row, charge).consumer = row.consumer
          /\ Settled(row, charge).reserved = row.reserved
      <4>1. charge \in Nat
        BY <3>1 DEF Reservation
      <4> HIDE DEF row, charge
      <4> QED
        BY <3>1, <4>1, SettledType DEF Settled, Reservation
    <3>5. Settled(row, charge) # NoRow
      BY <3>4, NoRowAssumption DEF Reservation, Statuses
    <3> QED
      BY <3>2, <3>3, <3>4, <3>5 DEF TypeOK
  <2>3. ASSUME NEW c \in Consumers, NEW amount \in Amounts, Credit(c, amount)
        PROVE  Kept
    BY <2>3 DEF Credit
  <2>4. ASSUME NEW f \in Fingerprints, Topup(f)
        PROVE  Kept
    BY <2>4 DEF Topup
  <2> QED
    BY <2>1, <2>2, <2>3, <2>4 DEF Next
<1>2. QED
  BY <1>1, TypeCorrect, PTL DEF Spec, SettledForever

=============================================================================

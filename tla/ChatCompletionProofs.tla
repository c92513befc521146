------------------------ MODULE ChatCompletionProofs ------------------------
(***************************************************************************)
(* The invariants of ChatCompletion, for any number of requests, consumers *)
(* and failovers, in both gateway modes and with every fault.              *)
(*                                                                         *)
(* Requests meet only in the tables, and a request is only ever touched in *)
(* its own row: so the invariant is about one request, its handler h, its  *)
(* reservation row and its usage row, and a step of one request leaves the *)
(* others' as they were.                                                   *)
(***************************************************************************)
EXTENDS ChatCompletion, TLAPS

\* What is proved of the store; its definitions are those of Store.
Proofs == INSTANCE PrepaidLedgerProofs

Before == {"new", "authorize", "reserve", "pay"}
InStream == {"streaming", "localStreaming"}
After == {"settle", "usage", "done", "dead"}
InWork == {"route", "remote", "streaming", "local", "localStreaming", "settle"}

\* What a request may run on: its own consumer's hold, or a payment.
Covered(r, h, row) ==
    IF HasSession(r)
    THEN row # NoRow /\ row.consumer = Owner[r] /\ row.reserved = HoldFor[r]
    ELSE ~Official /\ (Paywall => h.paid)

\* How the place of a handler, its reply and its reservation go together.
OnPath(r, h, row) ==
    /\ h.at \in Before =>
           row = NoRow /\ h.runs = 0 /\ h.tried = 0 /\ h.sent = "nothing"
    /\ h.at = "reserve" => HasSession(r)
    /\ h.at = "pay" => ~HasSession(r) /\ ~Official
    /\ h.at \in InWork => Covered(r, h, row) /\ (HasSession(r) => row.status = "reserved")
    /\ h.runs > 0 => Covered(r, h, row)
    /\ h.sent \in {"answer", "payment", "error"} => h.at \in After
    /\ h.sent = "partial" => h.at \in InStream \union After
    /\ h.at \in InStream => h.sent = "partial" /\ h.runs > 0
    /\ h.success => h.sent = "answer" /\ h.runs > 0 /\ h.at \in After

\* What a row may say about the handler that made it.
Paid(r, h, row) ==
    /\ row # NoRow =>
           /\ HasSession(r) /\ row.reserved = HoldFor[r]
           /\ row.status = "reserved" => row.charged = 0
           /\ row.charged > 0 =>
                  /\ h.success /\ h.at \in {"usage", "done", "dead"}
                  /\ row.charged <= Least(h.cost, HoldFor[r])
    /\ h.at \in {"usage", "done"} /\ h.success /\ HasSession(r)
         /\ ~h.gone /\ "store" \notin Faults => row.charged = Least(h.cost, HoldFor[r])

\* A usage row is the last thing a handler writes.
Recorded(r, h, use) ==
    use # NoRow =>
        /\ h.at = "done"
        /\ h.success => use.status = "ok" /\ (HasSession(r) => use.cost = h.cost)

\* What each place adds to the bound on the work of a request.
Bounded(h) ==
    /\ h.tried <= MaxRemoteRetries + 1
    /\ h.at = "remote" => h.tried > 0 /\ h.runs <= 2 * (h.tried - 1)
    /\ h.at \in {"route", "local", "streaming"} => h.runs <= 2 * h.tried
    /\ h.runs <= 2 * h.tried + 1

Good(r, h, row, use) ==
    OnPath(r, h, row) /\ Paid(r, h, row) /\ Recorded(r, h, use) /\ Bounded(h)

GoodNow(r) == Good(r, chat[r], reservations[r], usage[r])
IInv == TypeOK /\ \A r \in Requests : GoodNow(r)

\* What a step may do to a reply that has begun: the formula of OneReply.
Kept(h, g) ==
    /\ h.sent \in {"answer", "payment", "error"} => g.sent = h.sent /\ g.runs = h.runs
    /\ h.sent = "partial" => g.sent \in {"partial", "answer"} /\ g.runs = h.runs

-----------------------------------------------------------------------------
\* The hold, the costs and the store's assumptions in the form the steps use.
LEMMA Prices ==
    ASSUME NEW r \in Requests
    PROVE  /\ HoldFor[r] \in Amounts /\ HoldFor[r] \in Nat /\ HoldFor[r] > 0
           /\ HasSession(r) => Owner[r] \in Consumers
           /\ \A cost \in Costs : cost \in Nat
           /\ InputCost \in Nat
<1>1. HoldFor[r] \in Amounts \ {0} /\ Owner[r] \in Consumers \union {NoRow}
  BY PricesAssumption
<1>2. Amounts \subseteq Nat /\ Costs \subseteq Nat /\ InputCost \in Costs
  BY PricesAssumption, AmountsAssumption
<1>3. HoldFor[r] \in Nat /\ HoldFor[r] # 0
  BY <1>1, <1>2
<1> QED
  BY <1>1, <1>2, <1>3 DEF HasSession

LEMMA LeastBounds ==
    ASSUME NEW a \in Nat, NEW b \in Nat
    PROVE  Least(a, b) \in Nat /\ Least(a, b) <= a /\ Least(a, b) <= b
BY DEF Least

-----------------------------------------------------------------------------
\* Store and Proofs talk about the same tables and the same steps.
LEMMA SameTypes == Store!TypeOK <=> Proofs!TypeOK
BY DEF Store!TypeOK, Proofs!TypeOK, Store!Entry, Proofs!Entry,
       Store!Reservation, Proofs!Reservation, Store!Statuses, Proofs!Statuses

\* The store as it is used here and the store of the theorems are one specification.
LEMMA SameStep ==
    ASSUME Store!Next
    PROVE  Proofs!Next
<1> USE DEF Store!Post, Proofs!Post, Store!NewEntry, Proofs!NewEntry,
            Store!BalanceOf, Proofs!BalanceOf
<1>1. ASSUME NEW c \in Consumers, NEW r \in Requests, NEW amount \in Amounts,
             Store!Reserve(c, r, amount)
      PROVE  Proofs!Reserve(c, r, amount)
  BY <1>1 DEF Store!Reserve, Proofs!Reserve
<1>2. ASSUME NEW r \in Requests, NEW actual \in Charges, NEW success \in BOOLEAN,
             Store!Finalize(r, actual, success)
      PROVE  Proofs!Finalize(r, actual, success)
  BY <1>2 DEF Store!Finalize, Proofs!Finalize, Store!ChargeFor, Proofs!ChargeFor,
              Store!SettlementEntries, Proofs!SettlementEntries,
              Store!Settled, Proofs!Settled
<1>3. ASSUME NEW c \in Consumers, NEW amount \in Amounts, Store!Credit(c, amount)
      PROVE  Proofs!Credit(c, amount)
  BY <1>3 DEF Store!Credit, Proofs!Credit
<1>4. ASSUME NEW f \in Fingerprints, Store!Topup(f)
      PROVE  Proofs!Topup(f)
  BY <1>4 DEF Store!Topup, Proofs!Topup
<1> QED
  BY <1>1, <1>2, <1>3, <1>4 DEF Store!Next, Proofs!Next

\* So a step of the store keeps the types of its tables.
LEMMA StoreTypes ==
    ASSUME Store!TypeOK, Store!Next
    PROVE  Store!TypeOK'
<1>1. Proofs!TypeOK /\ Proofs!Next
  BY SameTypes, SameStep
<1>2. Proofs!TypeOK'
  BY <1>1, Proofs!TypeStep, AmountsAssumption, PaymentAssumption,
     ReferenceAssumption, NoRowAssumption
<1> QED
  BY <1>2 DEF Store!TypeOK, Proofs!TypeOK, Store!Entry, Proofs!Entry,
              Store!Reservation, Proofs!Reservation, Store!Statuses, Proofs!Statuses

-----------------------------------------------------------------------------
(***************************************************************************)
(* A step of one request: it moves its own handler, reservation and usage  *)
(* row, and leaves them good.                                              *)
(***************************************************************************)
LEMMA RequestStep ==
    ASSUME IInv, NEW r \in Requests, NEW u \in Chat, NEW row,
           NEW use \in UsageRow \union {NoRow},
           Store!Next \/ UnchangedStore,
           chat' = [chat EXCEPT ![r] = u],
           reservations' = [reservations EXCEPT ![r] = row],
           usage' = [usage EXCEPT ![r] = use],
           Good(r, u, row, use), Kept(chat[r], u)
    PROVE  IInv' /\ \A q \in Requests : Kept(chat[q], chat'[q])
<1>1. TypeOK'
  <2>1. Store!TypeOK'
    BY StoreTypes DEF IInv, TypeOK, UnchangedStore, storeVars, Store!TypeOK
  <2> QED
    BY <2>1 DEF IInv, TypeOK
<1>2. ASSUME NEW q \in Requests
      PROVE  GoodNow(q)' /\ Kept(chat[q], chat'[q])
  <2>1. CASE q = r
    <3>1. chat'[q] = u /\ reservations'[q] = row /\ usage'[q] = use
      BY <2>1 DEF IInv, TypeOK, Store!TypeOK
    <3> QED
      BY <2>1, <3>1 DEF GoodNow
  <2>2. CASE q # r
    <3>1. chat'[q] = chat[q] /\ reservations'[q] = reservations[q] /\ usage'[q] = usage[q]
      BY <2>2 DEF IInv, TypeOK, Store!TypeOK
    <3>2. GoodNow(q)
      BY DEF IInv
    <3> QED
      BY <3>1, <3>2 DEF GoodNow, Kept
  <2> QED
    BY <2>1, <2>2
<1> QED
  BY <1>1, <1>2 DEF IInv

\* Most steps move the handler only.
LEMMA HandlerStep ==
    ASSUME IInv, NEW r \in Requests, NEW u \in Chat, UnchangedAll,
           chat' = [chat EXCEPT ![r] = u],
           Good(r, u, reservations[r], usage[r]), Kept(chat[r], u)
    PROVE  IInv' /\ \A q \in Requests : Kept(chat[q], chat'[q])
<1>1. /\ reservations' = [reservations EXCEPT ![r] = reservations[r]]
      /\ usage' = [usage EXCEPT ![r] = usage[r]]
      /\ usage[r] \in UsageRow \union {NoRow}
  BY DEF IInv, TypeOK, Store!TypeOK, UnchangedAll, UnchangedStore, storeVars
<1>2. UnchangedStore
  BY DEF UnchangedAll
<1> QED
  BY <1>1, <1>2, RequestStep

\* What the invariant says of the request that moves.
LEMMA Mover ==
    ASSUME IInv, NEW r \in Requests
    PROVE  /\ chat[r] \in Chat
           /\ reservations[r] \in Store!Reservation \union {NoRow}
           /\ usage[r] \in UsageRow \union {NoRow}
           /\ Good(r, chat[r], reservations[r], usage[r])
BY DEF IInv, TypeOK, Store!TypeOK, GoodNow

-----------------------------------------------------------------------------
\* What a step leaves behind, for the request that moves and for all others.
Fine == IInv' /\ \A q \in Requests : Kept(chat[q], chat'[q])

\* A handler that ends before it has a hold or a payment.
LEMMA RefuseStep ==
    ASSUME IInv, NEW r \in Requests, NEW reply \in {"payment", "error"},
           chat[r].at \in Before, Refuse(r, reply), UnchangedAll
    PROVE  Fine
<1> DEFINE u == [chat[r] EXCEPT !.at = "done", !.sent = reply]
<1>1. chat[r] \in Chat /\ Good(r, chat[r], reservations[r], usage[r])
  BY Mover
<1>2. u \in Chat /\ u.at = "done" /\ u.sent = reply /\ u.runs = chat[r].runs
      /\ u.tried = chat[r].tried /\ u.success = chat[r].success
  BY <1>1 DEF Chat
<1>3. chat' = [chat EXCEPT ![r] = u]
  BY DEF Refuse
<1>4. Good(r, u, reservations[r], usage[r]) /\ Kept(chat[r], u)
  BY <1>1, <1>2 DEF Good, OnPath, Paid, Recorded, Bounded, Kept, Before, After, InStream,
                    InWork, Chat
<1> HIDE DEF u
<1> QED
  BY <1>2, <1>3, <1>4, HandlerStep DEF Fine

\* Authorization: to the hold, to the payment, or away.
LEMMA AuthorizeStep ==
    ASSUME IInv, NEW r \in Requests, Arrive(r) \/ RejectCaller(r) \/ AcceptCaller(r)
    PROVE  Fine
<1>1. chat[r] \in Chat /\ Good(r, chat[r], reservations[r], usage[r])
  BY Mover
<1>2. ASSUME NEW place \in {"authorize", "reserve", "pay"}, Goto(r, place), UnchangedAll,
             chat[r].at \in {"new", "authorize"},
             place = "reserve" => HasSession(r),
             place = "pay" => ~HasSession(r) /\ ~Official
      PROVE  Fine
  <2> DEFINE u == [chat[r] EXCEPT !.at = place]
  <2>1. u \in Chat /\ u.at = place /\ u.sent = chat[r].sent /\ u.runs = chat[r].runs
        /\ u.tried = chat[r].tried /\ u.success = chat[r].success
    BY <1>1 DEF Chat
  <2>2. chat' = [chat EXCEPT ![r] = u]
    BY <1>2 DEF Goto
  <2>3. Good(r, u, reservations[r], usage[r]) /\ Kept(chat[r], u)
    BY <1>1, <1>2, <2>1 DEF Good, OnPath, Paid, Recorded, Bounded, Kept, Before, After,
                            InStream, InWork, Chat
  <2> HIDE DEF u
  <2> QED
    BY <1>2, <2>1, <2>2, <2>3, HandlerStep DEF Fine
<1>3. CASE Arrive(r)
  BY <1>2, <1>3 DEF Arrive, Wait
<1>4. CASE RejectCaller(r)
  BY <1>4, RefuseStep DEF RejectCaller, Wait, Before
<1>5. CASE AcceptCaller(r)
  <2>1. chat[r].at = "authorize" /\ UnchangedAll
    BY <1>5 DEF AcceptCaller, Wait
  <2>2. CASE Official /\ ~HasSession(r)
    BY <1>5, <2>1, <2>2, RefuseStep DEF AcceptCaller, Before
  <2>3. CASE ~(Official /\ ~HasSession(r))
    BY <1>2, <1>5, <2>1, <2>3 DEF AcceptCaller
  <2> QED
    BY <2>2, <2>3
<1> QED
  BY <1>3, <1>4, <1>5

\* The hold a request asks the store for.
NewHold(r) ==
    [consumer |-> Owner[r], reserved |-> HoldFor[r], charged |-> 0, status |-> "reserved"]

\* A reserve is a step of the store that writes this request's row.
LEMMA HoldWritten ==
    ASSUME IInv, NEW r \in Requests, HasSession(r), Store!Reserve(Owner[r], r, HoldFor[r])
    PROVE  /\ Store!Next
           /\ reservations' = [reservations EXCEPT ![r] = NewHold(r)]
           /\ NewHold(r) # NoRow
<1>1. Owner[r] \in Consumers /\ HoldFor[r] \in Amounts /\ HoldFor[r] \in Nat
  BY Prices
<1>2. NewHold(r) \in [consumer : Consumers, reserved : Nat, charged : Nat,
                      status : {"reserved", "finalized", "released"}]
  BY <1>1 DEF NewHold
<1> QED
  BY <1>1, <1>2, NoRowAssumption DEF Store!Next, Store!Reserve, NewHold

\* The reserve: approved, declined, or failed, with or without its effect.
LEMMA ReserveStep ==
    ASSUME IInv, NEW r \in Requests,
           ReserveApproved(r) \/ ReserveDeclined(r) \/ ReserveFails(r)
    PROVE  Fine
<1>1. /\ chat[r] \in Chat /\ Good(r, chat[r], reservations[r], usage[r])
      /\ usage[r] \in UsageRow \union {NoRow}
      /\ usage = [usage EXCEPT ![r] = usage[r]]
  BY Mover DEF IInv, TypeOK
<1>2. chat[r].at = "reserve" /\ HasSession(r)
  BY <1>1 DEF ReserveApproved, ReserveDeclined, ReserveFails, Wait, Good, OnPath
<1>3. HoldFor[r] \in Nat /\ HoldFor[r] > 0
  BY Prices
<1>4. ASSUME NEW u \in Chat, NEW place \in {"route", "done"},
             NEW reply \in {"nothing", "error"}, place = "route" <=> reply = "nothing",
             u = [chat[r] EXCEPT !.at = place, !.sent = reply],
             chat' = [chat EXCEPT ![r] = u],
             Store!Reserve(Owner[r], r, HoldFor[r]), UNCHANGED usage
      PROVE  Fine
  <2> DEFINE row == NewHold(r)
  <2>1. Store!Next /\ reservations' = [reservations EXCEPT ![r] = row] /\ row # NoRow
    BY <1>2, <1>4, HoldWritten
  <2>2. row.consumer = Owner[r] /\ row.reserved = HoldFor[r] /\ row.charged = 0
        /\ row.status = "reserved"
    BY DEF NewHold
  <2>3. u.at = place /\ u.sent = reply /\ u.runs = chat[r].runs
        /\ u.tried = chat[r].tried /\ u.success = chat[r].success
    BY <1>1, <1>4 DEF Chat
  <2> HIDE DEF row
  <2>4. Good(r, u, row, usage[r]) /\ Kept(chat[r], u)
    BY <1>1, <1>2, <1>3, <1>4, <2>1, <2>2, <2>3
       DEF Good, OnPath, Paid, Recorded, Bounded, Kept, Covered, Before, After, InStream,
           InWork, Chat
  <2>5. usage' = [usage EXCEPT ![r] = usage[r]]
    BY <1>1, <1>4
  <2> QED
    BY <1>1, <1>4, <2>1, <2>4, <2>5, RequestStep DEF Fine
<1>5. CASE ReserveApproved(r)
  <2> DEFINE u == [chat[r] EXCEPT !.at = "route", !.sent = "nothing"]
  <2>1. chat[r].sent = "nothing"
    BY <1>1, <1>2 DEF Good, OnPath, Before
  <2>2. u \in Chat /\ chat' = [chat EXCEPT ![r] = u]
    BY <1>1, <1>5, <2>1 DEF Chat, ReserveApproved, Goto
  <2> QED
    BY <1>4, <1>5, <2>2 DEF ReserveApproved
<1>6. CASE ReserveDeclined(r)
  BY <1>2, <1>6, RefuseStep DEF ReserveDeclined, Before
<1>7. CASE ReserveFails(r)
  <2>1. CASE UnchangedStore
    BY <1>2, <1>7, <2>1, RefuseStep DEF ReserveFails, Before, UnchangedAll
  <2>2. CASE Store!Reserve(Owner[r], r, HoldFor[r])
    <3> DEFINE u == [chat[r] EXCEPT !.at = "done", !.sent = "error"]
    <3>1. u \in Chat /\ chat' = [chat EXCEPT ![r] = u]
      BY <1>1, <1>7 DEF Chat, ReserveFails, Refuse
    <3> QED
      BY <1>4, <1>7, <2>2, <3>1 DEF ReserveFails
  <2> QED
    BY <1>7, <2>1, <2>2 DEF ReserveFails
<1> QED
  BY <1>5, <1>6, <1>7

\* The x402 payment: settled where there is a paywall, or demanded.
LEMMA PaymentStep ==
    ASSUME IInv, NEW r \in Requests, PaymentAccepted(r) \/ PaymentDemanded(r)
    PROVE  Fine
<1>1. chat[r] \in Chat /\ Good(r, chat[r], reservations[r], usage[r])
  BY Mover
<1>2. CASE PaymentAccepted(r)
  <2> DEFINE u == [chat[r] EXCEPT !.at = "route", !.paid = Paywall]
  <2>1. chat[r].at = "pay" /\ ~HasSession(r) /\ ~Official /\ UnchangedAll
    BY <1>1, <1>2 DEF PaymentAccepted, Wait, Good, OnPath
  <2>2. u \in Chat /\ chat' = [chat EXCEPT ![r] = u]
    BY <1>1, <1>2, ModeAssumption DEF PaymentAccepted, Chat
  <2>3. u.at = "route" /\ u.paid = Paywall /\ u.sent = chat[r].sent
        /\ u.runs = chat[r].runs /\ u.tried = chat[r].tried /\ u.success = chat[r].success
    BY <1>1 DEF Chat
  <2>4. Good(r, u, reservations[r], usage[r]) /\ Kept(chat[r], u)
    <3> HIDE DEF u
    <3> QED
      BY <1>1, <2>1, <2>3 DEF Good, OnPath, Paid, Recorded, Bounded, Kept, Covered, Before,
                              After, InStream, InWork, Chat
  <2> HIDE DEF u
  <2> QED
    BY <2>1, <2>2, <2>4, HandlerStep DEF Fine
<1>3. CASE PaymentDemanded(r)
  BY <1>3, RefuseStep DEF PaymentDemanded, Wait, Before
<1> QED
  BY <1>2, <1>3

-----------------------------------------------------------------------------
(***************************************************************************)
(* From the first provider to the end of the handler's body: the request   *)
(* keeps what covers it.                                                   *)
(***************************************************************************)
LEMMA WorkStep ==
    ASSUME IInv, NEW r \in Requests, NEW u \in Chat, UnchangedAll,
           chat' = [chat EXCEPT ![r] = u],
           chat[r].at \in InWork, u.at \in InWork, u.paid = chat[r].paid,
           u.sent \in {"answer", "payment", "error"} => u.at = "settle",
           u.sent = "partial" => u.at \in InStream \union {"settle"},
           u.at \in InStream => u.sent = "partial" /\ u.runs > 0,
           u.success => u.sent = "answer" /\ u.runs > 0 /\ u.at = "settle",
           Bounded(u), Kept(chat[r], u)
    PROVE  Fine
<1>1. /\ Good(r, chat[r], reservations[r], usage[r])
      /\ reservations[r] \in Store!Reservation \union {NoRow}
      /\ HoldFor[r] \in Nat
  BY Mover, Prices
<1>2. Covered(r, chat[r], reservations[r])
      /\ (HasSession(r) => reservations[r].status = "reserved")
  BY <1>1 DEF Good, OnPath
<1>3. OnPath(r, u, reservations[r])
  BY <1>2 DEF OnPath, Covered, Before, After, InStream, InWork
<1>4. Paid(r, u, reservations[r])
  <2>1. reservations[r] # NoRow => reservations[r].charged \in Nat
    BY <1>1 DEF Store!Reservation
  <2> QED
    BY <1>1, <1>2, <2>1 DEF Good, Paid, InWork
<1>5. Recorded(r, u, usage[r])
  BY <1>1 DEF Good, Recorded, InWork
<1> QED
  BY <1>3, <1>4, <1>5, HandlerStep DEF Fine, Good

\* The provider loop: the next provider, or the end of it.
LEMMA LoopStep ==
    ASSUME IInv, NEW r \in Requests, TryProvider(r) \/ GiveUpOnProviders(r)
    PROVE  Fine
<1>1. chat[r] \in Chat /\ Good(r, chat[r], reservations[r], usage[r])
  BY Mover
<1>2. /\ chat[r].at = "route" /\ UnchangedAll /\ ~chat[r].success
      /\ chat[r].sent = "nothing" /\ chat[r].runs <= 2 * chat[r].tried
      /\ chat[r].tried <= MaxRemoteRetries + 1
      /\ chat[r].tried \in Nat /\ chat[r].runs \in Nat
  BY <1>1 DEF TryProvider, GiveUpOnProviders, Wait, Good, OnPath, Bounded, After, InStream, Chat
<1>3. CASE TryProvider(r)
  <2> DEFINE u == [chat[r] EXCEPT !.at = "remote", !.tried = @ + 1]
  <2>1. u \in Chat /\ chat' = [chat EXCEPT ![r] = u]
    <3> DEFINE next == chat[r].tried + 1
    <3>1. u \in Chat
      <4>1. next \in Nat
        BY <1>2
      <4> HIDE DEF next
      <4>2. [chat[r] EXCEPT !.at = "remote", !.tried = next] \in Chat
        BY <1>1, <4>1 DEF Chat
      <4> QED
        BY <4>2 DEF next
    <3>2. chat' = [chat EXCEPT ![r] = u]
      BY <1>1, <1>3 DEF Chat, TryProvider
    <3> QED
      BY <3>1, <3>2
  <2>2. /\ u.at = "remote" /\ u.sent = "nothing" /\ u.runs = chat[r].runs
        /\ u.tried = chat[r].tried + 1 /\ u.success = FALSE /\ u.paid = chat[r].paid
    BY <1>1, <1>2 DEF Chat
  <2> HIDE DEF u
  <2>3. Bounded(u) /\ Kept(chat[r], u)
    BY <1>2, <1>3, <2>2, RetriesAssumption DEF TryProvider, Bounded, Kept
  <2> QED
    BY <1>2, <2>1, <2>2, <2>3, WorkStep DEF InWork, InStream
<1>4. CASE GiveUpOnProviders(r)
  <2>1. ASSUME NEW place \in {"local", "settle"}, NEW reply \in {"nothing", "error"},
               place = "local" <=> reply = "nothing",
               chat' = [chat EXCEPT ![r] = [chat[r] EXCEPT !.at = place, !.sent = reply]]
        PROVE  Fine
    <3> DEFINE u == [chat[r] EXCEPT !.at = place, !.sent = reply]
    <3>1. u \in Chat
      BY <1>1 DEF Chat
    <3>2. /\ u.at = place /\ u.sent = reply /\ u.runs = chat[r].runs
          /\ u.tried = chat[r].tried /\ u.success = FALSE /\ u.paid = chat[r].paid
      BY <1>1, <1>2 DEF Chat
    <3> HIDE DEF u
    <3>3. Bounded(u) /\ Kept(chat[r], u)
      BY <1>2, <3>2 DEF Bounded, Kept
    <3> QED
      BY <1>2, <2>1, <3>1, <3>2, <3>3, WorkStep DEF InWork, InStream, u
  <2>2. CASE LocalBackend
    <3>1. chat' = [chat EXCEPT ![r] = [chat[r] EXCEPT !.at = "local", !.sent = "nothing"]]
      BY <1>1, <1>2, <1>4, <2>2 DEF GiveUpOnProviders, Goto, Chat
    <3> QED
      BY <2>1, <3>1
  <2>3. CASE ~LocalBackend
    <3>1. chat' = [chat EXCEPT ![r] = [chat[r] EXCEPT !.at = "settle", !.sent = "error"]]
      BY <1>4, <2>3 DEF GiveUpOnProviders, Fail
    <3> QED
      BY <2>1, <3>1
  <2> QED
    BY <2>2, <2>3
<1> QED
  BY <1>3, <1>4

(***************************************************************************)
(* One call of a provider or of the local backend: k more runs, the next   *)
(* place, and what was sent.                                               *)
(***************************************************************************)
CallEnds(r, k, place, reply, success, cost) ==
    chat' = [chat EXCEPT ![r] =
        [chat[r] EXCEPT !.at = place, !.sent = reply, !.runs = @ + k,
                        !.success = success, !.cost = cost]]

LEMMA CallStep ==
    ASSUME IInv, NEW r \in Requests, NEW k \in 0..2, NEW place \in InWork,
           NEW reply \in {"nothing", "partial", "answer", "payment", "error"},
           NEW success \in BOOLEAN, NEW cost \in Nat,
           chat[r].at \in {"remote", "local"},
           CallEnds(r, k, place, reply, success, cost), UnchangedAll,
           reply = "nothing" => place = "route" /\ chat[r].at = "remote",
           reply = "partial" => k = 1 /\ place =
               IF chat[r].at = "remote" THEN "streaming" ELSE "localStreaming",
           reply \in {"answer", "payment", "error"} => place = "settle",
           success => reply = "answer" /\ k > 0,
           chat[r].at = "local" => k <= 1
    PROVE  Fine
<1> DEFINE h == chat[r]
           u == [h EXCEPT !.at = place, !.sent = reply, !.runs = @ + k,
                          !.success = success, !.cost = cost]
<1>1. h \in Chat /\ OnPath(r, h, reservations[r]) /\ Bounded(h)
  BY Mover DEF Good
<1>2. h.runs \in Nat /\ h.tried \in Nat /\ h.runs + k \in Nat
  BY <1>1 DEF Chat
<1>3. u \in Chat
  <2> DEFINE runs == h.runs + k
  <2>1. runs \in Nat
    BY <1>2
  <2> HIDE DEF runs
  <2>2. [h EXCEPT !.at = place, !.sent = reply, !.runs = runs,
                  !.success = success, !.cost = cost] \in Chat
    BY <1>1, <2>1 DEF Chat, InWork
  <2> QED
    BY <2>2 DEF runs
<1>4. /\ u.at = place /\ u.sent = reply /\ u.runs = h.runs + k /\ u.tried = h.tried
      /\ u.success = success /\ u.paid = h.paid
  BY <1>1 DEF Chat
<1>5. h.sent = "nothing"
  BY <1>1 DEF OnPath, After, InStream, Chat
<1>6. chat' = [chat EXCEPT ![r] = u]
  BY DEF CallEnds
<1> HIDE DEF u, h
<1>7. Bounded(u) /\ Kept(h, u)
  BY <1>1, <1>2, <1>4, <1>5, RetriesAssumption DEF Bounded, Kept, h
<1> QED
  <2>2. u.at \in InStream => u.sent = "partial" /\ u.runs > 0
    BY <1>2, <1>4 DEF InStream
  <2>3. u.sent \in {"answer", "payment", "error"} => u.at = "settle"
    BY <1>4
  <2>4. u.sent = "partial" => u.at \in InStream \union {"settle"}
    BY <1>4 DEF InStream
  <2>5. u.success => u.sent = "answer" /\ u.runs > 0 /\ u.at = "settle"
    BY <1>2, <1>4
  <2>6. u.at \in InWork /\ chat[r].at \in InWork /\ u.paid = chat[r].paid
    BY <1>4 DEF InWork, h
  <2> QED
    BY <1>3, <1>6, <1>7, <2>2, <2>3, <2>4, <2>5, <2>6, WorkStep DEF h

\* A provider fails, demands a payment, answers or starts to stream.
LEMMA RemoteStep ==
    ASSUME IInv, NEW r \in Requests,
           \/ ProviderFails(r) \/ ProviderDemandsPayment(r) \/ ProviderAnswers(r)
           \/ ProviderStarts(r)
    PROVE  Fine
<1> DEFINE h == chat[r]
<1>1. /\ h \in Chat /\ h.at = "remote" /\ UnchangedAll
      /\ h.sent = "nothing" /\ h.success = FALSE /\ h.cost \in Nat
  <2>1. h \in Chat /\ h.at = "remote" /\ OnPath(r, h, reservations[r])
    BY Mover DEF Good, ProviderFails, ProviderDemandsPayment, ProviderAnswers,
                 ProviderStarts, Wait
  <2> QED
    BY <2>1 DEF OnPath, After, InStream, Chat, ProviderFails, ProviderDemandsPayment,
                ProviderAnswers, ProviderStarts
<1>2. CASE ProviderFails(r)
  <2> PICK k \in Runs(r) : Skip(r, k)
    BY <1>2 DEF ProviderFails
  <2>1. k \in 0..2
    BY DEF Runs
  <2>2. CallEnds(r, k, "route", "nothing", FALSE, h.cost)
    BY <1>1 DEF CallEnds, Skip, Chat
  <2> QED
    BY <1>1, <2>1, <2>2, CallStep DEF InWork
<1>3. CASE ProviderDemandsPayment(r)
  <2> PICK k \in IF r \in Streams THEN {0} ELSE 0..1 :
          chat' = [chat EXCEPT ![r].at = "settle", ![r].sent = "payment", ![r].runs = @ + k]
    BY <1>3 DEF ProviderDemandsPayment
  <2>1. k \in 0..2
    OBVIOUS
  <2>2. CallEnds(r, k, "settle", "payment", FALSE, h.cost)
    BY <1>1 DEF CallEnds, Chat
  <2> QED
    BY <1>1, <2>1, <2>2, CallStep DEF InWork
<1>4. CASE ProviderAnswers(r)
  <2> PICK k \in Runs(r) \ {0}, cost \in Costs : Succeed(r, k, cost)
    BY <1>4 DEF ProviderAnswers
  <2>1. k \in 0..2 /\ k > 0 /\ cost \in Nat
    BY Prices DEF Runs
  <2>2. CallEnds(r, k, "settle", "answer", TRUE, cost)
    BY <1>1 DEF CallEnds, Succeed, Chat
  <2> QED
    BY <1>1, <2>1, <2>2, CallStep DEF InWork
<1>5. CASE ProviderStarts(r)
  <2>1. CallEnds(r, 1, "streaming", "partial", FALSE, h.cost)
    BY <1>1, <1>5 DEF CallEnds, ProviderStarts, StartStream, Chat
  <2> QED
    <3>1. 1 \in 0..2 /\ h.at \in {"remote", "local"}
      BY <1>1
    <3> QED
      BY <1>1, <2>1, <3>1, CallStep DEF InWork
<1> QED
  BY <1>2, <1>3, <1>4, <1>5

\* The local backend does the same once.
LEMMA LocalStep ==
    ASSUME IInv, NEW r \in Requests, LocalFails(r) \/ LocalAnswers(r) \/ LocalStarts(r)
    PROVE  Fine
<1> DEFINE h == chat[r]
<1>1. /\ h \in Chat /\ h.at = "local" /\ UnchangedAll
      /\ h.sent = "nothing" /\ h.success = FALSE /\ h.cost \in Nat
  <2>1. h \in Chat /\ h.at = "local" /\ OnPath(r, h, reservations[r])
    BY Mover DEF Good, LocalFails, LocalAnswers, LocalStarts, Wait
  <2> QED
    BY <2>1 DEF OnPath, After, InStream, Chat, LocalFails, LocalAnswers, LocalStarts
<1>2. CASE LocalFails(r)
  <2> PICK k \in 0..1 :
          chat' = [chat EXCEPT ![r].at = "settle", ![r].sent = "error", ![r].runs = @ + k]
    BY <1>2 DEF LocalFails
  <2>1. CallEnds(r, k, "settle", "error", FALSE, h.cost)
    BY <1>1 DEF CallEnds, Chat
  <2> QED
    <3>1. k \in 0..2 /\ k <= 1
      OBVIOUS
    <3> QED
      BY <1>1, <2>1, <3>1, CallStep DEF InWork
<1>3. CASE LocalAnswers(r)
  <2> PICK cost \in Costs : Succeed(r, 1, cost)
    BY <1>3 DEF LocalAnswers
  <2>1. cost \in Nat
    BY Prices
  <2>2. CallEnds(r, 1, "settle", "answer", TRUE, cost)
    BY <1>1 DEF CallEnds, Succeed, Chat
  <2> QED
    <3>1. 1 \in 0..2 /\ 1 <= 1 /\ 1 > 0 /\ h.at # "remote"
      BY <1>1
    <3> QED
      BY <1>1, <2>1, <2>2, <3>1, CallStep DEF InWork
<1>4. CASE LocalStarts(r)
  <2>1. CallEnds(r, 1, "localStreaming", "partial", FALSE, h.cost)
    BY <1>1, <1>4 DEF CallEnds, LocalStarts, StartStream, Chat
  <2> QED
    <3>1. 1 \in 0..2 /\ 1 <= 1 /\ 1 > 0 /\ h.at # "remote"
      BY <1>1
    <3> QED
      BY <1>1, <2>1, <3>1, CallStep DEF InWork
<1> QED
  BY <1>2, <1>3, <1>4

\* A stream ends, whole or not.
LEMMA StreamStep ==
    ASSUME IInv, NEW r \in Requests, NEW place \in InStream,
           StreamEnds(r, place) \/ StreamBreaks(r, place)
    PROVE  Fine
<1> DEFINE h == chat[r]
<1>1. /\ h \in Chat /\ OnPath(r, h, reservations[r]) /\ Bounded(h)
      /\ h.at = place /\ UnchangedAll
  BY Mover DEF Good, StreamEnds, StreamBreaks, Wait
<1>2. h.sent = "partial" /\ h.runs > 0 /\ h.runs \in Nat /\ ~h.success /\ h.at \in InWork
  BY <1>1 DEF OnPath, After, InStream, InWork, Chat
<1>3. CASE StreamEnds(r, place)
  <2> PICK cost \in Costs \union {InputCost} : Succeed(r, 0, cost)
    BY <1>3 DEF StreamEnds
  <2> DEFINE u == [h EXCEPT !.at = "settle", !.sent = "answer", !.success = TRUE,
                            !.cost = cost]
  <2>1. cost \in Nat
    BY Prices
  <2>2. u \in Chat
    BY <1>1, <2>1 DEF Chat
  <2>3. chat' = [chat EXCEPT ![r] = u]
    <3> DEFINE runs == h.runs + 0
    <3>1. [h EXCEPT !.at = "settle", !.sent = "answer", !.runs = @ + 0, !.success = TRUE,
                    !.cost = cost] = u
      <4>1. runs = h.runs
        BY <1>2
      <4> HIDE DEF runs
      <4>2. [h EXCEPT !.at = "settle", !.sent = "answer", !.runs = runs, !.success = TRUE,
                      !.cost = cost] = u
        BY <1>1, <4>1 DEF Chat
      <4> QED
        BY <4>2 DEF runs
    <3>2. chat' = [chat EXCEPT ![r] =
              [h EXCEPT !.at = "settle", !.sent = "answer", !.runs = @ + 0,
                        !.success = TRUE, !.cost = cost]]
      BY DEF Succeed
    <3> QED
      BY <3>1, <3>2
  <2>4. /\ u.at = "settle" /\ u.sent = "answer" /\ u.runs = h.runs /\ u.tried = h.tried
        /\ u.paid = h.paid
    BY <1>1 DEF Chat
  <2> HIDE DEF u
  <2>5. Bounded(u) /\ Kept(h, u) /\ u.at \in InWork /\ u.at \notin InStream
    BY <1>1, <1>2, <2>4 DEF Bounded, Kept, InWork, InStream
  <2> QED
    BY <1>1, <1>2, <2>2, <2>3, <2>4, <2>5, WorkStep
<1>4. CASE StreamBreaks(r, place)
  <2> DEFINE u == [h EXCEPT !.at = "settle"]
  <2>1. u \in Chat /\ chat' = [chat EXCEPT ![r] = u]
    BY <1>1, <1>4 DEF Chat, StreamBreaks, Goto
  <2>2. /\ u.at = "settle" /\ u.sent = "partial" /\ u.runs = h.runs /\ u.tried = h.tried
        /\ u.paid = h.paid /\ ~u.success
    BY <1>1, <1>2 DEF Chat
  <2> HIDE DEF u
  <2>3. Bounded(u) /\ Kept(h, u) /\ u.at \in InWork /\ u.at \notin InStream
    BY <1>1, <1>2, <2>2 DEF Bounded, Kept, InWork, InStream
  <2> QED
    BY <1>1, <1>2, <2>1, <2>2, <2>3, WorkStep
<1> QED
  BY <1>3, <1>4

-----------------------------------------------------------------------------
\* The deferred call is handed a charge the store knows, within the hold.
LEMMA ActualBounds ==
    ASSUME NEW r \in Requests, chat[r] \in Chat
    PROVE  /\ ActualFor(r) \in Charges /\ ActualFor(r) \in Nat
           /\ ActualFor(r) <= HoldFor[r]
           /\ chat[r].success => ActualFor(r) = Least(chat[r].cost, HoldFor[r])
<1>1. HoldFor[r] \in Nat /\ chat[r].cost \in Nat /\ chat[r].success \in BOOLEAN
  BY Prices DEF Chat
<1>2. ActualFor(r) \in Nat /\ ActualFor(r) <= HoldFor[r]
  <2>1. /\ Least(chat[r].cost, HoldFor[r]) \in Nat
        /\ Least(chat[r].cost, HoldFor[r]) <= HoldFor[r]
    BY <1>1, LeastBounds
  <2>2. 0 \in Nat /\ 0 <= HoldFor[r]
    BY <1>1
  <2> QED
    BY <2>1, <2>2 DEF ActualFor
<1>3. ActualFor(r) \in 0..HoldFor[r]
  BY <1>1, <1>2
<1>4. ActualFor(r) \in Charges
  BY <1>3, PricesAssumption
<1> QED
  BY <1>2, <1>4 DEF ActualFor

\* The deferred settlement of the hold.
LEMMA SettleHoldStep ==
    ASSUME IInv, NEW r \in Requests, SettleHold(r)
    PROVE  Fine
<1> DEFINE h == chat[r]
           old == reservations[r]
           charge == Store!ChargeFor(ActualFor(r), h.success, old.reserved)
           row == Store!Settled(old, charge)
           u == [h EXCEPT !.at = "usage"]
<1>1. /\ h \in Chat /\ Good(r, h, old, usage[r])
      /\ old \in Store!Reservation \union {NoRow}
      /\ usage[r] \in UsageRow \union {NoRow}
      /\ usage = [usage EXCEPT ![r] = usage[r]]
  BY Mover DEF IInv, TypeOK
<1>2. /\ h.at = "settle" /\ HasSession(r) /\ ~h.gone
      /\ old # NoRow /\ old.consumer = Owner[r] /\ old.reserved = HoldFor[r]
      /\ old.status = "reserved" /\ old.charged = 0
  BY <1>1 DEF SettleHold, Wait, Good, OnPath, Paid, Covered, InWork
<1>3. HoldFor[r] \in Nat /\ HoldFor[r] > 0
  BY Prices
<1>4. charge = (IF h.success THEN Least(h.cost, HoldFor[r]) ELSE 0) /\ charge \in Nat
  BY <1>1, <1>2, <1>3, ActualBounds DEF Store!ChargeFor, Chat
<1>5. /\ row.consumer = Owner[r] /\ row.reserved = HoldFor[r] /\ row.charged = charge
      /\ row.status = IF charge > 0 THEN "finalized" ELSE "released"
  BY <1>1, <1>2 DEF Store!Settled, Store!Reservation
<1>6. Store!Next /\ reservations' = [reservations EXCEPT ![r] = row]
  <2>1. Store!Finalize(r, ActualFor(r), h.success) /\ h.success \in BOOLEAN
        /\ ActualFor(r) \in Charges
    BY <1>1, ActualBounds DEF SettleHold, Chat
  <2> QED
    BY <2>1 DEF Store!Next, Store!Finalize
<1>7. row # NoRow
  <2>1. row \in [consumer : Consumers, reserved : Nat, charged : Nat,
                 status : {"reserved", "finalized", "released"}]
    BY <1>1, <1>2, <1>4 DEF Store!Settled, Store!Reservation, Store!Statuses
  <2> QED
    BY <2>1, NoRowAssumption
<1>8. u \in Chat /\ chat' = [chat EXCEPT ![r] = u] /\ usage' = [usage EXCEPT ![r] = usage[r]]
  BY <1>1 DEF SettleHold, Goto, Chat
<1>9. /\ u.at = "usage" /\ u.sent = h.sent /\ u.runs = h.runs /\ u.tried = h.tried
      /\ u.success = h.success /\ u.cost = h.cost /\ u.gone = h.gone /\ u.paid = h.paid
  BY <1>1 DEF Chat
<1> HIDE DEF row, u, charge
<1>10. OnPath(r, u, row) /\ Recorded(r, u, usage[r]) /\ Bounded(u) /\ Kept(h, u)
  BY <1>1, <1>2, <1>5, <1>7, <1>9 DEF Good, OnPath, Recorded, Bounded, Kept, Covered,
                                      Before, After, InStream, InWork
<1>11. Paid(r, u, row)
  BY <1>1, <1>2, <1>3, <1>4, <1>5, <1>7, <1>9 DEF Paid, Chat
<1> QED
  BY <1>1, <1>6, <1>8, <1>10, <1>11, RequestStep DEF Fine, Good

\* The handler moves on after its body, and what it leaves unsettled is allowed for.
LEMMA LeaveStep ==
    ASSUME IInv, NEW r \in Requests, NEW use \in UsageRow \union {NoRow},
           NEW place \in {"usage", "done"}, Goto(r, place),
           usage' = [usage EXCEPT ![r] = use], UnchangedStore,
           chat[r].at = IF place = "usage" THEN "settle" ELSE "usage",
           Recorded(r, [chat[r] EXCEPT !.at = place], use),
           place = "usage" => ~HasSession(r) \/ chat[r].gone \/ "store" \in Faults
    PROVE  Fine
<1> DEFINE h == chat[r]
           u == [h EXCEPT !.at = place]
           row == reservations[r]
<1>1. /\ h \in Chat /\ Good(r, h, row, usage[r])
      /\ row \in Store!Reservation \union {NoRow}
  BY Mover
<1>2. /\ u \in Chat /\ u.at = place /\ u.sent = h.sent /\ u.runs = h.runs
      /\ u.tried = h.tried /\ u.success = h.success /\ u.cost = h.cost /\ u.gone = h.gone
      /\ u.paid = h.paid
  BY <1>1 DEF Chat
<1>3. chat' = [chat EXCEPT ![r] = u] /\ reservations' = [reservations EXCEPT ![r] = row]
  BY DEF Goto, IInv, TypeOK, Store!TypeOK, UnchangedStore, storeVars
<1>4. Recorded(r, u, use) /\ h.at \in {"settle", "usage"}
      /\ (h.at = "usage" <=> place = "done")
  OBVIOUS
<1> HIDE DEF u, row, h
<1>5. OnPath(r, u, row) /\ Bounded(u) /\ Kept(h, u)
  BY <1>1, <1>2, <1>4 DEF Good, OnPath, Bounded, Kept, Covered, Before, After, InStream, InWork
<1>6. Paid(r, u, row)
  <2>1. row # NoRow => row.charged \in Nat
    BY <1>1 DEF Store!Reservation
  <2> QED
    BY <1>1, <1>2, <1>4, <2>1 DEF Good, OnPath, Paid, InWork, h
<1> QED
  BY <1>2, <1>3, <1>4, <1>5, <1>6, RequestStep DEF Fine, Good, h

\* The end of the deferred function.
LEMMA DeferredStep ==
    ASSUME IInv, NEW r \in Requests,
           SettleFails(r) \/ NothingToSettle(r) \/ RecordUsage(r) \/ SkipUsage(r)
    PROVE  Fine
<1> DEFINE h == chat[r]
<1>1. /\ h \in Chat /\ Good(r, h, reservations[r], usage[r])
      /\ usage[r] \in UsageRow \union {NoRow}
      /\ usage = [usage EXCEPT ![r] = usage[r]]
  BY Mover DEF IInv, TypeOK
<1>2. h.at # "done" => usage[r] = NoRow
  BY <1>1 DEF Good, Recorded
<1>3. ASSUME NEW place \in {"usage", "done"}, Goto(r, place), UnchangedAll,
             h.at = IF place = "usage" THEN "settle" ELSE "usage",
             place = "usage" => ~HasSession(r) \/ h.gone \/ "store" \in Faults
      PROVE  Fine
  <2>1. usage[r] = NoRow /\ usage' = [usage EXCEPT ![r] = NoRow] /\ UnchangedStore
    BY <1>1, <1>2, <1>3 DEF UnchangedAll
  <2>2. Recorded(r, [h EXCEPT !.at = place], NoRow)
    BY DEF Recorded
  <2> QED
    BY <1>3, <2>1, <2>2, LeaveStep
<1>4. CASE SettleFails(r)
  BY <1>3, <1>4 DEF SettleFails, Wait
<1>5. CASE NothingToSettle(r)
  BY <1>3, <1>5 DEF NothingToSettle, Wait
<1>6. CASE SkipUsage(r)
  BY <1>3, <1>6 DEF SkipUsage, Wait
<1>7. CASE RecordUsage(r)
  <2> DEFINE use == [status |-> IF h.success THEN "ok" ELSE "error",
                     cost |-> IF h.success /\ HasSession(r) THEN h.cost ELSE 0]
  <2>1. use \in UsageRow
    BY <1>1 DEF UsageRow, Chat
  <2>2. Recorded(r, [h EXCEPT !.at = "done"], use)
    BY <1>1 DEF Recorded, Chat
  <2>3. Goto(r, "done") /\ h.at = "usage" /\ UnchangedStore
        /\ usage' = [usage EXCEPT ![r] = use]
    BY <1>7 DEF RecordUsage, Wait
  <2> HIDE DEF use
  <2> QED
    BY <2>1, <2>2, <2>3, LeaveStep
<1> QED
  BY <1>4, <1>5, <1>6, <1>7

-----------------------------------------------------------------------------
\* A client that hangs up only cancels the context.
LEMMA HangUpStep ==
    ASSUME IInv, NEW r \in Requests, ClientHangsUp(r)
    PROVE  Fine
<1> DEFINE u == [chat[r] EXCEPT !.gone = TRUE]
<1>1. chat[r] \in Chat /\ Good(r, chat[r], reservations[r], usage[r])
  BY Mover
<1>2. u \in Chat /\ u.at = chat[r].at /\ u.sent = chat[r].sent /\ u.runs = chat[r].runs
      /\ u.tried = chat[r].tried /\ u.success = chat[r].success
      /\ u.cost = chat[r].cost /\ u.paid = chat[r].paid /\ u.gone
  BY <1>1 DEF Chat
<1>3. chat' = [chat EXCEPT ![r] = u] /\ UnchangedAll
  BY DEF ClientHangsUp
<1> HIDE DEF u
<1>4. Good(r, u, reservations[r], usage[r]) /\ Kept(chat[r], u)
  BY <1>1, <1>2 DEF Good, OnPath, Paid, Recorded, Bounded, Covered, Kept, Before, After,
                    InStream, InWork
<1> QED
  BY <1>2, <1>3, <1>4, HandlerStep DEF Fine

\* A crash ends every handler that is under way, wherever it is.
LEMMA CrashStep ==
    ASSUME IInv, GatewayCrashes
    PROVE  Fine
<1>1. UnchangedAll /\ reservations' = reservations /\ usage' = usage
  BY DEF GatewayCrashes, UnchangedAll, UnchangedStore, storeVars
<1>2. ASSUME NEW q \in Requests
      PROVE  chat'[q] \in Chat /\ GoodNow(q)' /\ Kept(chat[q], chat'[q])
  <2>1. chat[q] \in Chat /\ Good(q, chat[q], reservations[q], usage[q])
    BY Mover
  <2>2. CASE InFlight(q)
    <3> DEFINE u == [chat[q] EXCEPT !.at = "dead"]
    <3>1. /\ u \in Chat /\ u.at = "dead" /\ u.sent = chat[q].sent
          /\ u.runs = chat[q].runs /\ u.tried = chat[q].tried
          /\ u.success = chat[q].success /\ u.cost = chat[q].cost
          /\ u.paid = chat[q].paid
      BY <2>1 DEF Chat
    <3>2. chat'[q] = u
      BY <2>2 DEF GatewayCrashes
    <3> HIDE DEF u
    <3>3. Good(q, u, reservations[q], usage[q]) /\ Kept(chat[q], u)
      BY <2>1, <2>2, <3>1 DEF Good, OnPath, Paid, Recorded, Bounded, Covered, Kept, Before,
                              After, InStream, InWork, InFlight
    <3> QED
      BY <1>1, <3>1, <3>2, <3>3 DEF GoodNow
  <2>3. CASE ~InFlight(q)
    <3>1. chat'[q] = chat[q]
      BY <2>3 DEF GatewayCrashes
    <3> QED
      BY <1>1, <2>1, <3>1 DEF GoodNow, Kept
  <2> QED
    BY <2>2, <2>3
<1>3. TypeOK'
  <2>1. chat' \in [Requests -> Chat]
    BY <1>2 DEF GatewayCrashes
  <2> QED
    BY <1>1, <2>1 DEF IInv, TypeOK, Store!TypeOK, UnchangedAll, UnchangedStore, storeVars
<1> QED
  BY <1>2, <1>3 DEF Fine, IInv

\* A deposit, or nothing at all, leaves every handler and its rows alone.
LEMMA QuietStep ==
    ASSUME IInv, (\E c \in Consumers : Deposit(c)) \/ UNCHANGED vars
    PROVE  Fine
<1>1. /\ chat' = chat /\ usage' = usage /\ reservations' = reservations
      /\ Store!Next \/ UnchangedStore
  BY DEF Deposit, Store!Credit, Store!Next, UnchangedStore, vars, storeVars
<1>2. Store!TypeOK'
  BY <1>1, StoreTypes DEF IInv, TypeOK, UnchangedStore, storeVars, Store!TypeOK
<1>3. \A q \in Requests : GoodNow(q)' /\ Kept(chat[q], chat'[q])
  BY <1>1 DEF IInv, GoodNow, Kept
<1> QED
  BY <1>1, <1>2, <1>3 DEF Fine, IInv, TypeOK

-----------------------------------------------------------------------------
\* Every step of the specification is one of the steps above.
LEMMA Step ==
    ASSUME IInv, [Next]_vars
    PROVE  Fine
<1>1. ASSUME NEW r \in Requests, Arrive(r)
      PROVE  Fine
  BY <1>1, AuthorizeStep
<1>2. ASSUME NEW r \in Requests, GatewayStep(r)
      PROVE  Fine
  BY <1>2, AuthorizeStep, ReserveStep, PaymentStep, LoopStep, LocalStep, StreamStep,
     SettleHoldStep, DeferredStep DEF GatewayStep, InStream
<1>3. ASSUME NEW r \in Requests, ProviderStep(r)
      PROVE  Fine
  BY <1>3, RemoteStep, StreamStep DEF ProviderStep, InStream
<1>4. ASSUME NEW r \in Requests, ClientHangsUp(r)
      PROVE  Fine
  BY <1>4, HangUpStep
<1> QED
  BY <1>1, <1>2, <1>3, <1>4, CrashStep, QuietStep DEF Next

\* At the start nothing has run and nothing is on hold.
LEMMA Start ==
    ASSUME Init
    PROVE  IInv
<1>1. Store!TypeOK
  BY DEF Init, Store!Init, Store!TypeOK
<1>2. NewChat \in Chat
  BY DEF Chat, NewChat
<1>3. TypeOK
  BY <1>1, <1>2 DEF Init, TypeOK
<1>4. ASSUME NEW r \in Requests
      PROVE  GoodNow(r)
  <2>1. chat[r] = NewChat /\ reservations[r] = NoRow /\ usage[r] = NoRow
    BY DEF Init, Store!Init
  <2> QED
    BY <2>1, RetriesAssumption DEF GoodNow, Good, OnPath, Paid, Recorded, Bounded, NewChat,
           Before, After, InStream, InWork
<1> QED
  BY <1>3, <1>4 DEF IInv

\* The invariant holds throughout.
LEMMA Inductive == Spec => []IInv
<1>1. IInv /\ [Next]_vars => IInv'
  BY Step DEF Fine
<1> QED
  BY Start, <1>1, PTL DEF Spec

(***************************************************************************)
(* What the runs check of a request holds for every number of requests:    *)
(* it is charged only for an answer, never works uncovered, pays in full,  *)
(* is recorded at no less than it was charged, and its work is bounded.    *)
(***************************************************************************)
THEOREM ChatCorrect ==
    Spec => [](/\ TypeOK /\ ChargedOnlyForAnswers /\ NoUncoveredRuns /\ PaidInFull
               /\ UsageNeverUnderstates /\ WorkIsBounded)
<1>1. ASSUME IInv
      PROVE  /\ TypeOK /\ ChargedOnlyForAnswers /\ NoUncoveredRuns /\ PaidInFull
             /\ UsageNeverUnderstates /\ WorkIsBounded
  <2>1. ASSUME NEW r \in Requests
        PROVE  /\ chat[r] \in Chat
               /\ reservations[r] \in Store!Reservation \union {NoRow}
               /\ usage[r] \in UsageRow \union {NoRow}
               /\ OnPath(r, chat[r], reservations[r]) /\ Paid(r, chat[r], reservations[r])
               /\ Recorded(r, chat[r], usage[r]) /\ Bounded(chat[r])
    BY <1>1, <2>1, Mover DEF Good
  <2>2. ChargedOnlyForAnswers
    BY <2>1 DEF ChargedOnlyForAnswers, OnPath, Paid
  <2>3. NoUncoveredRuns
    BY <2>1 DEF NoUncoveredRuns, Working, OnPath, Covered, InWork
  <2>4. PaidInFull
    BY <2>1 DEF PaidInFull, Paid
  <2>5. UsageNeverUnderstates
    <3> SUFFICES ASSUME NEW r \in Requests, usage[r] # NoRow, reservations[r] # NoRow
                 PROVE  /\ reservations[r].charged <= usage[r].cost
                        /\ reservations[r].charged > 0 => usage[r].status = "ok"
      BY DEF UsageNeverUnderstates
    <3>1. /\ reservations[r].charged \in Nat /\ usage[r].cost \in Nat
          /\ chat[r].cost \in Nat /\ HoldFor[r] \in Nat
      BY <2>1, Prices DEF Store!Reservation, UsageRow, Chat
    <3>2. Least(chat[r].cost, HoldFor[r]) <= chat[r].cost
      BY <3>1, LeastBounds
    <3>3. CASE reservations[r].charged > 0
      <4>1. /\ chat[r].success /\ HasSession(r)
            /\ reservations[r].charged <= Least(chat[r].cost, HoldFor[r])
        BY <2>1, <3>3 DEF Paid
      <4>2. usage[r].status = "ok" /\ usage[r].cost = chat[r].cost
        BY <2>1, <4>1 DEF Recorded
      <4>3. Least(chat[r].cost, HoldFor[r]) \in Nat
        BY <3>1, LeastBounds
      <4> QED
        BY <3>1, <3>2, <4>1, <4>2, <4>3
    <3>4. CASE reservations[r].charged = 0
      BY <3>1, <3>4
    <3> QED
      BY <3>1, <3>3, <3>4
  <2>6. WorkIsBounded
    BY <2>1 DEF WorkIsBounded, Bounded
  <2> QED
    BY <1>1, <2>2, <2>3, <2>4, <2>5, <2>6 DEF IInv
<1> QED
  BY <1>1, Inductive, PTL

(***************************************************************************)
(* The client gets one reply: what has been sent stays sent, and nobody    *)
(* runs the request again once the reply has begun.                        *)
(***************************************************************************)
THEOREM ReplyOnce == Spec => OneReply
<1>1. ASSUME IInv, [Next]_vars
      PROVE  \A r \in Requests :
                 /\ chat[r].sent \in {"answer", "payment", "error"} =>
                        chat'[r].sent = chat[r].sent /\ chat'[r].runs = chat[r].runs
                 /\ chat[r].sent = "partial" =>
                        chat'[r].sent \in {"partial", "answer"}
                        /\ chat'[r].runs = chat[r].runs
  BY <1>1, Step DEF Fine, Kept
<1> QED
  BY <1>1, Inductive, PTL DEF Spec, OneReply

-----------------------------------------------------------------------------
\* The gateway only writes the prepaid tables by operations of the store.
LEMMA StoreStep ==
    ASSUME IInv, [Next]_vars
    PROVE  Store!Next \/ UnchangedStore
<1>1. ASSUME NEW r \in Requests, ReserveApproved(r) \/ ReserveFails(r)
      PROVE  Store!Next \/ UnchangedStore
  <2>1. HasSession(r)
    BY <1>1, Mover DEF ReserveApproved, ReserveFails, Wait, Good, OnPath
  <2> QED
    BY <1>1, <2>1, HoldWritten DEF ReserveApproved, ReserveFails
<1>2. ASSUME NEW r \in Requests, SettleHold(r)
      PROVE  Store!Next \/ UnchangedStore
  <2>1. chat[r] \in Chat
    BY Mover
  <2>2. Store!Finalize(r, ActualFor(r), chat[r].success) /\ chat[r].success \in BOOLEAN
        /\ ActualFor(r) \in Charges
    BY <1>2, <2>1, ActualBounds DEF SettleHold, Chat
  <2> QED
    BY <2>2 DEF Store!Next
<1>3. ASSUME NEW c \in Consumers, Deposit(c)
      PROVE  Store!Next \/ UnchangedStore
  BY <1>3 DEF Deposit, Store!Next
<1>4. ASSUME NEW r \in Requests,
             \/ Arrive(r) \/ RejectCaller(r) \/ AcceptCaller(r) \/ ReserveDeclined(r)
             \/ PaymentAccepted(r) \/ PaymentDemanded(r) \/ TryProvider(r)
             \/ GiveUpOnProviders(r) \/ LocalFails(r) \/ LocalAnswers(r) \/ LocalStarts(r)
             \/ ProviderFails(r) \/ ProviderDemandsPayment(r) \/ ProviderAnswers(r)
             \/ ProviderStarts(r) \/ SettleFails(r) \/ NothingToSettle(r)
             \/ RecordUsage(r) \/ SkipUsage(r) \/ ClientHangsUp(r)
      PROVE  UnchangedStore
  BY <1>4 DEF Arrive, RejectCaller, AcceptCaller, ReserveDeclined, PaymentAccepted,
     PaymentDemanded, TryProvider, GiveUpOnProviders, LocalFails, LocalAnswers, LocalStarts,
     ProviderFails, ProviderDemandsPayment, ProviderAnswers, ProviderStarts, SettleFails,
     NothingToSettle, RecordUsage, SkipUsage, ClientHangsUp, UnchangedAll
<1>5. ASSUME NEW r \in Requests, NEW place \in InStream,
             StreamEnds(r, place) \/ StreamBreaks(r, place)
      PROVE  UnchangedStore
  BY <1>5 DEF StreamEnds, StreamBreaks, UnchangedAll
<1>6. ASSUME NEW r \in Requests, GatewayStep(r)
      PROVE  Store!Next \/ UnchangedStore
  BY <1>1, <1>2, <1>4, <1>5, <1>6 DEF GatewayStep, InStream
<1>7. ASSUME NEW r \in Requests, ProviderStep(r)
      PROVE  UnchangedStore
  BY <1>4, <1>5, <1>7 DEF ProviderStep, InStream
<1>8. CASE GatewayCrashes \/ UNCHANGED vars
  BY <1>8 DEF GatewayCrashes, UnchangedAll, UnchangedStore, vars, storeVars
<1> QED
  BY <1>3, <1>4, <1>6, <1>7, <1>8 DEF Next

(***************************************************************************)
(* The gateway implements the ledger: whatever requests, providers,        *)
(* clients and crashes do, the prepaid tables move by whole operations of  *)
(* the store.                                                              *)
(***************************************************************************)
THEOREM ChatKeepsPromise == Spec => Store!Spec
<1>1. Init => Store!Init
  BY DEF Init
<1>2. IInv /\ [Next]_vars => [Store!Next]_(Store!vars)
  BY StoreStep DEF UnchangedStore, storeVars, Store!vars
<1> QED
  BY <1>1, <1>2, Inductive, PTL DEF Spec, Store!Spec

\* Store and Proofs state the same of the tables.
LEMMA SameFunctions ==
    /\ \A c : Proofs!RequestsOf(c) = Store!RequestsOf(c)
    /\ \A c, type, ref : Proofs!Posted(c, type, ref) = Store!Posted(c, type, ref)
    /\ \A entries, amount : Proofs!Once(entries, amount) = Store!Once(entries, amount)
    /\ \A c : /\ Proofs!PaidIn(c) = Store!PaidIn(c)
              /\ Proofs!Held(c) = Store!Held(c)
              /\ Proofs!Spent(c) = Store!Spent(c)
<1>1. \A c, type, ref : Proofs!Posted(c, type, ref) = Store!Posted(c, type, ref)
  BY DEF Proofs!Posted, Store!Posted
<1>2. \A entries, amount : Proofs!Once(entries, amount) = Store!Once(entries, amount)
  BY Zenon DEF Proofs!Once, Store!Once
<1>3. \A c : Proofs!RequestsOf(c) = Store!RequestsOf(c)
  BY DEF Proofs!RequestsOf, Store!RequestsOf
<1>4. \A c : Proofs!HoldsOf(c) = Store!HoldsOf(c)
  BY <1>3 DEF Proofs!HoldsOf, Store!HoldsOf
<1>5. \A entries : Proofs!CreditsIn(entries) = Store!CreditsIn(entries)
  BY DEF Proofs!CreditsIn, Store!CreditsIn
<1>6. \A f : Proofs!SumFunction(f) = Store!SumFunction(f)
  BY Zenon DEF Proofs!SumFunction, Store!SumFunction,
               Proofs!SumFunctionOnSet, Store!SumFunctionOnSet,
               Proofs!FoldFunctionOnSet, Store!FoldFunctionOnSet,
               Proofs!MapThenFoldSet, Store!MapThenFoldSet
<1>7. \A c : Proofs!PaidIn(c) = Store!PaidIn(c)
  BY <1>5, <1>6, Zenon DEF Proofs!PaidIn, Store!PaidIn
<1>8. \A c : Proofs!Held(c) = Store!Held(c)
  BY <1>4, <1>6, Zenon DEF Proofs!Held, Store!Held
<1>9. \A c : Proofs!Spent(c) = Store!Spent(c)
  BY <1>3, <1>6, Zenon DEF Proofs!Spent, Store!Spent
<1> QED
  BY <1>1, <1>2, <1>3, <1>7, <1>8, <1>9, Zenon

LEMMA SameClaims ==
    /\ Proofs!LedgerChains => Store!LedgerChains
    /\ Proofs!NeverOverdrawn => Store!NeverOverdrawn
    /\ Proofs!LedgerExplainsReservations => Store!LedgerExplainsReservations
    /\ Proofs!TopupCreditedOnce => Store!TopupCreditedOnce
    /\ Proofs!Conservation => Store!Conservation
<1>1. \A c \in Consumers : Proofs!BalanceOf(c) = Store!BalanceOf(c)
  BY DEF Proofs!BalanceOf, Store!BalanceOf
<1>2. \A c \in Consumers : \A i : Proofs!AfterOf(c, i) = Store!AfterOf(c, i)
  BY DEF Proofs!AfterOf, Store!AfterOf
<1>3. \A c, r : Proofs!Explained(c, r) = Store!Explained(c, r)
  BY SameFunctions, Zenon DEF Proofs!Explained, Store!Explained
<1>4. \A c, f : Proofs!CreditedOnce(c, f) = Store!CreditedOnce(c, f)
  BY SameFunctions, Zenon DEF Proofs!CreditedOnce, Store!CreditedOnce
<1> QED
  BY <1>1, <1>2, <1>3, <1>4, SameFunctions, Zenon
     DEF Proofs!LedgerChains, Store!LedgerChains, Proofs!NeverOverdrawn, Store!NeverOverdrawn,
         Proofs!LedgerExplainsReservations, Store!LedgerExplainsReservations,
         Proofs!TopupCreditedOnce, Store!TopupCreditedOnce,
         Proofs!Conservation, Store!Conservation

(***************************************************************************)
(* So every ledger chains, no consumer is overdrawn, every hold and topup  *)
(* is in the ledger once, and the consumer's money is in its balance, its  *)
(* holds and its finished requests, while requests, deposits and crashes   *)
(* interleave.                                                             *)
(***************************************************************************)
THEOREM ChatLedgerCorrect ==
    Spec => [](/\ Store!LedgerChains /\ Store!NeverOverdrawn
               /\ Store!LedgerExplainsReservations /\ Store!TopupCreditedOnce
               /\ Store!Conservation)
<1>1. Store!Init => Proofs!Init
  BY DEF Store!Init, Proofs!Init
<1>2. [Store!Next]_(Store!vars) => [Proofs!Next]_(Proofs!vars)
  BY SameStep DEF Store!vars, Proofs!vars
<1>3. Proofs!Spec => [](/\ Proofs!LedgerChains /\ Proofs!NeverOverdrawn
                       /\ Proofs!LedgerExplainsReservations /\ Proofs!TopupCreditedOnce
                       /\ Proofs!Conservation)
  <2>1. /\ Proofs!Spec => [](Proofs!LedgerChains /\ Proofs!NeverOverdrawn)
        /\ Proofs!Spec => []Proofs!LedgerExplainsReservations
        /\ Proofs!Spec => []Proofs!TopupCreditedOnce
        /\ Proofs!Spec => []Proofs!Conservation
    BY Proofs!LedgerCorrect, Proofs!LedgerExplains, Proofs!TopupsCredited,
       Proofs!MoneyConserved, AmountsAssumption, PaymentAssumption, ReferenceAssumption,
       NoRowAssumption
  <2> QED
    BY <2>1, PTL
<1> QED
  BY <1>1, <1>2, <1>3, SameClaims, ChatKeepsPromise, PTL
     DEF Store!Spec, Proofs!Spec

-----------------------------------------------------------------------------
(***************************************************************************)
(* What a consumer finds in its ledger: a debit names a request of its     *)
(* own, that a provider or the local backend ran and whose answer went out *)
(* whole; there is one debit for it, of no more than the answer cost and   *)
(* no more than was held.                                                  *)
(***************************************************************************)
BilledForAnswers ==
    \A c \in Consumers, r \in Requests : \A debit \in Store!Posted(c, "debit", r) :
        /\ Store!Posted(c, "debit", r) = {debit}
        /\ Owner[r] = c
        /\ chat[r].success /\ chat[r].sent = "answer" /\ chat[r].runs > 0
        /\ -debit[2] > 0 /\ -debit[2] <= Least(chat[r].cost, HoldFor[r])

\* Only requests whose row is finalized have a debit, and it is the charge of the row.
LEMMA DebitIsCharge ==
    ASSUME Store!LedgerExplainsReservations, NEW c \in Consumers, NEW r \in Requests,
           NEW debit \in Store!Posted(c, "debit", r)
    PROVE  /\ Store!Posted(c, "debit", r) = {debit}
           /\ reservations[r] # NoRow /\ reservations[r].consumer = c
           /\ reservations[r].status = "finalized"
           /\ debit[2] = -reservations[r].charged
<1>1. Store!Explained(c, r)
  BY DEF Store!LedgerExplainsReservations
<1>2. r \in Store!RequestsOf(c)
  BY <1>1 DEF Store!Explained
<1>3. /\ reservations[r].status = "finalized"
      /\ Store!Once(Store!Posted(c, "debit", r), -reservations[r].charged)
  BY <1>1, <1>2 DEF Store!Explained
<1>4. PICK entry \in Store!Posted(c, "debit", r) :
          Store!Posted(c, "debit", r) = {entry} /\ entry[2] = -reservations[r].charged
  BY <1>3 DEF Store!Once
<1>5. debit = entry
  BY <1>4
<1> QED
  BY <1>2, <1>3, <1>4, <1>5 DEF Store!RequestsOf

(***************************************************************************)
(* The bill of every consumer is for answers it was sent, whatever crashes *)
(* and faults come between the answer, the settlement and the entries.     *)
(***************************************************************************)
THEOREM BillsAreForAnswers == Spec => []BilledForAnswers
<1>1. Store!Init => Proofs!Init
  BY DEF Store!Init, Proofs!Init
<1>2. [Store!Next]_(Store!vars) => [Proofs!Next]_(Proofs!vars)
  BY SameStep DEF Store!vars, Proofs!vars
<1>3. Proofs!Spec => []Proofs!StatusesAgree
  BY Proofs!StatusesAlwaysAgree, AmountsAssumption, PaymentAssumption, ReferenceAssumption,
     NoRowAssumption
<1>4. ASSUME IInv, ChargedOnlyForAnswers, Store!LedgerExplainsReservations,
             Proofs!StatusesAgree
      PROVE  BilledForAnswers
  <2> SUFFICES ASSUME NEW c \in Consumers, NEW r \in Requests,
                      NEW debit \in Store!Posted(c, "debit", r)
               PROVE  /\ Store!Posted(c, "debit", r) = {debit}
                      /\ Owner[r] = c
                      /\ chat[r].success /\ chat[r].sent = "answer" /\ chat[r].runs > 0
                      /\ -debit[2] > 0 /\ -debit[2] <= Least(chat[r].cost, HoldFor[r])
    BY DEF BilledForAnswers
  <2>1. /\ Store!Posted(c, "debit", r) = {debit}
        /\ reservations[r] # NoRow /\ reservations[r].consumer = c
        /\ reservations[r].status = "finalized"
        /\ debit[2] = -reservations[r].charged
    BY <1>4, DebitIsCharge
  <2>2. reservations[r].charged > 0
    BY <1>4, <2>1 DEF Proofs!StatusesAgree
  <2>3. /\ chat[r].success /\ chat[r].sent = "answer" /\ chat[r].runs > 0
        /\ reservations[r].charged <= Least(chat[r].cost, HoldFor[r])
    BY <1>4, <2>1, <2>2 DEF ChargedOnlyForAnswers
  <2>4. /\ reservations[r] \in Store!Reservation
        /\ OnPath(r, chat[r], reservations[r]) /\ Paid(r, chat[r], reservations[r])
    BY <1>4, <2>1, Mover DEF Good
  <2>5. Owner[r] = c
    BY <2>1, <2>3, <2>4 DEF OnPath, Paid, Covered
  <2>6. -debit[2] = reservations[r].charged
    BY <2>1, <2>4 DEF Store!Reservation
  <2> QED
    BY <2>1, <2>2, <2>3, <2>5, <2>6
<1> QED
  BY <1>1, <1>2, <1>3, <1>4, Inductive, ChatCorrect, ChatLedgerCorrect, ChatKeepsPromise, PTL
     DEF Store!Spec, Proofs!Spec

-----------------------------------------------------------------------------
(***************************************************************************)
(* How many more steps a handler can take: those of the longest way from   *)
(* its place to its end, the turns of the provider loop that are left, and *)
(* one for a client that has not hung up.                                  *)
(***************************************************************************)
Distance(place) ==
    CASE place = "new" -> 11
      [] place = "authorize" -> 10
      [] place \in {"reserve", "pay"} -> 9
      [] place = "remote" -> 8
      [] place = "route" -> 7
      [] place = "local" -> 6
      [] place \in InStream -> 5
      [] place = "settle" -> 4
      [] place = "usage" -> 3
      [] OTHER -> 0

StepsLeft(h) ==
    Distance(h.at) + 2 * (MaxRemoteRetries + 1 - h.tried) + (IF h.gone THEN 0 ELSE 1)

Ended(h) == h.at \in {"done", "dead"}

\* A handler goes on to a place nearer its end, tries one more provider, or is cancelled.
Nearer(h, g) ==
    g.tried = h.tried /\ g.gone = h.gone /\ Distance(g.at) < Distance(h.at)
NextProvider(h, g) ==
    h.at = "route" /\ g.at = "remote" /\ g.tried = h.tried + 1 /\ g.gone = h.gone
HungUp(h, g) == g.at = h.at /\ g.tried = h.tried /\ ~h.gone /\ g.gone
Onward(h, g) == ~Ended(h) /\ (Nearer(h, g) \/ NextProvider(h, g) \/ HungUp(h, g))
OthersStay(r) == \A q \in Requests \ {r} : chat'[q] = chat[q]

LEMMA MovesOn ==
    ASSUME TypeOK, NEW r \in Requests,
           Arrive(r) \/ GatewayStep(r) \/ ProviderStep(r) \/ ClientHangsUp(r)
    PROVE  OthersStay(r) /\ (chat'[r] = chat[r] \/ Onward(chat[r], chat'[r]))
<1> chat \in [Requests -> Chat]
  BY DEF TypeOK
<1>1. CASE Arrive(r) \/ RejectCaller(r) \/ AcceptCaller(r)
  BY <1>1 DEF Arrive, RejectCaller, AcceptCaller, Refuse, Goto, Wait, OthersStay, Onward, Ended,
              Nearer, Distance, InStream, Chat
<1>2. CASE ReserveApproved(r) \/ ReserveDeclined(r) \/ ReserveFails(r)
  BY <1>2 DEF ReserveApproved, ReserveDeclined, ReserveFails, Refuse, Goto, Wait, OthersStay,
              Onward, Ended, Nearer, Distance, InStream, Chat
<1>3. CASE PaymentAccepted(r) \/ PaymentDemanded(r)
  BY <1>3 DEF PaymentAccepted, PaymentDemanded, Refuse, Goto, Wait, OthersStay,
              Onward, Ended, Nearer, Distance, InStream, Chat
<1>4. CASE TryProvider(r) \/ GiveUpOnProviders(r)
  BY <1>4 DEF TryProvider, GiveUpOnProviders, Fail, Goto, Wait, OthersStay, Onward, Ended,
              Nearer, NextProvider, Distance, InStream, Chat
<1>5. CASE LocalFails(r) \/ LocalAnswers(r) \/ LocalStarts(r)
  BY <1>5 DEF LocalFails, LocalAnswers, LocalStarts, StartStream, Succeed, Wait, OthersStay,
              Onward, Ended, Nearer, Distance, InStream, Chat
<1>6. ASSUME NEW place \in InStream, StreamEnds(r, place) \/ StreamBreaks(r, place)
      PROVE  OthersStay(r) /\ (chat'[r] = chat[r] \/ Onward(chat[r], chat'[r]))
  BY <1>6 DEF StreamEnds, StreamBreaks, Succeed, Goto, Wait, OthersStay,
              Onward, Ended, Nearer, Distance, InStream, Chat
<1>7. CASE \/ SettleHold(r) \/ SettleFails(r) \/ NothingToSettle(r)
           \/ RecordUsage(r) \/ SkipUsage(r)
  BY <1>7 DEF SettleHold, SettleFails, NothingToSettle, RecordUsage, SkipUsage, Goto, Wait,
              OthersStay, Onward, Ended, Nearer, Distance, InStream, Chat
<1>8. CASE \/ ProviderFails(r) \/ ProviderDemandsPayment(r) \/ ProviderAnswers(r)
           \/ ProviderStarts(r)
  <2>1. CASE ProviderFails(r)
    <3>1. PICK k \in Runs(r) : Skip(r, k)
      BY <2>1 DEF ProviderFails
    <3> QED
      BY <2>1, <3>1 DEF ProviderFails, Skip, Wait, OthersStay, Onward, Ended, Nearer, Distance,
                        InStream, Chat
  <2>2. CASE ProviderDemandsPayment(r)
    BY <2>2 DEF ProviderDemandsPayment, Wait, OthersStay, Onward, Ended, Nearer, Distance,
                InStream, Chat
  <2>3. CASE ProviderAnswers(r)
    <3>1. PICK k \in Runs(r), cost \in Costs : Succeed(r, k, cost)
      BY <2>3 DEF ProviderAnswers
    <3> QED
      BY <2>3, <3>1 DEF ProviderAnswers, Succeed, Wait, OthersStay, Onward, Ended, Nearer,
                        Distance, InStream, Chat
  <2>4. CASE ProviderStarts(r)
    BY <2>4 DEF ProviderStarts, StartStream, Wait, OthersStay, Onward, Ended, Nearer, Distance,
                InStream, Chat
  <2> QED
    BY <1>8, <2>1, <2>2, <2>3, <2>4
<1>9. CASE ClientHangsUp(r)
  BY <1>9 DEF ClientHangsUp, InFlight, OthersStay, Onward, Ended, HungUp, Chat
<1>10. "streaming" \in InStream /\ "localStreaming" \in InStream
  BY DEF InStream
<1> QED
  BY <1>1, <1>2, <1>3, <1>4, <1>5, <1>6, <1>7, <1>8, <1>9, <1>10, Zenon
     DEF GatewayStep, ProviderStep

\* A step that leaves an invariant handler goes down, and the count is never negative.
LEMMA OnwardIsLess ==
    ASSUME NEW h \in Chat, NEW g \in Chat, Bounded(h), Bounded(g)
    PROVE  /\ StepsLeft(h) \in Nat
           /\ Onward(h, g) => StepsLeft(g) < StepsLeft(h)
<1>1. Distance(h.at) \in Nat /\ Distance(g.at) \in Nat
  BY DEF Distance
<1>2. h.tried \in Nat /\ g.tried \in Nat /\ h.gone \in BOOLEAN /\ g.gone \in BOOLEAN
  BY DEF Chat
<1>3. MaxRemoteRetries + 1 - h.tried \in Nat
  BY <1>2, RetriesAssumption DEF Bounded
<1>4. StepsLeft(h) \in Nat
  BY <1>1, <1>3 DEF StepsLeft
<1>5. NextProvider(h, g) => Distance(h.at) = 7 /\ Distance(g.at) = 8
  BY DEF NextProvider, Distance, InStream
<1>6. ASSUME Onward(h, g)
      PROVE  StepsLeft(g) < StepsLeft(h)
  <2>1. CASE Nearer(h, g)
    BY <1>1, <1>2, <2>1, RetriesAssumption DEF Nearer, StepsLeft
  <2>2. CASE NextProvider(h, g)
    BY <1>2, <1>5, <2>2, RetriesAssumption DEF NextProvider, StepsLeft
  <2>3. CASE HungUp(h, g)
    BY <1>1, <1>2, <2>3, RetriesAssumption DEF HungUp, StepsLeft
  <2> QED
    BY <1>6, <2>1, <2>2, <2>3 DEF Onward
<1> QED
  BY <1>4, <1>6

(***************************************************************************)
(* No request goes round for ever: whatever its providers, its client and  *)
(* the store do, every change of its handler brings its end nearer, there  *)
(* are at most 2 * MaxRemoteRetries + 14 of them, and an ended handler     *)
(* stays ended.  It can only wait, which is what EveryRequestEnds is       *)
(* about.                                                                  *)
(***************************************************************************)
ChangesRunDown ==
    \A r \in Requests :
        chat'[r] # chat[r] =>
            /\ ~Ended(chat[r])
            /\ StepsLeft(chat'[r]) \in Nat /\ StepsLeft(chat'[r]) < StepsLeft(chat[r])
            /\ StepsLeft(chat[r]) <= 2 * MaxRemoteRetries + 14

THEOREM RequestsRunDown == Spec => [][ChangesRunDown]_vars
<1>1. ASSUME IInv, [Next]_vars
      PROVE  ChangesRunDown
  <2> SUFFICES ASSUME NEW r \in Requests, chat'[r] # chat[r]
               PROVE  /\ ~Ended(chat[r])
                      /\ StepsLeft(chat'[r]) \in Nat
                      /\ StepsLeft(chat'[r]) < StepsLeft(chat[r])
                      /\ StepsLeft(chat[r]) <= 2 * MaxRemoteRetries + 14
    BY DEF ChangesRunDown
  <2>1. chat[r] \in Chat /\ Bounded(chat[r])
    BY <1>1, Mover DEF Good
  <2>2. chat'[r] \in Chat /\ Bounded(chat'[r])
    BY <1>1, Step DEF Fine, IInv, TypeOK, GoodNow, Good
  <2>3. Onward(chat[r], chat'[r])
    <3>1. ASSUME NEW q \in Requests,
                 Arrive(q) \/ GatewayStep(q) \/ ProviderStep(q) \/ ClientHangsUp(q)
          PROVE  Onward(chat[r], chat'[r])
      BY <1>1, <3>1, MovesOn DEF IInv, OthersStay
    <3>2. CASE GatewayCrashes
      <4>1. InFlight(r) /\ chat'[r] = [chat[r] EXCEPT !.at = "dead"]
        BY <1>1, <3>2 DEF GatewayCrashes
      <4> QED
        BY <2>1, <4>1 DEF InFlight, Onward, Ended, Nearer, Distance, InStream, Chat
    <3>3. ~(\E c \in Consumers : Deposit(c)) /\ ~UNCHANGED vars
      BY <1>1 DEF Deposit, vars
    <3> QED
      BY <1>1, <3>1, <3>2, <3>3 DEF Next
  <2>4. StepsLeft(chat[r]) <= 2 * MaxRemoteRetries + 14
    <3>1. Distance(chat[r].at) \in 0..11
      BY DEF Distance
    <3>2. chat[r].tried \in Nat /\ chat[r].gone \in BOOLEAN
      BY <2>1 DEF Chat
    <3> QED
      BY <3>1, <3>2, RetriesAssumption DEF StepsLeft
  <2> QED
    BY <2>1, <2>2, <2>3, <2>4, OnwardIsLess DEF Onward
<1> QED
  BY <1>1, Inductive, PTL DEF Spec

-----------------------------------------------------------------------------
(***************************************************************************)
(* What a hold that stays says about its request: it is still under way,   *)
(* its gateway died, or its client was gone or the store failed before the *)
(* settlement.  This is the safety half of OnlyAbandonedHoldsStay.         *)
(***************************************************************************)
OnHold(row) == row # NoRow /\ row.status = "reserved"
Abandoned(h) == h.gone \/ h.at = "dead" \/ "store" \in Faults
HasReason(h, row) == OnHold(row) => h.at \in InWork \/ Abandoned(h)
HoldsHaveReasons == \A r \in Requests : HasReason(chat[r], reservations[r])

\* Before its work a handler has no reservation, and after it none that it could lose.
LEMMA HandlerKeepsReason ==
    ASSUME NEW r \in Requests, NEW h \in Chat, NEW g \in Chat, NEW row,
           OnPath(r, h, row), HasReason(h, row), h.gone => g.gone, h.at # "dead",
           h.at \in InWork => g.at \in InWork \/ Abandoned(g) \/ ~HasSession(r),
           Paid(r, h, row)
    PROVE  HasReason(g, row)
BY DEF OnPath, Paid, HasReason, Abandoned, OnHold, Before, InWork, Chat

LEMMA ReasonKept ==
    ASSUME IInv, HoldsHaveReasons, NEW r \in Requests,
           Arrive(r) \/ GatewayStep(r) \/ ProviderStep(r) \/ ClientHangsUp(r)
    PROVE  HasReason(chat[r], reservations[r])'
<1>. DEFINE h == chat[r]
            Only == /\ reservations'[r] = reservations[r]
                    /\ chat'[r].gone = h.gone /\ h.at # "dead"
                    /\ h.at \in InWork => chat'[r].at \in InWork \/ Abandoned(h) \/ ~HasSession(r)
<1>1. chat \in [Requests -> Chat] /\ reservations \in [Requests -> Store!Reservation \union {NoRow}]
  BY DEF IInv, TypeOK, Store!TypeOK
<1>2. h \in Chat /\ OnPath(r, h, reservations[r]) /\ Paid(r, h, reservations[r])
  BY Mover DEF Good
<1>3. chat'[r] \in Chat
  BY Step DEF Next, Fine, IInv, TypeOK
<1>4. HasReason(h, reservations[r])
  BY DEF HoldsHaveReasons
<1>5. ASSUME Only
      PROVE  HasReason(chat'[r], reservations'[r])
  <2>1. Abandoned(h) => Abandoned(chat'[r])
    BY <1>5 DEF Abandoned
  <2>. QED
    BY <1>2, <1>3, <1>4, <1>5, <2>1, HandlerKeepsReason
<1>. USE DEF UnchangedAll, UnchangedStore, storeVars, Wait, Goto
<1>6. CASE ReserveApproved(r)
  <2>1. chat'[r].at = "route"
    BY <1>1, <1>6 DEF ReserveApproved, Chat
  <2>. QED
    BY <2>1 DEF HasReason, InWork
<1>7. CASE ReserveFails(r)
  <2>1. chat'[r].gone = h.gone /\ (h.gone \/ "store" \in Faults)
    BY <1>1, <1>7 DEF ReserveFails, Refuse, Chat
  <2>. QED
    BY <2>1 DEF HasReason, Abandoned
<1>8. CASE SettleHold(r)
  <2>1. reservations'[r] # NoRow => reservations'[r].status # "reserved"
    BY <1>1, <1>8 DEF SettleHold, Store!Finalize, Store!Settled, Store!Reservation
  <2>. QED
    BY <2>1 DEF HasReason, OnHold
<1>9. CASE ClientHangsUp(r)
  <2>1. chat'[r].gone
    BY <1>1, <1>9 DEF ClientHangsUp, Chat
  <2>. QED
    BY <2>1 DEF HasReason, Abandoned
<1>10. CASE Arrive(r) \/ RejectCaller(r) \/ AcceptCaller(r) \/ ReserveDeclined(r)
  <2>1. Only
    BY <1>1, <1>10 DEF Arrive, RejectCaller, AcceptCaller, ReserveDeclined, Refuse, Chat, InWork
  <2>. QED
    BY <1>5, <2>1
<1>11. CASE PaymentAccepted(r) \/ PaymentDemanded(r) \/ TryProvider(r) \/ GiveUpOnProviders(r)
  <2>1. Only
    BY <1>1, <1>11 DEF PaymentAccepted, PaymentDemanded, TryProvider, GiveUpOnProviders, Refuse,
                       Fail, Chat, InWork
  <2>. QED
    BY <1>5, <2>1
<1>12. CASE LocalFails(r) \/ LocalAnswers(r) \/ LocalStarts(r)
  <2>1. Only
    BY <1>1, <1>12 DEF LocalFails, LocalAnswers, LocalStarts, Succeed, StartStream, Chat, InWork
  <2>. QED
    BY <1>5, <2>1
<1>13. CASE ProviderFails(r) \/ ProviderDemandsPayment(r) \/ ProviderAnswers(r) \/ ProviderStarts(r)
  <2>1. CASE ProviderFails(r)
    <3>1. PICK k \in Runs(r) : Skip(r, k)
      BY <2>1 DEF ProviderFails
    <3>2. Only
      BY <1>1, <2>1, <3>1 DEF ProviderFails, Skip, Chat, InWork
    <3>. QED
      BY <1>5, <3>2
  <2>2. CASE ProviderDemandsPayment(r) \/ ProviderStarts(r)
    <3>1. Only
      BY <1>1, <2>2 DEF ProviderDemandsPayment, ProviderStarts, StartStream, Chat, InWork
    <3>. QED
      BY <1>5, <3>1
  <2>3. CASE ProviderAnswers(r)
    <3>1. PICK k \in Runs(r), cost \in Costs : Succeed(r, k, cost)
      BY <2>3 DEF ProviderAnswers
    <3>2. Only
      BY <1>1, <2>3, <3>1 DEF ProviderAnswers, Succeed, Chat, InWork
    <3>. QED
      BY <1>5, <3>2
  <2>. QED
    BY <1>13, <2>1, <2>2, <2>3
<1>14. ASSUME NEW place \in InStream, StreamEnds(r, place) \/ StreamBreaks(r, place)
       PROVE  HasReason(chat'[r], reservations'[r])
  <2>1. Only
    BY <1>1, <1>14 DEF StreamEnds, StreamBreaks, Succeed, Chat, InWork, InStream
  <2>. QED
    BY <1>5, <2>1
<1>15. CASE SettleFails(r) \/ NothingToSettle(r) \/ RecordUsage(r) \/ SkipUsage(r)
  <2>1. Only
    BY <1>1, <1>15 DEF SettleFails, NothingToSettle, RecordUsage, SkipUsage, Abandoned, Chat, InWork
  <2>. QED
    BY <1>5, <2>1
<1>16. "streaming" \in InStream /\ "localStreaming" \in InStream
  BY DEF InStream
<1>. HIDE DEF Only, UnchangedAll, Wait, Goto
<1>. QED
  BY <1>6, <1>7, <1>8, <1>9, <1>10, <1>11, <1>12, <1>13, <1>14, <1>15, <1>16, Zenon
     DEF GatewayStep, ProviderStep

\* A step of one request is not a step of another, nor of its rows.
LEMMA RowsStay ==
    ASSUME IInv, NEW r \in Requests, NEW q \in Requests \ {r},
           Arrive(r) \/ GatewayStep(r) \/ ProviderStep(r) \/ ClientHangsUp(r)
    PROVE  chat'[q] = chat[q] /\ reservations'[q] = reservations[q]
<1>1. chat'[q] = chat[q]
  BY MovesOn DEF IInv, OthersStay
<1>2. reservations \in [Requests -> Store!Reservation \union {NoRow}]
  BY DEF IInv, TypeOK, Store!TypeOK
<1>3. \/ reservations' = reservations
      \/ \E amount \in Amounts : Store!Reserve(Owner[r], r, amount)
      \/ \E actual, success : Store!Finalize(r, actual, success)
  BY Prices DEF GatewayStep, ProviderStep, Arrive, ClientHangsUp, RejectCaller, AcceptCaller,
     ReserveApproved, ReserveDeclined, ReserveFails, PaymentAccepted, PaymentDemanded, TryProvider,
     GiveUpOnProviders, LocalFails, LocalAnswers, LocalStarts, StreamEnds, StreamBreaks, SettleHold,
     SettleFails, NothingToSettle, RecordUsage, SkipUsage, ProviderFails, ProviderDemandsPayment,
     ProviderAnswers, ProviderStarts, UnchangedAll, UnchangedStore, storeVars
<1>. QED
  BY <1>1, <1>2, <1>3 DEF Store!Reserve, Store!Finalize

(***************************************************************************)
(* No hold is lost between the actions of a request: whatever providers,   *)
(* failover and the local backend do, a hold outlives its request only if  *)
(* the client hung up, the gateway died, or the store failed.              *)
(***************************************************************************)
THEOREM AbandonedHoldsOnly == Spec => []HoldsHaveReasons
<1>1. Init => HoldsHaveReasons
  BY DEF Init, Store!Init, HoldsHaveReasons, HasReason, OnHold
<1>2. ASSUME IInv, HoldsHaveReasons, [Next]_vars
      PROVE  HoldsHaveReasons'
  <2>1. ASSUME NEW r \in Requests,
               Arrive(r) \/ GatewayStep(r) \/ ProviderStep(r) \/ ClientHangsUp(r)
        PROVE  HoldsHaveReasons'
    BY <1>2, <2>1, ReasonKept, RowsStay DEF HoldsHaveReasons
  <2>2. CASE GatewayCrashes
    <3>1. ASSUME NEW r \in Requests
          PROVE  HasReason(chat[r], reservations[r])'
      <4>1. /\ reservations'[r] = reservations[r] /\ chat[r] \in Chat
            /\ HasReason(chat[r], reservations[r])
        BY <1>2, <2>2, Mover DEF GatewayCrashes, UnchangedAll, UnchangedStore, storeVars,
                                 HoldsHaveReasons
      <4>2. chat'[r] = chat[r] \/ chat'[r] = [chat[r] EXCEPT !.at = "dead"]
        BY <2>2 DEF GatewayCrashes
      <4>. QED
        BY <4>1, <4>2 DEF HasReason, Abandoned, Chat
    <3>. QED
      BY <3>1 DEF HoldsHaveReasons
  <2>3. CASE (\E c \in Consumers : Deposit(c)) \/ UNCHANGED vars
    BY <1>2, <2>3 DEF Deposit, Store!Credit, vars, storeVars, HoldsHaveReasons
  <2>. QED
    BY <1>2, <2>1, <2>2, <2>3 DEF Next
<1>. QED
  BY <1>1, <1>2, Inductive, PTL DEF Spec

(***************************************************************************)
(* A request that ended without an answer has nothing on hold and was      *)
(* charged nothing, provided that its client stayed and the store answered *)
(* (finalizePrepaidReservation in the deferred function).                  *)
(***************************************************************************)
FailuresAreRefunded ==
    \A r \in Requests :
        /\ chat[r].at \in {"usage", "done"} /\ ~chat[r].success
        /\ ~chat[r].gone /\ "store" \notin Faults
        /\ reservations[r] # NoRow
        => reservations[r].status # "reserved" /\ reservations[r].charged = 0

THEOREM RefundsAreMade == Spec => []FailuresAreRefunded
<1>1. IInv /\ HoldsHaveReasons => FailuresAreRefunded
  <2>. SUFFICES ASSUME IInv, HoldsHaveReasons, NEW r \in Requests,
                       chat[r].at \in {"usage", "done"}, ~chat[r].success,
                       ~chat[r].gone, "store" \notin Faults, reservations[r] # NoRow
                PROVE  reservations[r].status # "reserved" /\ reservations[r].charged = 0
    BY DEF FailuresAreRefunded
  <2>1. HasReason(chat[r], reservations[r]) /\ Paid(r, chat[r], reservations[r])
    BY Mover DEF HoldsHaveReasons, Good
  <2>2. reservations[r].charged \in Nat
    BY Mover DEF Store!Reservation
  <2>. QED
    BY <2>1, <2>2 DEF HasReason, OnHold, Abandoned, InWork, Paid
<1>. QED
  BY <1>1, Inductive, AbandonedHoldsOnly, PTL

=============================================================================

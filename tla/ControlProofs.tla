---------------------------- MODULE ControlProofs ----------------------------
(***************************************************************************)
(* What Providers and Telemetry promise, proved for any number of          *)
(* providers, calls, batches and events.                                   *)
(***************************************************************************)
EXTENDS Telemetry, SequenceTheorems, FiniteSetTheorems, TLAPS

\* The places of a call that has seen its provider's row.
PastUpsert == {"close", "closing", "look", "insert", "commit"}
Between == {"look", "insert"}
OnHistory == PastUpsert \union {"rotate", "rotating"}

\* Wallets are only inserted for providers with a row, and only when the call has one.
CallersAreKnown ==
    \A x \in ProviderCalls :
        /\ pcalls[x].at \in PastUpsert => pcalls[x].provider \in providers
        /\ pcalls[x].at \in OnHistory => pcalls[x].wallet \in Wallets

ProvidersInv == ProvidersTypeOK /\ CallersAreKnown /\ WalletlessOnlyHalfway

\* What an action on call x leaves of the other calls.
OthersStay(x) ==
    \A y \in ProviderCalls \ {x} :
        /\ pcalls'[y].at = pcalls[y].at
        /\ pcalls'[y].provider = pcalls[y].provider
        /\ pcalls'[y].wallet = pcalls[y].wallet
        /\ pcalls'[y].saw = pcalls[y].saw

\* What call x may be after a step: c is the record, known and rows the tables.
FitsTables(c, known, rows) ==
    /\ c.at \in PastUpsert => c.provider \in known
    /\ c.at \in OnHistory => c.wallet \in Wallets
    /\ c.saw \subseteq DOMAIN rows[c.provider]

-----------------------------------------------------------------------------
\* Closing rows keeps their number, and leaves those open that it does not name.
LEMMA ClosedIsHistory ==
    ASSUME ProvidersTypeOK, NEW p \in ProviderIds, NEW rows
    PROVE  /\ Closed(p, rows) \in Seq(HistoryRow)
           /\ DOMAIN Closed(p, rows) = DOMAIN history[p]
           /\ Len(Closed(p, rows)) = Len(history[p])
<1>1. history[p] \in Seq(HistoryRow)
  BY DEF ProvidersTypeOK
<1>2. Len(history[p]) \in Nat /\ DOMAIN history[p] = 1..Len(history[p])
  BY <1>1
<1>3. \A i \in 1..Len(history[p]) : history[p][i] \in HistoryRow
  BY <1>1
<1>4. Closed(p, rows) \in [1..Len(history[p]) -> HistoryRow]
  BY <1>2, <1>3 DEF Closed, HistoryRow
<1>5. Closed(p, rows) \in Seq(HistoryRow)
  BY <1>2, <1>4, SeqDef
<1>. QED
  BY <1>2, <1>4, <1>5

\* A step of one call that writes no table.
LEMMA QuietCall ==
    ASSUME ProvidersInv, NEW x \in ProviderCalls,
           pcalls' \in [ProviderCalls -> ProviderCall], OthersStay(x),
           FitsTables(pcalls'[x], providers, history),
           pcalls[x].at \in Between =>
               \/ pcalls'[x].at \in Between /\ pcalls'[x].provider = pcalls[x].provider
               \/ ActiveRows(pcalls[x].provider) # {},
           UNCHANGED <<providers, history, halfway>>
    PROVE  ProvidersInv'
<1>1. ProvidersTypeOK'
  BY DEF ProvidersInv, ProvidersTypeOK, OthersStay, FitsTables
<1>2. CallersAreKnown'
  BY DEF ProvidersInv, CallersAreKnown, OthersStay, FitsTables
<1>3. WalletlessOnlyHalfway'
  <2>. SUFFICES ASSUME NEW p \in ProviderIds, history[p] # <<>>, ActiveRows(p) = {}, p \notin halfway
                PROVE  \E y \in ProviderCalls : pcalls'[y].provider = p /\ pcalls'[y].at \in Between
    BY DEF WalletlessOnlyHalfway, ActiveRows, Between
  <2>1. PICK y \in ProviderCalls : pcalls[y].provider = p /\ pcalls[y].at \in Between
    BY DEF ProvidersInv, WalletlessOnlyHalfway, Between
  <2>. QED
    BY <2>1 DEF OthersStay
<1>. QED
  BY <1>1, <1>2, <1>3 DEF ProvidersInv

\* A step of one call that only moves it.
LEMMA MovedCall ==
    ASSUME ProvidersTypeOK, NEW x \in ProviderCalls, NEW c \in ProviderCall,
           pcalls' = [pcalls EXCEPT ![x] = c]
    PROVE  /\ pcalls' \in [ProviderCalls -> ProviderCall]
           /\ pcalls'[x] = c
           /\ OthersStay(x)
BY DEF ProvidersTypeOK, OthersStay

\* A call that has returned is as idle as at the beginning.
LEMMA IdleIsCall == IdleCall \in ProviderCall /\ IdleCall.at = "idle" /\ IdleCall.saw = {}
<1>1. (CHOOSE p \in ProviderIds : TRUE) \in ProviderIds
  BY ProvidersAssumption
<1>. QED
  BY <1>1 DEF IdleCall, ProviderCall

LEMMA FinishedCall ==
    ASSUME ProvidersTypeOK, NEW x \in ProviderCalls, Finish(x)
    PROVE  /\ pcalls' \in [ProviderCalls -> ProviderCall]
           /\ OthersStay(x)
           /\ pcalls'[x].at = "idle" /\ pcalls'[x].saw = {}
BY IdleIsCall, MovedCall DEF Finish

\* The wallets of a provider after a step that adds an active row to it.
LEMMA WalletAdded ==
    ASSUME ProvidersInv, NEW x \in ProviderCalls, pcalls[x].provider \in providers,
           NEW rows \in Seq(HistoryRow),
           Len(rows) = Len(history[pcalls[x].provider]), NEW w \in Wallets,
           history' = [history EXCEPT ![pcalls[x].provider] =
                           Append(rows, [wallet |-> w, active |-> TRUE])],
           halfway' = halfway \ {pcalls[x].provider}, Finish(x), UNCHANGED providers
    PROVE  ProvidersInv'
<1>. DEFINE p == pcalls[x].provider
            longer == Append(rows, [wallet |-> w, active |-> TRUE])
<1>0. p \in ProviderIds /\ ProvidersTypeOK
  BY DEF ProvidersInv, ProvidersTypeOK, ProviderCall
<1>1. longer \in Seq(HistoryRow) /\ Len(longer) = Len(rows) + 1 /\ longer # <<>>
      /\ longer[Len(rows) + 1].active = TRUE
  <2>1. [wallet |-> w, active |-> TRUE] \in HistoryRow
    BY DEF HistoryRow
  <2>. QED
    BY <2>1
<1>2. DOMAIN history[p] \subseteq DOMAIN longer /\ Len(rows) + 1 \in DOMAIN longer
  <2>1. history[p] \in Seq(HistoryRow)
    BY <1>0 DEF ProvidersTypeOK
  <2>. QED
    BY <1>1, <2>1
<1>. HIDE DEF longer
<1>3. history' = [history EXCEPT ![p] = longer] /\ history \in [ProviderIds -> Seq(HistoryRow)]
  BY <1>0 DEF longer, ProvidersTypeOK
<1>4. history' \in [ProviderIds -> Seq(HistoryRow)]
      /\ \A q \in ProviderIds : DOMAIN history[q] \subseteq DOMAIN history'[q]
  BY <1>0, <1>1, <1>2, <1>3
<1>5. /\ pcalls' \in [ProviderCalls -> ProviderCall]
      /\ OthersStay(x)
      /\ pcalls'[x].at = "idle" /\ pcalls'[x].saw = {}
  BY <1>0, FinishedCall
<1>6. ProvidersTypeOK'
  <2>1. \A q \in ProviderIds : history'[q] # <<>> => q \in providers'
    BY <1>0, <1>3 DEF ProvidersTypeOK
  <2>2. \A y \in ProviderCalls : pcalls'[y].saw \subseteq DOMAIN history'[pcalls'[y].provider]
    BY <1>0, <1>4, <1>5 DEF ProvidersTypeOK, OthersStay, ProviderCall
  <2>. QED
    BY <1>0, <1>4, <1>5, <2>1, <2>2 DEF ProvidersTypeOK
<1>7. CallersAreKnown'
  BY <1>5 DEF ProvidersInv, CallersAreKnown, OthersStay, PastUpsert, OnHistory
<1>8. WalletlessOnlyHalfway'
  <2>. SUFFICES ASSUME NEW q \in ProviderIds, history'[q] # <<>>, ActiveRows(q)' = {}
                PROVE  \/ q \in halfway'
                       \/ \E y \in ProviderCalls : pcalls'[y].provider = q /\ pcalls'[y].at \in Between
    BY DEF WalletlessOnlyHalfway, Between
  <2>1. q # p
    BY <1>0, <1>1, <1>2, <1>3 DEF ActiveRows
  <2>2. history[q] # <<>> /\ ActiveRows(q) = {}
    BY <1>3, <2>1 DEF ActiveRows
  <2>3. q \in halfway \/ \E y \in ProviderCalls : pcalls[y].provider = q /\ pcalls[y].at \in Between
    BY <2>2 DEF ProvidersInv, WalletlessOnlyHalfway, Between
  <2>. QED
    BY <2>1, <2>3, <1>5 DEF OthersStay
<1>. QED
  BY <1>6, <1>7, <1>8 DEF ProvidersInv


\* Rows are only closed, by a call that goes on to look for its wallet.
LEMMA WalletsClosed ==
    ASSUME ProvidersInv, NEW x \in ProviderCalls, CloseOthers(x)
    PROVE  ProvidersInv'
<1>. DEFINE p == pcalls[x].provider
            c == [pcalls[x] EXCEPT !.at = "look"]
<1>0. p \in ProviderIds /\ ProvidersTypeOK /\ pcalls[x] \in ProviderCall /\ pcalls[x].at = "closing"
  BY DEF ProvidersInv, ProvidersTypeOK, ProviderCall, CloseOthers, At
<1>1. c \in ProviderCall /\ c.at = "look" /\ c.provider = p /\ c.wallet = pcalls[x].wallet /\ c.saw = pcalls[x].saw
  BY <1>0 DEF ProviderCall
<1>2. pcalls' = [pcalls EXCEPT ![x] = c] /\ UNCHANGED <<providers, halfway>>
      /\ history' = [history EXCEPT ![p] = Closed(p, pcalls[x].saw)]
  BY DEF CloseOthers, MoveTo
<1>. HIDE DEF c
<1>3. pcalls' \in [ProviderCalls -> ProviderCall] /\ pcalls'[x] = c /\ OthersStay(x)
  BY <1>0, <1>1, <1>2, MovedCall
<1>4. /\ Closed(p, pcalls[x].saw) \in Seq(HistoryRow)
      /\ DOMAIN Closed(p, pcalls[x].saw) = DOMAIN history[p]
  BY <1>0, ClosedIsHistory
<1>5. history' \in [ProviderIds -> Seq(HistoryRow)]
      /\ \A q \in ProviderIds : DOMAIN history'[q] = DOMAIN history[q]
  BY <1>0, <1>2, <1>4 DEF ProvidersTypeOK
<1>6. ProvidersTypeOK'
  <2>1. p \in providers
    BY <1>0 DEF ProvidersInv, CallersAreKnown, PastUpsert
  <2>2. \A q \in ProviderIds : history'[q] # <<>> => q \in providers'
    BY <1>0, <1>2, <2>1 DEF ProvidersTypeOK
  <2>3. \A y \in ProviderCalls : pcalls'[y].saw \subseteq DOMAIN history'[pcalls'[y].provider]
    <3>. SUFFICES ASSUME NEW y \in ProviderCalls
                  PROVE  pcalls'[y].saw \subseteq DOMAIN history'[pcalls'[y].provider]
      OBVIOUS
    <3>1. pcalls'[y].saw = pcalls[y].saw /\ pcalls'[y].provider = pcalls[y].provider
      BY <1>1, <1>3 DEF OthersStay
    <3>2. pcalls[y].provider \in ProviderIds
      BY <1>0 DEF ProvidersTypeOK, ProviderCall
    <3>. QED
      BY <1>0, <1>5, <3>1, <3>2 DEF ProvidersTypeOK
  <2>. QED
    BY <1>0, <1>2, <1>3, <1>5, <2>2, <2>3 DEF ProvidersTypeOK
<1>7. CallersAreKnown'
  BY <1>0, <1>1, <1>2, <1>3 DEF ProvidersInv, CallersAreKnown, OthersStay, PastUpsert, OnHistory
<1>8. WalletlessOnlyHalfway'
  <2>. SUFFICES ASSUME NEW q \in ProviderIds, history'[q] # <<>>, ActiveRows(q)' = {}
                PROVE  \/ q \in halfway'
                       \/ \E y \in ProviderCalls : pcalls'[y].provider = q /\ pcalls'[y].at \in Between
    BY DEF WalletlessOnlyHalfway, Between
  <2>1. CASE q = p
    BY <2>1, <1>1, <1>3 DEF Between
  <2>2. CASE q # p
    <3>1. history[q] # <<>> /\ ActiveRows(q) = {}
      BY <1>2, <2>2 DEF ActiveRows
    <3>2. q \in halfway \/ \E y \in ProviderCalls : pcalls[y].provider = q /\ pcalls[y].at \in Between
      BY <3>1 DEF ProvidersInv, WalletlessOnlyHalfway, Between
    <3>. QED
      BY <1>0, <1>2, <1>3, <3>2 DEF OthersStay, Between
  <2>. QED
    BY <2>1, <2>2
<1>. QED
  BY <1>6, <1>7, <1>8 DEF ProvidersInv

\* A provider gets its row, whoever brings it.
LEMMA ProviderAdded ==
    ASSUME ProvidersInv, NEW x \in ProviderCalls,
           providers' = providers \union {pcalls[x].provider},
           pcalls' \in [ProviderCalls -> ProviderCall], OthersStay(x),
           FitsTables(pcalls'[x], providers', history), pcalls[x].at \notin Between,
           UNCHANGED <<history, halfway>>
    PROVE  ProvidersInv'
<1>0. pcalls[x].provider \in ProviderIds
  BY DEF ProvidersInv, ProvidersTypeOK, ProviderCall
<1>1. ProvidersTypeOK'
  BY <1>0 DEF ProvidersInv, ProvidersTypeOK, OthersStay, FitsTables
<1>2. CallersAreKnown'
  BY DEF ProvidersInv, CallersAreKnown, OthersStay, FitsTables
<1>3. WalletlessOnlyHalfway'
  <2>. SUFFICES ASSUME NEW p \in ProviderIds, history[p] # <<>>, ActiveRows(p) = {}, p \notin halfway
                PROVE  \E y \in ProviderCalls : pcalls'[y].provider = p /\ pcalls'[y].at \in Between
    BY DEF WalletlessOnlyHalfway, ActiveRows, Between
  <2>1. PICK y \in ProviderCalls : pcalls[y].provider = p /\ pcalls[y].at \in Between
    BY DEF ProvidersInv, WalletlessOnlyHalfway, Between
  <2>. QED
    BY <2>1 DEF OthersStay
<1>. QED
  BY <1>1, <1>2, <1>3 DEF ProvidersInv

-----------------------------------------------------------------------------
\* A call starts: the others only learn that it is there.
LEMMA StartedCall ==
    ASSUME ProvidersInv, NEW x \in ProviderCalls, NEW place \in {"upsert", "beat", "rotate"},
           NEW p \in ProviderIds, NEW w \in Wallets \union {NoWallet},
           At(x, "idle"), place = "rotate" => w \in Wallets,
           Starts(x, place, p, w), UNCHANGED <<providers, history, halfway>>
    PROVE  ProvidersInv'
<1>. DEFINE c == [at |-> place, provider |-> p, wallet |-> w, saw |-> {}, alone |-> OnWallets(p) = {}]
            met(y) == [pcalls[y] EXCEPT !.alone = @ /\ ~(y \in OnWallets(p) /\ w # NoWallet)]
<1>1. c \in ProviderCall /\ FitsTables(c, providers, history)
  BY DEF ProviderCall, FitsTables, PastUpsert, OnHistory
<1>2. \A y \in ProviderCalls : /\ met(y) \in ProviderCall
                              /\ met(y).at = pcalls[y].at
                              /\ met(y).provider = pcalls[y].provider
                              /\ met(y).wallet = pcalls[y].wallet
                              /\ met(y).wallet = pcalls[y].wallet
                       /\ met(y).saw = pcalls[y].saw
  <2>. SUFFICES ASSUME NEW y \in ProviderCalls
                PROVE  /\ met(y) \in ProviderCall
                       /\ met(y).at = pcalls[y].at
                       /\ met(y).provider = pcalls[y].provider
                       /\ met(y).wallet = pcalls[y].wallet
                       /\ met(y).saw = pcalls[y].saw
    OBVIOUS
  <2>1. pcalls[y] \in ProviderCall
    BY DEF ProvidersInv, ProvidersTypeOK
  <2>2. (pcalls[y].alone /\ ~(y \in OnWallets(p) /\ w # NoWallet)) \in BOOLEAN
    OBVIOUS
  <2>. QED
    BY <2>1, <2>2 DEF ProviderCall
<1>3. pcalls' = [y \in ProviderCalls |-> IF y = x THEN c ELSE met(y)]
  BY DEF Starts
<1>. HIDE DEF c, met
<1>4. pcalls' \in [ProviderCalls -> ProviderCall] /\ pcalls'[x] = c /\ OthersStay(x)
  BY <1>1, <1>2, <1>3 DEF OthersStay
<1>. QED
  BY <1>1, <1>4, QuietCall DEF At, Between

\* A call moves on without writing a table.
LEMMA MovesOn ==
    ASSUME ProvidersInv, NEW x \in ProviderCalls, NEW c \in ProviderCall,
           pcalls' = [pcalls EXCEPT ![x] = c], c.provider = pcalls[x].provider,
           c.wallet = pcalls[x].wallet,
           c.at \in PastUpsert => c.provider \in providers,
           c.at \in OnHistory => c.wallet \in Wallets,
           c.saw \subseteq DOMAIN history[c.provider],
           pcalls[x].at \in Between => c.at \in Between \/ ActiveRows(pcalls[x].provider) # {},
           UNCHANGED <<providers, history, halfway>>
    PROVE  ProvidersInv'
BY MovedCall, QuietCall DEF ProvidersInv, FitsTables

\* Every step of a registration keeps the invariant.
LEMMA RegisterStep ==
    ASSUME ProvidersInv, NEW x \in ProviderCalls, Register(x)
    PROVE  ProvidersInv'
<1>0. pcalls[x] \in ProviderCall /\ ProvidersTypeOK /\ pcalls[x].provider \in ProviderIds
      /\ (pcalls[x].at \in PastUpsert => pcalls[x].provider \in providers)
      /\ (pcalls[x].at \in OnHistory => pcalls[x].wallet \in Wallets)
      /\ pcalls[x].saw \subseteq DOMAIN history[pcalls[x].provider]
  BY DEF ProvidersInv, ProvidersTypeOK, ProviderCall, CallersAreKnown
<1>1. CASE BeginRegister(x)
  BY <1>1, StartedCall DEF BeginRegister
<1>2. CASE UpsertRow(x)
  <2>. DEFINE c == [pcalls[x] EXCEPT !.at = "close"]
  <2>0. pcalls[x].at \notin Between
    BY <1>2 DEF UpsertRow, At, Between
  <2>1. CASE pcalls[x].wallet = NoWallet
    <3>1. Finish(x)
      BY <1>2, <2>1 DEF UpsertRow
    <3>2. /\ pcalls' \in [ProviderCalls -> ProviderCall] /\ OthersStay(x)
          /\ pcalls'[x].at = "idle" /\ pcalls'[x].saw = {}
      BY <1>0, <3>1, FinishedCall
    <3>3. FitsTables(pcalls'[x], providers', history)
      BY <3>2 DEF FitsTables, PastUpsert, OnHistory
    <3>. QED
      BY <1>2, <2>0, <3>2, <3>3, ProviderAdded DEF UpsertRow
  <2>2. CASE pcalls[x].wallet # NoWallet
    <3>1. pcalls' = [pcalls EXCEPT ![x] = c]
      BY <1>2, <2>2 DEF UpsertRow, MoveTo
    <3>2. c \in ProviderCall /\ c.provider = pcalls[x].provider
         /\ c.wallet = pcalls[x].wallet /\ c.saw = pcalls[x].saw
      BY <1>0 DEF ProviderCall
    <3>. HIDE DEF c
    <3>3. pcalls' \in [ProviderCalls -> ProviderCall] /\ pcalls'[x] = c /\ OthersStay(x)
      BY <1>0, <3>1, <3>2, MovedCall
    <3>4. FitsTables(pcalls'[x], providers', history)
      <4>1. c.provider \in providers' /\ c.wallet \in Wallets
        BY <1>0, <1>2, <2>2, <3>2 DEF UpsertRow, ProviderCall
      <4>. QED
        BY <1>0, <3>2, <3>3, <4>1 DEF FitsTables
    <3>. QED
      BY <1>2, <2>0, <3>3, <3>4, ProviderAdded DEF UpsertRow
  <2>. QED
    BY <2>1, <2>2
<1>3. CASE SeeOthers(x)
  <2>. DEFINE p == pcalls[x].provider
              seen == {i \in ActiveRows(p) : history[p][i].wallet # pcalls[x].wallet}
              c == [pcalls[x] EXCEPT !.at = "closing", !.saw = seen]
  <2>1. seen \subseteq DOMAIN history[p] /\ seen \in SUBSET Nat
    <3>1. history[p] \in Seq(HistoryRow)
      BY <1>0 DEF ProvidersTypeOK
    <3>. QED
      BY <3>1 DEF ActiveRows
  <2>2. pcalls' = [pcalls EXCEPT ![x] = c]
    BY <1>3 DEF SeeOthers
  <2>. HIDE DEF seen
  <2>3. c \in ProviderCall /\ c.at = "closing" /\ c.provider = p /\ c.wallet = pcalls[x].wallet /\ c.saw = seen
    BY <1>0, <2>1 DEF ProviderCall
  <2>. HIDE DEF c
  <2>4. pcalls[x].at = "close"
    BY <1>3 DEF SeeOthers, At
  <2>. QED
    BY <1>0, <1>3, <2>1, <2>2, <2>3, <2>4, MovesOn DEF SeeOthers, PastUpsert, OnHistory, Between
<1>4. CASE CloseOthers(x)
  BY <1>4, WalletsClosed
<1>5. CASE LookForWallet(x)
  <2>1. CASE pcalls[x].wallet \in ActiveWallets(pcalls[x].provider)
    <3>1. Finish(x) /\ ActiveRows(pcalls[x].provider) # {}
      BY <1>5, <2>1 DEF LookForWallet, ActiveWallets
    <3>2. /\ pcalls' \in [ProviderCalls -> ProviderCall] /\ OthersStay(x)
          /\ pcalls'[x].at = "idle" /\ pcalls'[x].saw = {}
      BY <1>0, <3>1, FinishedCall
    <3>. QED
      BY <1>5, <3>1, <3>2, QuietCall DEF LookForWallet, FitsTables, PastUpsert, OnHistory
  <2>2. CASE pcalls[x].wallet \notin ActiveWallets(pcalls[x].provider)
    <3>. DEFINE c == [pcalls[x] EXCEPT !.at = "insert"]
    <3>1. pcalls' = [pcalls EXCEPT ![x] = c] /\ pcalls[x].at = "look"
      BY <1>5, <2>2 DEF LookForWallet, MoveTo, At
    <3>2. c \in ProviderCall /\ c.at = "insert" /\ c.provider = pcalls[x].provider
         /\ c.wallet = pcalls[x].wallet /\ c.saw = pcalls[x].saw
      BY <1>0 DEF ProviderCall
    <3>. HIDE DEF c
    <3>. QED
      BY <1>0, <1>5, <3>1, <3>2, MovesOn DEF LookForWallet, PastUpsert, OnHistory, Between
  <2>. QED
    BY <2>1, <2>2
<1>6. CASE InsertWallet(x)
  <2>1. pcalls[x].at = "insert"
    BY <1>6 DEF InsertWallet, At
  <2>2. pcalls[x].wallet \in Wallets /\ pcalls[x].provider \in providers
    BY <1>0, <2>1 DEF OnHistory, PastUpsert
  <2>3. history[pcalls[x].provider] \in Seq(HistoryRow)
    BY <1>0 DEF ProvidersTypeOK
  <2>4. history' = [history EXCEPT ![pcalls[x].provider] =
            Append(history[pcalls[x].provider], [wallet |-> pcalls[x].wallet, active |-> TRUE])]
    BY <1>6 DEF InsertWallet
  <2>. QED
    BY <1>6, <2>2, <2>3, <2>4, WalletAdded DEF InsertWallet
<1>. QED
  BY <1>1, <1>2, <1>3, <1>4, <1>5, <1>6 DEF Register

\* Every step of a rotation keeps it.
LEMMA RotateStep ==
    ASSUME ProvidersInv, NEW x \in ProviderCalls, Rotate(x)
    PROVE  ProvidersInv'
<1>0. pcalls[x] \in ProviderCall /\ ProvidersTypeOK /\ pcalls[x].provider \in ProviderIds
      /\ (pcalls[x].at \in PastUpsert => pcalls[x].provider \in providers)
      /\ (pcalls[x].at \in OnHistory => pcalls[x].wallet \in Wallets)
      /\ pcalls[x].saw \subseteq DOMAIN history[pcalls[x].provider]
  BY DEF ProvidersInv, ProvidersTypeOK, ProviderCall, CallersAreKnown
<1>1. CASE BeginRotate(x)
  BY <1>1, StartedCall DEF BeginRotate
<1>2. CASE SeeAll(x)
  <2>. DEFINE p == pcalls[x].provider
              c == [pcalls[x] EXCEPT !.at = "rotating", !.saw = ActiveRows(p)]
  <2>1. ActiveRows(p) \subseteq DOMAIN history[p] /\ ActiveRows(p) \in SUBSET Nat
    <3>1. history[p] \in Seq(HistoryRow)
      BY <1>0 DEF ProvidersTypeOK
    <3>. QED
      BY <3>1 DEF ActiveRows
  <2>2. pcalls' = [pcalls EXCEPT ![x] = c] /\ pcalls[x].at = "rotate"
    BY <1>2 DEF SeeAll, At
  <2>3. c \in ProviderCall /\ c.at = "rotating" /\ c.provider = p
        /\ c.wallet = pcalls[x].wallet /\ c.saw = ActiveRows(p)
    BY <1>0, <2>1 DEF ProviderCall
  <2>4. c.saw \subseteq DOMAIN history[c.provider] /\ c.wallet \in Wallets
        /\ c.at \notin PastUpsert /\ pcalls[x].at \notin Between
    BY <1>0, <2>1, <2>2, <2>3 DEF PastUpsert, OnHistory, Between
  <2>5. UNCHANGED <<providers, history, halfway>>
    BY <1>2 DEF SeeAll
  <2>. HIDE DEF c
  <2>. QED
    BY <2>2, <2>3, <2>4, <2>5, MovesOn
<1>3. CASE LockRows(x)
  <2>. DEFINE c == [pcalls[x] EXCEPT !.at = "commit"]
  <2>1. pcalls' = [pcalls EXCEPT ![x] = c] /\ pcalls[x].at = "rotating"
    BY <1>3 DEF LockRows, MoveTo, At
  <2>2. c \in ProviderCall /\ c.at = "commit" /\ c.provider = pcalls[x].provider
        /\ c.wallet = pcalls[x].wallet /\ c.saw = pcalls[x].saw
    BY <1>0 DEF ProviderCall
  <2>. HIDE DEF c
  <2>. QED
    BY <1>0, <1>3, <2>1, <2>2, MovesOn DEF LockRows, PastUpsert, OnHistory, Between
<1>4. CASE CommitRotation(x)
  <2>1. pcalls[x].at = "commit"
    BY <1>4 DEF CommitRotation, At
  <2>2. pcalls[x].wallet \in Wallets /\ pcalls[x].provider \in providers
    BY <1>0, <2>1 DEF OnHistory, PastUpsert
  <2>. DEFINE rows == Closed(pcalls[x].provider, pcalls[x].saw)
  <2>3. rows \in Seq(HistoryRow) /\ Len(rows) = Len(history[pcalls[x].provider])
    BY <1>0, ClosedIsHistory
  <2>4. history' = [history EXCEPT ![pcalls[x].provider] =
            Append(rows, [wallet |-> pcalls[x].wallet, active |-> TRUE])]
    BY <1>4 DEF CommitRotation
  <2>. HIDE DEF rows
  <2>. QED
    BY <1>4, <2>2, <2>3, <2>4, WalletAdded DEF CommitRotation
<1>. QED
  BY <1>1, <1>2, <1>3, <1>4 DEF Rotate

\* A call that fails between its statements is remembered.
LEMMA FailedCall ==
    ASSUME ProvidersInv, NEW x \in ProviderCalls, CallFails(x)
    PROVE  ProvidersInv'
<1>0. ProvidersTypeOK /\ pcalls[x].provider \in ProviderIds /\ Finish(x)
      /\ UNCHANGED <<providers, history>>
  BY DEF ProvidersInv, ProvidersTypeOK, ProviderCall, CallFails
<1>1. /\ pcalls' \in [ProviderCalls -> ProviderCall] /\ OthersStay(x)
      /\ pcalls'[x].at = "idle" /\ pcalls'[x].saw = {}
  BY <1>0, FinishedCall
<1>2. halfway \subseteq halfway' /\ halfway' \in SUBSET ProviderIds
      /\ (pcalls[x].at \in Between => pcalls[x].provider \in halfway')
  BY <1>0 DEF CallFails, ProvidersTypeOK, Between
<1>3. ProvidersTypeOK'
  BY <1>0, <1>1, <1>2 DEF ProvidersTypeOK, OthersStay
<1>4. CallersAreKnown'
  BY <1>0, <1>1 DEF ProvidersInv, CallersAreKnown, OthersStay, PastUpsert, OnHistory
<1>5. WalletlessOnlyHalfway'
  BY <1>0, <1>1, <1>2 DEF ProvidersInv, WalletlessOnlyHalfway, ActiveRows, OthersStay, Between
<1>. QED
  BY <1>3, <1>4, <1>5 DEF ProvidersInv

\* Every step of a heartbeat keeps it.
LEMMA HeartbeatStep ==
    ASSUME ProvidersInv, NEW x \in ProviderCalls, HeartbeatProvider(x)
    PROVE  ProvidersInv'
<1>0. pcalls[x] \in ProviderCall /\ ProvidersTypeOK /\ pcalls[x].provider \in ProviderIds
      /\ pcalls[x].saw \subseteq DOMAIN history[pcalls[x].provider]
  BY DEF ProvidersInv, ProvidersTypeOK, ProviderCall
<1>f. Finish(x) => /\ pcalls' \in [ProviderCalls -> ProviderCall] /\ OthersStay(x)
                   /\ FitsTables(pcalls'[x], providers, history)
                   /\ FitsTables(pcalls'[x], providers', history)
  BY <1>0, FinishedCall DEF FitsTables, PastUpsert, OnHistory
<1>1. CASE BeginHeartbeat(x)
  BY <1>1, StartedCall DEF BeginHeartbeat
<1>2. CASE UpdateSeen(x)
  <2>. DEFINE c == [pcalls[x] EXCEPT !.at = "beatInsert"]
  <2>1. pcalls[x].at = "beat" /\ UNCHANGED <<providers, history, halfway>>
    BY <1>2 DEF UpdateSeen, At
  <2>2. CASE Finish(x)
    BY <1>f, <2>1, <2>2, QuietCall DEF Between
  <2>3. CASE pcalls' = [pcalls EXCEPT ![x] = c]
    <3>1. c \in ProviderCall /\ c.at = "beatInsert" /\ c.provider = pcalls[x].provider
          /\ c.wallet = pcalls[x].wallet /\ c.saw = pcalls[x].saw
      BY <1>0 DEF ProviderCall
    <3>. HIDE DEF c
    <3>. QED
      BY <1>0, <2>1, <2>3, <3>1, MovesOn DEF PastUpsert, OnHistory, Between
  <2>. QED
    BY <1>2, <2>2, <2>3 DEF UpdateSeen, MoveTo
<1>3. CASE InsertSeen(x)
  <2>1. pcalls[x].at \notin Between
    BY <1>3 DEF InsertSeen, At, Between
  <2>. QED
    BY <1>f, <1>3, <2>1, ProviderAdded DEF InsertSeen
<1>. QED
  BY <1>1, <1>2, <1>3 DEF HeartbeatProvider

LEMMA ProvidersStart == ProvidersInit => ProvidersInv
BY IdleIsCall DEF ProvidersInit, ProvidersInv, ProvidersTypeOK, CallersAreKnown, WalletlessOnlyHalfway,
                  PastUpsert, OnHistory

\* The handlers of providers keep the invariant, and nothing else writes their tables.
LEMMA ProvidersStep == ProvidersInv /\ [ProvidersNext]_providerVars => ProvidersInv'
<1>. SUFFICES ASSUME ProvidersInv, [ProvidersNext]_providerVars PROVE ProvidersInv'
  OBVIOUS
<1>1. CASE ProvidersNext
  BY <1>1, RegisterStep, HeartbeatStep, RotateStep, FailedCall DEF ProvidersNext
<1>2. CASE UNCHANGED providerVars
  BY <1>2 DEF providerVars, ProvidersInv, ProvidersTypeOK, CallersAreKnown, WalletlessOnlyHalfway, ActiveRows
<1>. QED
  BY <1>1, <1>2

-----------------------------------------------------------------------------
(***************************************************************************)
(* A registration or rotation that met no other one of its provider knows  *)
(* the provider's active wallets: nobody else writes them, so what it saw  *)
(* is still so when it writes.                                             *)
(***************************************************************************)
Alone(x) == pcalls[x].alone /\ x \in OnWallets(pcalls[x].provider)
KnowsWallets(x) ==
    LET h == pcalls[x]
        p == h.provider
    IN  /\ h.at = "closing" =>
               h.saw = {i \in ActiveRows(p) : history[p][i].wallet # h.wallet}
        /\ h.at = "look" => ActiveWallets(p) \subseteq {h.wallet}
        /\ h.at = "insert" => ActiveWallets(p) = {}
        /\ h.at \in {"rotating", "commit"} => h.saw = ActiveRows(p)
AloneInv ==
    \A x \in ProviderCalls : Alone(x) =>
        /\ OnWallets(pcalls[x].provider) = {x}
        /\ KnowsWallets(x)

\* What call x leaves of the other calls when it does not start.
OthersRemain(x) == \A y \in ProviderCalls \ {x} : pcalls'[y] = pcalls[y]

\* The wallets active in a history.
ActiveOf(rows) == {rows[i].wallet : i \in {j \in DOMAIN rows : rows[j].active}}

LEMMA ActiveWalletsOf == \A p : ActiveWallets(p) = ActiveOf(history[p])
BY DEF ActiveWallets, ActiveOf, ActiveRows

LEMMA WalletAppended ==
    ASSUME NEW rows \in Seq(HistoryRow), NEW w \in Wallets
    PROVE  ActiveOf(Append(rows, [wallet |-> w, active |-> TRUE])) = ActiveOf(rows) \union {w}
<1>. DEFINE row == [wallet |-> w, active |-> TRUE]
            longer == Append(rows, row)
            n == Len(rows)
<1>1. row \in HistoryRow
  BY DEF HistoryRow
<1>2. /\ n \in Nat /\ DOMAIN rows = 1..n /\ DOMAIN longer = 1..(n + 1)
      /\ longer[n + 1] = row /\ \A i \in 1..n : longer[i] = rows[i]
  BY <1>1
<1>3. row.wallet = w /\ row.active
  OBVIOUS
<1>. HIDE DEF row, longer
<1>4. {j \in DOMAIN longer : longer[j].active} = {j \in DOMAIN rows : rows[j].active} \union {n + 1}
  BY <1>2, <1>3
<1>5. ActiveOf(longer) = ActiveOf(rows) \union {w}
  BY <1>2, <1>3, <1>4 DEF ActiveOf
<1>. QED
  BY <1>5 DEF longer, row

\* Closing all rows leaves none active, closing the others leaves at most the own wallet.
LEMMA WalletsLeft ==
    ASSUME ProvidersTypeOK, NEW p \in ProviderIds, NEW w
    PROVE  /\ ActiveOf(Closed(p, ActiveRows(p))) = {}
           /\ ActiveOf(Closed(p, {i \in ActiveRows(p) : history[p][i].wallet # w})) \subseteq {w}
<1>1. \A i \in DOMAIN history[p] : history[p][i] \in HistoryRow
  <2>1. history[p] \in Seq(HistoryRow)
    BY DEF ProvidersTypeOK
  <2>. QED
    BY <2>1
<1>2. ASSUME NEW rows
      PROVE  /\ DOMAIN Closed(p, rows) = DOMAIN history[p]
             /\ \A i \in DOMAIN history[p] :
                    /\ Closed(p, rows)[i].wallet = history[p][i].wallet
                    /\ Closed(p, rows)[i].active <=> history[p][i].active /\ i \notin rows
  BY <1>1 DEF Closed, HistoryRow
<1>3. \A i \in DOMAIN Closed(p, ActiveRows(p)) : ~Closed(p, ActiveRows(p))[i].active
  BY <1>2 DEF ActiveRows
<1>. DEFINE others == {i \in ActiveRows(p) : history[p][i].wallet # w}
<1>4. \A i \in DOMAIN Closed(p, others) :
          Closed(p, others)[i].active => Closed(p, others)[i].wallet = w
  <2>. SUFFICES ASSUME NEW i \in DOMAIN history[p], Closed(p, others)[i].active
                PROVE  Closed(p, others)[i].wallet = w
    BY <1>2
  <2>1. history[p][i].active /\ i \notin others
    BY <1>2
  <2>2. history[p][i].wallet = w
    BY <2>1 DEF ActiveRows
  <2>. QED
    BY <1>2, <2>2
<1>. HIDE DEF others
<1>5. ActiveOf(Closed(p, others)) \subseteq {w}
  BY <1>4 DEF ActiveOf
<1>6. ActiveOf(Closed(p, ActiveRows(p))) = {}
  BY <1>3 DEF ActiveOf
<1>. QED
  BY <1>5, <1>6 DEF others

\* What x knows is about its own record and its provider's history only.
LEMMA StillKnows ==
    ASSUME NEW y, KnowsWallets(y),
           pcalls'[y].at = pcalls[y].at, pcalls'[y].provider = pcalls[y].provider,
           pcalls'[y].wallet = pcalls[y].wallet, pcalls'[y].saw = pcalls[y].saw,
           history'[pcalls[y].provider] = history[pcalls[y].provider]
    PROVE  KnowsWallets(y)'
<1>. DEFINE p == pcalls[y].provider
<1>1. ActiveRows(p)' = ActiveRows(p)
  BY DEF ActiveRows
<1>2. ActiveWallets(p)' = ActiveWallets(p)
  BY <1>1 DEF ActiveWallets
<1>. QED
  BY <1>1, <1>2 DEF KnowsWallets

\* The calls on the wallets of p among the calls cs.
Callers(cs, p) ==
    {x \in ProviderCalls : /\ cs[x].provider = p
                           /\ cs[x].wallet # NoWallet /\ cs[x].at # "idle"}

LEMMA CallersNow ==
    /\ \A p : OnWallets(p) = Callers(pcalls, p)
    /\ \A x \in ProviderCalls :
           Alone(x) <=> pcalls[x].alone /\ pcalls[x].wallet # NoWallet /\ pcalls[x].at # "idle"
    /\ AloneInv <=> \A x \in ProviderCalls : Alone(x) =>
           Callers(pcalls, pcalls[x].provider) = {x} /\ KnowsWallets(x)
BY DEF OnWallets, Callers, Alone, At, AloneInv

LEMMA CallersNext ==
    /\ \A p : OnWallets(p)' = Callers(pcalls', p)
    /\ \A x \in ProviderCalls :
           Alone(x)' <=>
               pcalls'[x].alone /\ pcalls'[x].wallet # NoWallet /\ pcalls'[x].at # "idle"
    /\ AloneInv' <=> \A x \in ProviderCalls : Alone(x)' =>
           Callers(pcalls', pcalls'[x].provider) = {x} /\ KnowsWallets(x)'
BY DEF OnWallets, Callers, Alone, At, AloneInv

\* A call goes on, or ends: only its own knowledge has to be looked at.
LEMMA AloneGoesOn ==
    ASSUME ProvidersInv, AloneInv, NEW x \in ProviderCalls, OthersRemain(x),
           \/ pcalls'[x].at = "idle"
           \/ /\ pcalls[x].at # "idle"
              /\ pcalls'[x].provider = pcalls[x].provider
              /\ pcalls'[x].wallet = pcalls[x].wallet
              /\ pcalls'[x].alone = pcalls[x].alone
              /\ Alone(x) => KnowsWallets(x)',
           \/ UNCHANGED history
           \/ /\ pcalls[x].wallet # NoWallet /\ pcalls[x].at # "idle"
              /\ \A q \in ProviderIds \ {pcalls[x].provider} : history'[q] = history[q]
    PROVE  AloneInv'
<1>1. \A q : Callers(pcalls', q) \subseteq Callers(pcalls, q)
  BY DEF Callers, OthersRemain
<1>. SUFFICES ASSUME NEW y \in ProviderCalls, Alone(y)'
              PROVE  Callers(pcalls', pcalls'[y].provider) = {y} /\ KnowsWallets(y)'
  BY CallersNext
<1>2. pcalls'[y].alone /\ pcalls'[y].wallet # NoWallet /\ pcalls'[y].at # "idle"
  BY CallersNext
<1>3. /\ Alone(y) /\ pcalls'[y].provider = pcalls[y].provider
      /\ y # x => pcalls'[y] = pcalls[y]
  BY <1>2, CallersNow DEF OthersRemain
<1>4. Callers(pcalls, pcalls[y].provider) = {y} /\ KnowsWallets(y)
  BY <1>3, CallersNow
<1>5. Callers(pcalls', pcalls'[y].provider) = {y}
  <2>1. y \in Callers(pcalls', pcalls'[y].provider)
    BY <1>2 DEF Callers
  <2>. QED
    BY <1>1, <1>3, <1>4, <2>1
<1>6. KnowsWallets(y)'
  <2>1. CASE y = x
    BY <1>2, <1>3, <2>1
  <2>2. CASE y # x
    <3>1. pcalls[y].provider \in ProviderIds
      BY DEF ProvidersInv, ProvidersTypeOK, ProviderCall
    <3>2. pcalls[x].wallet # NoWallet /\ pcalls[x].at # "idle"
             => pcalls[x].provider # pcalls[y].provider
      BY <1>4, <2>2 DEF Callers
    <3>3. history'[pcalls[y].provider] = history[pcalls[y].provider]
      BY <3>1, <3>2
    <3>. QED
      BY <1>3, <1>4, <2>2, <3>3, StillKnows
  <2>. QED
    BY <2>1, <2>2
<1>. QED
  BY <1>5, <1>6

\* A call that starts meets the calls that are on the wallets of its provider.
LEMMA AloneStarts ==
    ASSUME ProvidersInv, AloneInv, NEW x \in ProviderCalls,
           NEW place \in {"upsert", "beat", "rotate"}, NEW p \in ProviderIds,
           NEW w \in Wallets \union {NoWallet},
           At(x, "idle"), Starts(x, place, p, w), UNCHANGED history
    PROVE  AloneInv'
<1>. DEFINE c == [at |-> place, provider |-> p, wallet |-> w, saw |-> {},
                  alone |-> OnWallets(p) = {}]
            met(y) == [pcalls[y] EXCEPT !.alone = @ /\ ~(y \in OnWallets(p) /\ w # NoWallet)]
<1>1. pcalls' = [y \in ProviderCalls |-> IF y = x THEN c ELSE met(y)]
  BY DEF Starts
<1>2. /\ c.at = place /\ c.provider = p /\ c.wallet = w
      /\ c.alone => Callers(pcalls, p) = {}
  BY CallersNow
<1>3. ASSUME NEW y \in ProviderCalls
      PROVE  /\ met(y).at = pcalls[y].at
             /\ met(y).provider = pcalls[y].provider
             /\ met(y).wallet = pcalls[y].wallet
             /\ met(y).saw = pcalls[y].saw
             /\ met(y).alone => pcalls[y].alone /\ (y \in Callers(pcalls, p) => w = NoWallet)
  <2>1. pcalls[y] \in ProviderCall
    BY DEF ProvidersInv, ProvidersTypeOK
  <2>2. \A b : LET r == [pcalls[y] EXCEPT !.alone = b]
               IN  /\ r.at = pcalls[y].at /\ r.provider = pcalls[y].provider
                   /\ r.wallet = pcalls[y].wallet /\ r.saw = pcalls[y].saw /\ r.alone = b
    BY <2>1 DEF ProviderCall
  <2>. QED
    BY <2>2, CallersNow
<1>4. pcalls'[x] = c /\ \A y \in ProviderCalls \ {x} : pcalls'[y] = met(y)
  BY <1>1
<1>. HIDE DEF c, met
<1>5. \A q : Callers(pcalls', q) \subseteq Callers(pcalls, q) \union {x}
  BY <1>3, <1>4 DEF Callers
<1>6. \A q : x \in Callers(pcalls', q) => q = p /\ w # NoWallet
  BY <1>2, <1>4 DEF Callers
<1>. SUFFICES ASSUME NEW y \in ProviderCalls, Alone(y)'
              PROVE  Callers(pcalls', pcalls'[y].provider) = {y} /\ KnowsWallets(y)'
  BY CallersNext
<1>7. /\ pcalls'[y].alone /\ pcalls'[y].wallet # NoWallet /\ pcalls'[y].at # "idle"
      /\ y \in Callers(pcalls', pcalls'[y].provider)
  BY CallersNext DEF Callers
<1>8. CASE y = x
  <2>1. pcalls'[y].provider = p /\ Callers(pcalls, p) = {}
    BY <1>2, <1>4, <1>7, <1>8
  <2>2. Callers(pcalls', pcalls'[y].provider) = {y}
    BY <1>5, <1>7, <1>8, <2>1
  <2>3. KnowsWallets(y)'
    BY <1>2, <1>4, <1>8 DEF KnowsWallets
  <2>. QED
    BY <2>2, <2>3
<1>9. CASE y # x
  <2>1. /\ pcalls'[y].at = pcalls[y].at
        /\ pcalls'[y].provider = pcalls[y].provider
        /\ pcalls'[y].wallet = pcalls[y].wallet
        /\ pcalls'[y].saw = pcalls[y].saw
        /\ pcalls[y].alone /\ (y \in Callers(pcalls, p) => w = NoWallet)
    BY <1>3, <1>4, <1>7, <1>9
  <2>2. Alone(y)
    BY <1>7, <2>1, CallersNow
  <2>3. Callers(pcalls, pcalls[y].provider) = {y} /\ KnowsWallets(y)
    BY <2>2, CallersNow
  <2>4. x \notin Callers(pcalls', pcalls'[y].provider)
    BY <1>6, <2>1, <2>3
  <2>5. Callers(pcalls', pcalls'[y].provider) = {y}
    BY <1>5, <1>7, <2>1, <2>3, <2>4
  <2>6. KnowsWallets(y)'
    BY <2>1, <2>3, StillKnows
  <2>. QED
    BY <2>5, <2>6
<1>. QED
  BY <1>8, <1>9

\* What UndisturbedCallDecides says of a step of call x.
Decides(x) ==
    \A p \in ProviderIds :
        /\ LookForWallet(x) \/ InsertWallet(x) \/ CommitRotation(x)
        /\ pcalls[x].provider = p /\ pcalls[x].alone /\ pcalls'[x].at = "idle"
        => ActiveWallets(p)' = {pcalls[x].wallet}

\* A step of x that leaves its record as it is but for its place and what it saw.
LEMMA AloneMoves ==
    ASSUME ProvidersInv, AloneInv, NEW x \in ProviderCalls, NEW c,
           pcalls' = [pcalls EXCEPT ![x] = c],
           \/ c.at = "idle"
           \/ /\ pcalls[x].at # "idle"
              /\ c.provider = pcalls[x].provider /\ c.wallet = pcalls[x].wallet
              /\ c.alone = pcalls[x].alone
              /\ Alone(x) => KnowsWallets(x)',
           \/ UNCHANGED history
           \/ /\ pcalls[x].at \in OnHistory
              /\ \A q \in ProviderIds \ {pcalls[x].provider} : history'[q] = history[q]
    PROVE  AloneInv'
<1>1. OthersRemain(x) /\ pcalls'[x] = c
  BY DEF OthersRemain, ProvidersInv, ProvidersTypeOK
<1>2. pcalls[x].at \in OnHistory => pcalls[x].wallet # NoWallet /\ pcalls[x].at # "idle"
  BY NoWalletAssumption DEF ProvidersInv, CallersAreKnown, OnHistory, PastUpsert
<1>. QED
  BY <1>1, <1>2, AloneGoesOn

\* A call that knows the active wallets decides them when it ends.
LEMMA RegisterAlone ==
    ASSUME ProvidersInv, AloneInv, NEW x \in ProviderCalls, Register(x)
    PROVE  AloneInv' /\ Decides(x)
<1>. DEFINE p == pcalls[x].provider
            w == pcalls[x].wallet
<1>1. /\ ProvidersTypeOK /\ p \in ProviderIds /\ pcalls[x] \in ProviderCall
      /\ pcalls[x].at \in OnHistory => w \in Wallets /\ w # NoWallet
      /\ history[p] \in Seq(HistoryRow)
  BY NoWalletAssumption
     DEF ProvidersInv, ProvidersTypeOK, ProviderCall, CallersAreKnown
<1>2. /\ Alone(x) => KnowsWallets(x)
      /\ pcalls[x].at \in OnHistory /\ pcalls[x].alone => Alone(x)
  BY <1>1, CallersNow DEF OnHistory, PastUpsert
<1>3. CASE BeginRegister(x)
  <2>1. AloneInv'
    BY <1>3, AloneStarts DEF BeginRegister
  <2>2. ~(LookForWallet(x) \/ InsertWallet(x) \/ CommitRotation(x))
    BY <1>3 DEF BeginRegister, LookForWallet, InsertWallet, CommitRotation, At
  <2>. QED
    BY <2>1, <2>2 DEF Decides
<1>4. CASE UpsertRow(x)
  <2>1. ~(LookForWallet(x) \/ InsertWallet(x) \/ CommitRotation(x))
    BY <1>4 DEF UpsertRow, LookForWallet, InsertWallet, CommitRotation, At
  <2>2. CASE w = NoWallet
    <3>1. AloneInv'
      BY <1>4, <2>2, AloneMoves, IdleIsCall DEF UpsertRow, Finish
    <3>. QED
      BY <2>1, <3>1 DEF Decides
  <2>3. CASE w # NoWallet
    <3>. DEFINE c == [pcalls[x] EXCEPT !.at = "close"]
    <3>1. pcalls' = [pcalls EXCEPT ![x] = c] /\ pcalls[x].at # "idle" /\ UNCHANGED history
      BY <1>4, <2>3 DEF UpsertRow, MoveTo, At
    <3>2. c.at = "close" /\ c.provider = p /\ c.wallet = w /\ c.alone = pcalls[x].alone
      BY <1>1 DEF ProviderCall
    <3>. HIDE DEF c
    <3>3. pcalls'[x] = c
      BY <1>1, <3>1 DEF ProvidersTypeOK
    <3>4. KnowsWallets(x)'
      BY <3>2, <3>3 DEF KnowsWallets
    <3>5. AloneInv'
      BY <3>1, <3>2, <3>4, AloneMoves
    <3>. QED
      BY <2>1, <3>5 DEF Decides
  <2>. QED
    BY <2>2, <2>3
<1>5. CASE SeeOthers(x)
  <2>. DEFINE seen == {i \in ActiveRows(p) : history[p][i].wallet # w}
              c == [pcalls[x] EXCEPT !.at = "closing", !.saw = seen]
  <2>1. ~(LookForWallet(x) \/ InsertWallet(x) \/ CommitRotation(x))
    BY <1>5 DEF SeeOthers, LookForWallet, InsertWallet, CommitRotation, At
  <2>2. pcalls' = [pcalls EXCEPT ![x] = c] /\ pcalls[x].at # "idle" /\ UNCHANGED history
    BY <1>5 DEF SeeOthers, At
  <2>3. c.at = "closing" /\ c.saw = seen /\ c.provider = p /\ c.wallet = w
        /\ c.alone = pcalls[x].alone
    BY <1>1 DEF ProviderCall
  <2>. HIDE DEF c
  <2>4. pcalls'[x] = c
    BY <1>1, <2>2 DEF ProvidersTypeOK
  <2>5. KnowsWallets(x)'
    BY <2>2, <2>3, <2>4 DEF KnowsWallets, ActiveRows
  <2>. QED
    BY <2>1, <2>2, <2>3, <2>5, AloneMoves DEF Decides
<1>6. CASE CloseOthers(x)
  <2>. DEFINE c == [pcalls[x] EXCEPT !.at = "look"]
              rows == Closed(p, pcalls[x].saw)
  <2>1. ~(LookForWallet(x) \/ InsertWallet(x) \/ CommitRotation(x))
    BY <1>6 DEF CloseOthers, LookForWallet, InsertWallet, CommitRotation, At
  <2>2. /\ pcalls' = [pcalls EXCEPT ![x] = c] /\ pcalls[x].at = "closing"
        /\ history' = [history EXCEPT ![p] = rows]
    BY <1>6 DEF CloseOthers, MoveTo, At
  <2>3. c.at = "look" /\ c.provider = p /\ c.wallet = w /\ c.alone = pcalls[x].alone
    BY <1>1 DEF ProviderCall
  <2>. HIDE DEF c
  <2>4. pcalls'[x] = c /\ history'[p] = rows
    BY <1>1, <2>2 DEF ProvidersTypeOK
  <2>5. Alone(x) => ActiveOf(rows) \subseteq {w}
    BY <1>1, <1>2, <2>2, WalletsLeft DEF KnowsWallets
  <2>. HIDE DEF rows
  <2>6. Alone(x) => KnowsWallets(x)'
    BY <2>3, <2>4, <2>5 DEF KnowsWallets, ActiveWallets, ActiveRows, ActiveOf
  <2>7. \A q \in ProviderIds \ {p} : history'[q] = history[q]
    BY <1>1, <2>2 DEF ProvidersTypeOK
  <2>. QED
    BY <2>1, <2>2, <2>3, <2>6, <2>7, AloneMoves DEF Decides, OnHistory, PastUpsert
<1>7. CASE LookForWallet(x)
  <2>1. pcalls[x].at = "look" /\ UNCHANGED history
    BY <1>7 DEF LookForWallet, At
  <2>2. pcalls[x].alone => Alone(x) /\ ActiveWallets(p) \subseteq {w}
    BY <1>2, <2>1 DEF KnowsWallets, OnHistory, PastUpsert
  <2>3. CASE w \in ActiveWallets(p)
    <3>1. AloneInv'
      BY <1>7, <2>1, <2>3, AloneMoves, IdleIsCall DEF LookForWallet, Finish
    <3>2. pcalls[x].alone => ActiveOf(history[p]) = {w}
      BY <2>2, <2>3, ActiveWalletsOf
    <3>3. ASSUME NEW q \in ProviderIds
          PROVE  ActiveWallets(q)' = ActiveOf(history[q])
      BY <2>1 DEF ActiveWallets, ActiveRows, ActiveOf
    <3>. QED
      BY <3>1, <3>2, <3>3 DEF Decides
  <2>4. CASE w \notin ActiveWallets(p)
    <3>. DEFINE c == [pcalls[x] EXCEPT !.at = "insert"]
    <3>1. pcalls' = [pcalls EXCEPT ![x] = c]
      BY <1>7, <2>4 DEF LookForWallet, MoveTo
    <3>2. c.at = "insert" /\ c.provider = p /\ c.wallet = w /\ c.alone = pcalls[x].alone
      BY <1>1 DEF ProviderCall
    <3>. HIDE DEF c
    <3>3. pcalls'[x] = c
      BY <1>1, <3>1 DEF ProvidersTypeOK
    <3>4. Alone(x) => ActiveOf(history[p]) = {}
      BY <2>2, <2>4, ActiveWalletsOf DEF Alone
    <3>5. Alone(x) => KnowsWallets(x)'
      BY <2>1, <3>2, <3>3, <3>4 DEF KnowsWallets, ActiveWallets, ActiveRows, ActiveOf
    <3>6. AloneInv'
      BY <2>1, <3>1, <3>2, <3>5, AloneMoves
    <3>. QED
      BY <3>2, <3>3, <3>6 DEF Decides
  <2>. QED
    BY <2>3, <2>4
<1>8. CASE InsertWallet(x)
  <2>1. /\ pcalls[x].at = "insert" /\ Finish(x)
        /\ history' = [history EXCEPT ![p] =
               Append(history[p], [wallet |-> w, active |-> TRUE])]
    BY <1>8 DEF InsertWallet, At
  <2>2. w \in Wallets /\ (pcalls[x].alone => ActiveOf(history[p]) = {})
    BY <1>1, <1>2, <2>1, ActiveWalletsOf DEF KnowsWallets, OnHistory, PastUpsert
  <2>3. \A q \in ProviderIds \ {p} : history'[q] = history[q]
    BY <1>1, <2>1 DEF ProvidersTypeOK
  <2>4. AloneInv'
    BY <2>1, <2>3, AloneMoves, IdleIsCall DEF Finish, OnHistory, PastUpsert
  <2>5. pcalls[x].alone => ActiveOf(history'[p]) = {w}
    <3>1. history'[p] = Append(history[p], [wallet |-> w, active |-> TRUE])
      BY <1>1, <2>1 DEF ProvidersTypeOK
    <3>2. ActiveOf(Append(history[p], [wallet |-> w, active |-> TRUE]))
             = ActiveOf(history[p]) \union {w}
      BY <1>1, <2>2, WalletAppended
    <3>. QED
      BY <2>2, <3>1, <3>2
  <2>6. ASSUME NEW q \in ProviderIds
        PROVE  ActiveWallets(q)' = ActiveOf(history'[q])
    BY DEF ActiveWallets, ActiveRows, ActiveOf
  <2>. QED
    BY <2>4, <2>5, <2>6 DEF Decides
<1>. QED
  BY <1>3, <1>4, <1>5, <1>6, <1>7, <1>8 DEF Register

LEMMA RotateAlone ==
    ASSUME ProvidersInv, AloneInv, NEW x \in ProviderCalls, Rotate(x)
    PROVE  AloneInv' /\ Decides(x)
<1>. DEFINE p == pcalls[x].provider
            w == pcalls[x].wallet
<1>1. /\ ProvidersTypeOK /\ p \in ProviderIds /\ pcalls[x] \in ProviderCall
      /\ pcalls[x].at \in OnHistory => w \in Wallets /\ w # NoWallet
      /\ history[p] \in Seq(HistoryRow)
  BY NoWalletAssumption
     DEF ProvidersInv, ProvidersTypeOK, ProviderCall, CallersAreKnown
<1>2. /\ Alone(x) => KnowsWallets(x)
      /\ pcalls[x].at \in OnHistory /\ pcalls[x].alone => Alone(x)
  BY <1>1, CallersNow DEF OnHistory, PastUpsert
<1>3. CASE BeginRotate(x)
  <2>1. AloneInv'
    BY <1>3, AloneStarts DEF BeginRotate
  <2>2. ~(LookForWallet(x) \/ InsertWallet(x) \/ CommitRotation(x))
    BY <1>3 DEF BeginRotate, LookForWallet, InsertWallet, CommitRotation, At
  <2>. QED
    BY <2>1, <2>2 DEF Decides
<1>4. CASE SeeAll(x)
  <2>. DEFINE c == [pcalls[x] EXCEPT !.at = "rotating", !.saw = ActiveRows(p)]
  <2>1. ~(LookForWallet(x) \/ InsertWallet(x) \/ CommitRotation(x))
    BY <1>4 DEF SeeAll, LookForWallet, InsertWallet, CommitRotation, At
  <2>2. pcalls' = [pcalls EXCEPT ![x] = c] /\ pcalls[x].at # "idle" /\ UNCHANGED history
    BY <1>4 DEF SeeAll, At
  <2>3. c.at = "rotating" /\ c.saw = ActiveRows(p) /\ c.provider = p /\ c.wallet = w
        /\ c.alone = pcalls[x].alone
    BY <1>1 DEF ProviderCall
  <2>. HIDE DEF c
  <2>4. pcalls'[x] = c
    BY <1>1, <2>2 DEF ProvidersTypeOK
  <2>5. KnowsWallets(x)'
    BY <2>2, <2>3, <2>4 DEF KnowsWallets, ActiveRows
  <2>. QED
    BY <2>1, <2>2, <2>3, <2>5, AloneMoves DEF Decides
<1>5. CASE LockRows(x)
  <2>. DEFINE c == [pcalls[x] EXCEPT !.at = "commit"]
  <2>1. ~(LookForWallet(x) \/ InsertWallet(x) \/ CommitRotation(x))
    BY <1>5 DEF LockRows, LookForWallet, InsertWallet, CommitRotation, At
  <2>2. pcalls' = [pcalls EXCEPT ![x] = c] /\ pcalls[x].at = "rotating" /\ UNCHANGED history
    BY <1>5 DEF LockRows, MoveTo, At
  <2>3. c.at = "commit" /\ c.saw = pcalls[x].saw /\ c.provider = p /\ c.wallet = w
        /\ c.alone = pcalls[x].alone
    BY <1>1 DEF ProviderCall
  <2>. HIDE DEF c
  <2>4. pcalls'[x] = c
    BY <1>1, <2>2 DEF ProvidersTypeOK
  <2>5. Alone(x) => KnowsWallets(x)'
    BY <1>2, <2>2, <2>3, <2>4 DEF KnowsWallets, ActiveRows
  <2>. QED
    BY <2>1, <2>2, <2>3, <2>5, AloneMoves DEF Decides
<1>6. CASE CommitRotation(x)
  <2>. DEFINE rows == Closed(p, pcalls[x].saw)
  <2>1. /\ pcalls[x].at = "commit" /\ Finish(x)
        /\ history' = [history EXCEPT ![p] = Append(rows, [wallet |-> w, active |-> TRUE])]
    BY <1>6 DEF CommitRotation, At
  <2>2. w \in Wallets /\ rows \in Seq(HistoryRow)
    BY <1>1, <2>1, ClosedIsHistory DEF OnHistory, PastUpsert
  <2>3. \A q \in ProviderIds \ {p} : history'[q] = history[q]
    BY <1>1, <2>1 DEF ProvidersTypeOK
  <2>4. AloneInv'
    BY <2>1, <2>3, AloneMoves, IdleIsCall DEF Finish, OnHistory, PastUpsert
  <2>5. pcalls[x].alone => ActiveOf(rows) = {}
    BY <1>1, <1>2, <2>1, WalletsLeft DEF KnowsWallets, OnHistory, PastUpsert
  <2>6. pcalls[x].alone => ActiveOf(history'[p]) = {w}
    <3>1. history'[p] = Append(rows, [wallet |-> w, active |-> TRUE])
      BY <1>1, <2>1 DEF ProvidersTypeOK
    <3>2. ActiveOf(Append(rows, [wallet |-> w, active |-> TRUE])) = ActiveOf(rows) \union {w}
      BY <2>2, WalletAppended
    <3>. QED
      BY <2>5, <3>1, <3>2
  <2>7. ASSUME NEW q \in ProviderIds
        PROVE  ActiveWallets(q)' = ActiveOf(history'[q])
    BY DEF ActiveWallets, ActiveRows, ActiveOf
  <2>. QED
    BY <2>4, <2>6, <2>7 DEF Decides
<1>. QED
  BY <1>3, <1>4, <1>5, <1>6 DEF Rotate

LEMMA OtherAlone ==
    ASSUME ProvidersInv, AloneInv, NEW x \in ProviderCalls,
           HeartbeatProvider(x) \/ CallFails(x)
    PROVE  AloneInv'
<1>1. pcalls[x] \in ProviderCall
  BY DEF ProvidersInv, ProvidersTypeOK
<1>2. CASE BeginHeartbeat(x)
  BY <1>2, AloneStarts DEF BeginHeartbeat
<1>3. CASE UpdateSeen(x)
  <2>1. CASE Finish(x)
    BY <1>3, <2>1, AloneMoves, IdleIsCall DEF UpdateSeen, Finish
  <2>2. CASE MoveTo(x, "beatInsert")
    <3>. DEFINE c == [pcalls[x] EXCEPT !.at = "beatInsert"]
    <3>1. pcalls' = [pcalls EXCEPT ![x] = c] /\ pcalls[x].at # "idle" /\ UNCHANGED history
      BY <1>3, <2>2 DEF UpdateSeen, MoveTo, At
    <3>2. c.at = "beatInsert" /\ c.provider = pcalls[x].provider
          /\ c.wallet = pcalls[x].wallet /\ c.alone = pcalls[x].alone
      BY <1>1 DEF ProviderCall
    <3>. HIDE DEF c
    <3>3. pcalls'[x] = c
      BY <3>1 DEF ProvidersInv, ProvidersTypeOK
    <3>4. KnowsWallets(x)'
      BY <3>2, <3>3 DEF KnowsWallets
    <3>. QED
      BY <3>1, <3>2, <3>4, AloneMoves
  <2>. QED
    BY <1>3, <2>1, <2>2 DEF UpdateSeen
<1>4. CASE InsertSeen(x)
  BY <1>4, AloneMoves, IdleIsCall DEF InsertSeen, Finish
<1>5. CASE CallFails(x)
  BY <1>5, AloneMoves, IdleIsCall DEF CallFails, Finish
<1>. QED
  BY <1>2, <1>3, <1>4, <1>5 DEF HeartbeatProvider

LEMMA AloneStart == ProvidersInit => AloneInv
BY IdleIsCall DEF ProvidersInit, AloneInv, Alone, OnWallets, At

LEMMA AloneStep ==
    ProvidersInv /\ AloneInv /\ [ProvidersNext]_providerVars
        => AloneInv' /\ \A x \in ProviderCalls : Decides(x) \/ UNCHANGED providerVars
<1>. SUFFICES ASSUME ProvidersInv, AloneInv, [ProvidersNext]_providerVars
              PROVE  AloneInv' /\ \A x \in ProviderCalls : Decides(x) \/ UNCHANGED providerVars
  OBVIOUS
<1>1. CASE ProvidersNext
  <2>1. AloneInv'
    BY <1>1, RegisterAlone, RotateAlone, OtherAlone DEF ProvidersNext
  <2>2. ASSUME NEW x \in ProviderCalls, LookForWallet(x) \/ InsertWallet(x) \/ CommitRotation(x)
        PROVE  Decides(x)
    BY <2>2, RegisterAlone, RotateAlone DEF Register, Rotate
  <2>3. \A x \in ProviderCalls : Decides(x)
    BY <2>2 DEF Decides
  <2>. QED
    BY <2>1, <2>3
<1>2. CASE UNCHANGED providerVars
  <2>1. \A x : KnowsWallets(x) => KnowsWallets(x)'
    BY <1>2, StillKnows DEF providerVars
  <2>2. AloneInv'
    BY <1>2, <2>1, CallersNow, CallersNext DEF providerVars
  <2>. QED
    BY <1>2, <2>2
<1>. QED
  BY <1>1, <1>2

-----------------------------------------------------------------------------
(***************************************************************************)
(* Telemetry.  A batch that is inserted has, for every event it passed, a  *)
(* row: one that was there, or one of its own that nobody else can write.  *)
(***************************************************************************)
Passed(c, use) ==
    \A i \in DOMAIN Events[c.batch] :
        i < c.next => \/ use[Events[c.batch][i].request] # NoBatch
                      \/ Events[c.batch][i].request \in c.rows

TelemetryCallOK(c, known, use) ==
    /\ c.next >= 1
    /\ c.at # "idle" => c.batch \in Batches
    /\ c.at # "insert" => c.rows = {} /\ c.next = 1
    /\ c.at = "insert" => c.batch \in known /\ Passed(c, use)
    /\ \A r \in c.rows : use[r] = NoBatch

RowsApart == \A x, y \in TelemetryCalls : x # y => tcalls[x].rows \intersect tcalls[y].rows = {}

\* A recorded batch that nobody stores was stored, or failed.
Accounted == \A b \in recorded \ failed : Inserting(b) # {} \/ b \in stored

TelemetryInv ==
    /\ TelemetryTypeOK
    /\ \A x \in TelemetryCalls : TelemetryCallOK(tcalls[x], recorded, usage)
    /\ RowsApart
    /\ Accounted
    /\ StoredBatchesAreThere

OwnTelemetry(x, c) == tcalls' = [tcalls EXCEPT ![x] = c]

\* The event at hand is one of the batch's.
LEMMA CurrentIsEvent ==
    ASSUME TelemetryInv, NEW x \in TelemetryCalls, Busy(x, "insert"), HasNext(x)
    PROVE  /\ Current(x) \in Event
           /\ tcalls[x].next \in DOMAIN Events[tcalls[x].batch]
<1>1. tcalls[x].batch \in Batches /\ tcalls[x].next \in Nat /\ tcalls[x].next >= 1
  BY DEF TelemetryInv, TelemetryTypeOK, TelemetryCallOK, TelemetryCall, Busy
<1>2. Events[tcalls[x].batch] \in Seq(Event)
  BY <1>1, EventsAssumption
<1>. QED
  BY <1>1, <1>2 DEF HasNext, Current

\* The requests of a batch are requests.
LEMMA RequestsOfBatch ==
    ASSUME NEW b \in Batches
    PROVE  \A i \in DOMAIN Events[b] : i \in Nat /\ i <= Len(Events[b]) /\ Events[b][i].request \in UsageRequests
<1>1. Events[b] \in Seq(Event)
  BY EventsAssumption
<1>2. \A i \in DOMAIN Events[b] : i \in Nat /\ i <= Len(Events[b]) /\ Events[b][i] \in Event
  BY <1>1
<1>3. \A e \in Event : e.request \in UsageRequests
  BY DEF Event
<1>. QED
  BY <1>2, <1>3

\* A step of one call that writes no usage row.
LEMMA UnwrittenUsage ==
    ASSUME TelemetryInv, NEW x \in TelemetryCalls, NEW c \in TelemetryCall, OwnTelemetry(x, c),
           recorded \subseteq recorded', recorded' \in SUBSET Batches,
           failed \subseteq failed', failed' \in SUBSET recorded',
           UNCHANGED <<usage, stored>>,
           TelemetryCallOK(c, recorded', usage),
           \A y \in TelemetryCalls \ {x} : c.rows \intersect tcalls[y].rows = {},
           \A b \in recorded' \ failed' :
               /\ b \in recorded \/ (c.at = "insert" /\ c.batch = b)
               /\ x \in Inserting(b) => c.at = "insert" /\ c.batch = b
    PROVE  TelemetryInv'
<1>1. tcalls' \in [TelemetryCalls -> TelemetryCall] /\ tcalls'[x] = c
      /\ \A y \in TelemetryCalls \ {x} : tcalls'[y] = tcalls[y]
  BY DEF TelemetryInv, TelemetryTypeOK, OwnTelemetry
<1>2. \A y \in TelemetryCalls : TelemetryCallOK(tcalls'[y], recorded', usage')
  BY <1>1 DEF TelemetryInv, TelemetryCallOK
<1>3. TelemetryTypeOK'
  BY <1>1, <1>2 DEF TelemetryInv, TelemetryTypeOK, TelemetryCallOK
<1>4. RowsApart'
  BY <1>1 DEF TelemetryInv, RowsApart
<1>5. Accounted'
  <2>. SUFFICES ASSUME NEW b \in recorded' \ failed', b \notin stored
                PROVE  Inserting(b)' # {}
    BY DEF Accounted
  <2>1. CASE c.at = "insert" /\ c.batch = b
    BY <1>1, <2>1 DEF Inserting
  <2>2. CASE ~(c.at = "insert" /\ c.batch = b)
    <3>1. PICK y \in Inserting(b) : TRUE
      BY <2>2 DEF TelemetryInv, Accounted
    <3>2. y # x
      BY <2>2, <3>1
    <3>. QED
      BY <1>1, <3>1, <3>2 DEF Inserting
  <2>. QED
    BY <2>1, <2>2
<1>6. StoredBatchesAreThere'
  BY DEF TelemetryInv, StoredBatchesAreThere, BatchRequests
<1>. QED
  BY <1>2, <1>3, <1>4, <1>5, <1>6 DEF TelemetryInv

LEMMA IdleTelemetryIsCall ==
    /\ IdleTelemetry \in TelemetryCall /\ IdleTelemetry.at = "idle" /\ IdleTelemetry.rows = {}
    /\ \A known, use : TelemetryCallOK(IdleTelemetry, known, use)
<1>1. IdleTelemetry \in TelemetryCall /\ IdleTelemetry.at = "idle" /\ IdleTelemetry.rows = {}
      /\ IdleTelemetry.next = 1
  BY DEF IdleTelemetry, TelemetryCall
<1>. QED
  BY <1>1 DEF TelemetryCallOK

\* A call that returns without a transaction, or with one that is rolled back.
LEMMA Replied ==
    ASSUME TelemetryInv, NEW x \in TelemetryCalls, Reply(x),
           recorded \subseteq recorded', recorded' \in SUBSET Batches,
           failed \subseteq failed', failed' \in SUBSET recorded',
           UNCHANGED <<usage, stored>>,
           \A b \in recorded' \ failed' : b \in recorded /\ x \notin Inserting(b)
    PROVE  TelemetryInv'
<1>1. OwnTelemetry(x, IdleTelemetry)
  BY DEF Reply, OwnTelemetry
<1>. QED
  BY <1>1, IdleTelemetryIsCall, UnwrittenUsage

\* A transaction that fails is rolled back, and the failure is remembered.
LEMMA FailedInsert ==
    ASSUME TelemetryInv, NEW x \in TelemetryCalls, Busy(x, "insert"), FailInsert(x)
    PROVE  TelemetryInv'
<1>1. tcalls[x].batch \in recorded /\ recorded \in SUBSET Batches /\ failed \in SUBSET recorded
  BY DEF TelemetryInv, TelemetryTypeOK, Busy
<1>2. \A b \in recorded' \ failed' : b \in recorded /\ x \notin Inserting(b)
  BY DEF FailInsert, Inserting
<1>. QED
  BY <1>1, <1>2, Replied DEF FailInsert

\* The calls of a handler up to its transaction.
LEMMA BatchComes ==
    ASSUME TelemetryInv, NEW x \in TelemetryCalls,
           SendBatch(x) \/ RejectBatch(x) \/ AcceptBatch(x) \/ RecordBatch(x) \/ RecordFails(x)
    PROVE  TelemetryInv'
<1>0. /\ tcalls[x] \in TelemetryCall /\ TelemetryCallOK(tcalls[x], recorded, usage)
      /\ recorded \in SUBSET Batches /\ failed \in SUBSET recorded
  BY DEF TelemetryInv, TelemetryTypeOK
<1>1. CASE SendBatch(x)
  <2>1. PICK b \in Batches, accepted \in BOOLEAN :
            OwnTelemetry(x, [IdleTelemetry EXCEPT !.at = "check", !.batch = b, !.accepted = accepted])
    BY <1>1 DEF SendBatch, OwnTelemetry
  <2>. DEFINE c == [IdleTelemetry EXCEPT !.at = "check", !.batch = b, !.accepted = accepted]
  <2>2. c \in TelemetryCall /\ c.at = "check" /\ c.batch = b /\ c.next = 1 /\ c.rows = {}
    BY DEF IdleTelemetry, TelemetryCall
  <2>3. OwnTelemetry(x, c)
    BY <2>1
  <2>. HIDE DEF c
  <2>4. TelemetryCallOK(c, recorded, usage)
    BY <2>2 DEF TelemetryCallOK
  <2>. QED
    BY <1>0, <1>1, <2>2, <2>3, <2>4, UnwrittenUsage DEF SendBatch, Inserting, Busy
<1>2. CASE RejectBatch(x)
  BY <1>0, <1>2, Replied DEF RejectBatch, Inserting, Busy
<1>3. CASE AcceptBatch(x)
  <2>. DEFINE c == [tcalls[x] EXCEPT !.at = "record"]
  <2>1. tcalls[x].at = "check" /\ OwnTelemetry(x, c)
    BY <1>3 DEF AcceptBatch, Busy, OwnTelemetry
  <2>2. /\ c \in TelemetryCall /\ c.at = "record" /\ c.batch = tcalls[x].batch
        /\ c.next = tcalls[x].next /\ c.rows = tcalls[x].rows
    BY <1>0 DEF TelemetryCall
  <2>. HIDE DEF c
  <2>3. TelemetryCallOK(c, recorded, usage) /\ c.rows = {}
    BY <1>0, <2>1, <2>2 DEF TelemetryCallOK
  <2>. QED
    BY <1>0, <1>3, <2>1, <2>2, <2>3, UnwrittenUsage DEF AcceptBatch, Inserting
<1>4. CASE RecordBatch(x)
  <2>. DEFINE b == tcalls[x].batch
              c == [tcalls[x] EXCEPT !.at = "insert"]
  <2>0. tcalls[x].at = "record" /\ b \in Batches /\ recorded' = recorded \union {b}
        /\ UNCHANGED <<usage, stored, failed>>
    BY <1>0, <1>4 DEF RecordBatch, Busy, TelemetryCallOK
  <2>1. CASE b \in recorded
    <3>1. Reply(x)
      BY <1>4, <2>1 DEF RecordBatch
    <3>. QED
      BY <1>0, <2>0, <2>1, <3>1, Replied DEF Inserting
  <2>2. CASE b \notin recorded
    <3>1. OwnTelemetry(x, c)
      BY <1>4, <2>2 DEF RecordBatch, OwnTelemetry
    <3>2. /\ c \in TelemetryCall /\ c.at = "insert" /\ c.batch = b
          /\ c.next = tcalls[x].next /\ c.rows = tcalls[x].rows
      BY <1>0 DEF TelemetryCall
    <3>3. c.next = 1 /\ c.rows = {}
      BY <1>0, <2>0, <3>2 DEF TelemetryCallOK
    <3>. HIDE DEF c
    <3>4. Passed(c, usage)
      BY <2>0, <3>2, <3>3, RequestsOfBatch DEF Passed, TelemetryCallOK
    <3>. QED
      BY <1>0, <2>0, <2>2, <3>1, <3>2, <3>3, <3>4, UnwrittenUsage DEF TelemetryCallOK, Inserting
  <2>. QED
    BY <2>1, <2>2
<1>5. CASE RecordFails(x)
  <2>1. tcalls[x].at = "record" /\ tcalls[x].batch \in Batches /\ Reply(x) /\ UNCHANGED <<usage, stored>>
    BY <1>0, <1>5 DEF RecordFails, Busy, TelemetryCallOK
  <2>2. /\ recorded \subseteq recorded' /\ recorded' \in SUBSET Batches
        /\ failed \subseteq failed' /\ failed' \in SUBSET recorded'
        /\ recorded' \ failed' \subseteq recorded
    BY <1>0, <1>5, <2>1 DEF RecordFails
  <2>. QED
    BY <2>1, <2>2, Replied DEF Inserting
<1>. QED
  BY <1>1, <1>2, <1>3, <1>4, <1>5

\* An event is inserted, or its row is there: the batch has passed it.
LEMMA EventInserted ==
    ASSUME TelemetryInv, NEW x \in TelemetryCalls, InsertEvent(x)
    PROVE  TelemetryInv'
<1>. DEFINE b == tcalls[x].batch
            r == Current(x).request
            rows == IF usage[r] = NoBatch THEN tcalls[x].rows \union {r} ELSE tcalls[x].rows
            next == tcalls[x].next + 1
            c == [tcalls[x] EXCEPT !.next = next, !.rows = rows]
<1>0. /\ tcalls[x] \in TelemetryCall /\ TelemetryCallOK(tcalls[x], recorded, usage)
      /\ recorded \in SUBSET Batches /\ failed \in SUBSET recorded
      /\ tcalls[x].at = "insert" /\ HasNext(x)
  BY DEF TelemetryInv, TelemetryTypeOK, InsertEvent, Busy
<1>1. r \in UsageRequests /\ b \in Batches /\ r = Events[b][tcalls[x].next].request
      /\ tcalls[x].next \in Nat
  <2>1. Current(x) \in Event
    BY <1>0, CurrentIsEvent DEF Busy
  <2>. QED
    BY <1>0, <2>1 DEF Event, Current, TelemetryCallOK, TelemetryCall
<1>2. rows \in SUBSET UsageRequests /\ tcalls[x].rows \subseteq rows
      /\ (usage[r] # NoBatch \/ r \in rows) /\ (\A q \in rows : usage[q] = NoBatch)
      /\ rows \subseteq tcalls[x].rows \union {r}
  BY <1>0, <1>1 DEF TelemetryCall, TelemetryCallOK
<1>3. OwnTelemetry(x, c)
  BY DEF InsertEvent, OwnTelemetry
<1>. HIDE DEF rows
<1>4. /\ c \in TelemetryCall /\ c.at = "insert" /\ c.batch = b
      /\ c.next = next /\ c.rows = rows
  <2>1. next \in Nat
    BY <1>1
  <2>. HIDE DEF next
  <2>. QED
    BY <1>0, <1>1, <1>2, <2>1 DEF TelemetryCall
<1>. HIDE DEF c, r
<1>5. Passed(c, usage)
  <2>. SUFFICES ASSUME NEW i \in DOMAIN Events[b], i < c.next
                PROVE  usage[Events[b][i].request] # NoBatch \/ Events[b][i].request \in rows
    BY <1>4 DEF Passed
  <2>1. i \in Nat
    BY <1>1, RequestsOfBatch
  <2>2. CASE i = tcalls[x].next
    BY <1>1, <1>2, <2>2
  <2>3. CASE i < tcalls[x].next
    BY <1>0, <1>2, <2>3 DEF TelemetryCallOK, Passed
  <2>. QED
    BY <1>1, <1>4, <2>1, <2>2, <2>3
<1>6. TelemetryCallOK(c, recorded, usage)
  BY <1>0, <1>1, <1>2, <1>4, <1>5 DEF TelemetryCallOK
<1>7. \A y \in TelemetryCalls \ {x} : c.rows \intersect tcalls[y].rows = {}
  <2>. SUFFICES ASSUME NEW y \in TelemetryCalls, y # x
                PROVE  c.rows \intersect tcalls[y].rows = {}
    OBVIOUS
  <2>1. ~WaitsFor(x, y)
    BY DEF InsertEvent
  <2>2. r \notin tcalls[y].rows
    BY <1>0, <2>1 DEF WaitsFor, Busy, r
  <2>3. tcalls[x].rows \intersect tcalls[y].rows = {}
    BY DEF TelemetryInv, RowsApart
  <2>. QED
    BY <1>2, <1>4, <2>2, <2>3
<1>8. UNCHANGED <<recorded, usage, stored, failed>>
  BY DEF InsertEvent
<1>. QED
  BY <1>0, <1>3, <1>4, <1>6, <1>7, <1>8, UnwrittenUsage DEF Inserting

\* A row that is written stays written by the same.
RowsStay == \A r \in UsageRequests : usage[r] # NoBatch => usage'[r] = usage[r]

\* A call is as it was when others write rows that are not its own.
LEMMA StillOK ==
    ASSUME NEW d \in TelemetryCall, TelemetryCallOK(d, recorded, usage), RowsStay,
           \A r \in d.rows : usage'[r] = usage[r]
    PROVE  TelemetryCallOK(d, recorded, usage')
<1>1. ASSUME d.at = "insert" PROVE Passed(d, usage')
  <2>. SUFFICES ASSUME NEW i \in DOMAIN Events[d.batch], i < d.next
                PROVE  usage'[Events[d.batch][i].request] # NoBatch \/ Events[d.batch][i].request \in d.rows
    BY DEF Passed
  <2>1. d.batch \in Batches /\ Passed(d, usage)
    BY <1>1 DEF TelemetryCallOK
  <2>2. Events[d.batch][i].request \in UsageRequests
    BY <2>1, RequestsOfBatch
  <2>. QED
    BY <2>1, <2>2 DEF Passed, RowsStay
<1>. QED
  BY <1>1 DEF TelemetryCallOK

\* Rows that stay keep the stored batches there.
LEMMA StoredStay ==
    ASSUME TelemetryInv, RowsStay, NEW b \in stored
    PROVE  \A r \in BatchRequests(b) : usage'[r] # NoBatch
<1>1. b \in Batches
  BY DEF TelemetryInv, TelemetryTypeOK
<1>2. BatchRequests(b) \subseteq UsageRequests
  BY <1>1, RequestsOfBatch DEF BatchRequests
<1>. QED
  BY <1>2 DEF TelemetryInv, StoredBatchesAreThere, RowsStay

\* The transaction commits: all of its rows are there at once.
LEMMA EventsCommitted ==
    ASSUME TelemetryInv, NEW x \in TelemetryCalls, CommitEvents(x)
    PROVE  TelemetryInv' /\ RowsStay
<1>. DEFINE b == tcalls[x].batch
<1>0. /\ tcalls[x] \in TelemetryCall /\ TelemetryCallOK(tcalls[x], recorded, usage)
      /\ tcalls[x].at = "insert" /\ ~HasNext(x) /\ b \in Batches /\ b \in recorded
  BY DEF TelemetryInv, TelemetryTypeOK, TelemetryCallOK, CommitEvents, Busy
<1>1. /\ usage' = [r \in UsageRequests |-> IF r \in tcalls[x].rows THEN b ELSE usage[r]]
      /\ stored' = stored \union {b} /\ UNCHANGED <<recorded, failed>>
      /\ OwnTelemetry(x, IdleTelemetry)
  BY DEF CommitEvents, Reply, OwnTelemetry
<1>2. /\ tcalls' \in [TelemetryCalls -> TelemetryCall] /\ tcalls'[x] = IdleTelemetry
      /\ \A y \in TelemetryCalls \ {x} : tcalls'[y] = tcalls[y]
  BY <1>1, IdleTelemetryIsCall DEF TelemetryInv, TelemetryTypeOK, OwnTelemetry
<1>3. RowsStay
  BY <1>0, <1>1 DEF RowsStay, TelemetryCallOK
<1>4. \A y \in TelemetryCalls : TelemetryCallOK(tcalls'[y], recorded', usage')
  <2>. SUFFICES ASSUME NEW y \in TelemetryCalls PROVE TelemetryCallOK(tcalls'[y], recorded, usage')
    BY <1>1
  <2>1. CASE y = x
    BY <1>2, <2>1, IdleTelemetryIsCall
  <2>2. CASE y # x
    <3>1. tcalls[y] \in TelemetryCall /\ TelemetryCallOK(tcalls[y], recorded, usage)
          /\ tcalls[y].rows \intersect tcalls[x].rows = {} /\ tcalls'[y] = tcalls[y]
      BY <1>2, <2>2 DEF TelemetryInv, TelemetryTypeOK, RowsApart
    <3>2. tcalls[y].rows \subseteq UsageRequests
      BY <3>1 DEF TelemetryCall
    <3>3. \A r \in tcalls[y].rows : usage'[r] = usage[r]
      BY <1>1, <3>1, <3>2
    <3>. QED
      BY <1>3, <3>1, <3>3, StillOK
  <2>. QED
    BY <2>1, <2>2
<1>5. TelemetryTypeOK'
  <2>1. usage' \in [UsageRequests -> Batches \union {NoBatch, Own}]
    BY <1>0, <1>1 DEF TelemetryInv, TelemetryTypeOK
  <2>. QED
    BY <1>0, <1>1, <1>2, <1>4, <2>1 DEF TelemetryInv, TelemetryTypeOK, TelemetryCallOK
<1>6. RowsApart'
  BY <1>2, IdleTelemetryIsCall DEF TelemetryInv, RowsApart
<1>7. Accounted'
  BY <1>0, <1>1, <1>2 DEF TelemetryInv, Accounted, Inserting
<1>8. StoredBatchesAreThere'
  <2>1. \A r \in BatchRequests(b) : usage'[r] # NoBatch
    <3>. SUFFICES ASSUME NEW i \in DOMAIN Events[b] PROVE usage'[Events[b][i].request] # NoBatch
      BY DEF BatchRequests
    <3>1. i \in Nat /\ i <= Len(Events[b]) /\ Events[b][i].request \in UsageRequests
      BY <1>0, RequestsOfBatch
    <3>2. Len(Events[b]) \in Nat
      BY <1>0, EventsAssumption
    <3>3. i < tcalls[x].next
      BY <1>0, <3>1, <3>2 DEF HasNext, TelemetryCall
    <3>. QED
      BY <1>0, <1>1, <3>1, <3>3, MarksAssumption DEF TelemetryCallOK, Passed
  <2>. QED
    BY <1>1, <1>3, <2>1, StoredStay DEF StoredBatchesAreThere, BatchRequests
<1>. QED
  BY <1>3, <1>4, <1>5, <1>6, <1>7, <1>8 DEF TelemetryInv

\* The official gateway writes the row of its own chat.
LEMMA OwnUsageRecorded ==
    ASSUME TelemetryInv, NEW r \in UsageRequests, RecordOwnUsage(r)
    PROVE  TelemetryInv' /\ RowsStay
<1>1. /\ usage[r] = NoBatch /\ usage' = [usage EXCEPT ![r] = Own]
      /\ UNCHANGED <<recorded, tcalls, stored, failed>>
      /\ \A x \in TelemetryCalls : r \notin tcalls[x].rows
  BY DEF RecordOwnUsage
<1>2. RowsStay
  BY <1>1 DEF RowsStay, TelemetryInv, TelemetryTypeOK
<1>3. TelemetryTypeOK'
  BY <1>1 DEF TelemetryInv, TelemetryTypeOK
<1>4. \A y \in TelemetryCalls : TelemetryCallOK(tcalls'[y], recorded', usage')
  <2>. SUFFICES ASSUME NEW y \in TelemetryCalls PROVE TelemetryCallOK(tcalls[y], recorded, usage')
    BY <1>1
  <2>1. tcalls[y] \in TelemetryCall /\ TelemetryCallOK(tcalls[y], recorded, usage)
    BY DEF TelemetryInv, TelemetryTypeOK
  <2>2. \A q \in tcalls[y].rows : q # r /\ q \in UsageRequests
    BY <1>1, <2>1 DEF TelemetryCall
  <2>3. \A q \in tcalls[y].rows : usage'[q] = usage[q]
    BY <1>1, <2>2 DEF TelemetryInv, TelemetryTypeOK
  <2>. QED
    BY <1>2, <2>1, <2>3, StillOK
<1>5. RowsApart' /\ Accounted'
  BY <1>1 DEF TelemetryInv, RowsApart, Accounted, Inserting
<1>6. StoredBatchesAreThere'
  BY <1>1, <1>2, StoredStay DEF StoredBatchesAreThere, BatchRequests
<1>. QED
  BY <1>2, <1>3, <1>4, <1>5, <1>6 DEF TelemetryInv

LEMMA TelemetryStart == TelemetryInit => TelemetryInv
<1>. SUFFICES ASSUME TelemetryInit PROVE TelemetryInv
  OBVIOUS
<1>. QED
  BY IdleTelemetryIsCall DEF TelemetryInit, TelemetryInv, TelemetryTypeOK, RowsApart, Accounted,
                             StoredBatchesAreThere

\* Every step of the telemetry handler keeps the invariant and the rows that are written.
LEMMA TelemetryStep == TelemetryInv /\ [TelemetryNext]_telemetryVars => TelemetryInv' /\ RowsStay
<1>. SUFFICES ASSUME TelemetryInv, [TelemetryNext]_telemetryVars PROVE TelemetryInv' /\ RowsStay
  OBVIOUS
<1>1. ASSUME NEW x \in TelemetryCalls, SendBatch(x) \/ HandleUsage(x) \/ RecordFails(x) \/ InsertFails(x)
      PROVE  TelemetryInv' /\ RowsStay
  <2>1. CASE SendBatch(x) \/ RejectBatch(x) \/ AcceptBatch(x) \/ RecordBatch(x) \/ RecordFails(x)
    <3>1. usage' = usage
      BY <2>1 DEF SendBatch, RejectBatch, AcceptBatch, RecordBatch, RecordFails
    <3>. QED
      BY <2>1, <3>1, BatchComes DEF RowsStay
  <2>2. CASE InsertEvent(x)
    BY <2>2, EventInserted DEF RowsStay, InsertEvent
  <2>3. CASE CommitEvents(x)
    BY <2>3, EventsCommitted
  <2>4. CASE ProviderMissing(x) \/ DeadlockEnds(x) \/ InsertFails(x)
    <3>1. Busy(x, "insert") /\ FailInsert(x)
      BY <2>4 DEF ProviderMissing, DeadlockEnds, Deadlocked, InsertFails, WaitsFor
    <3>. QED
      BY <3>1, FailedInsert DEF RowsStay, FailInsert
  <2>. QED
    BY <1>1, <2>1, <2>2, <2>3, <2>4 DEF HandleUsage
<1>2. ASSUME NEW r \in UsageRequests, RecordOwnUsage(r) PROVE TelemetryInv' /\ RowsStay
  BY <1>2, OwnUsageRecorded
<1>3. CASE UNCHANGED telemetryVars
  BY <1>3 DEF telemetryVars, TelemetryInv, TelemetryTypeOK, RowsApart, Accounted, StoredBatchesAreThere,
              Inserting, RowsStay
<1>. QED
  BY <1>1, <1>2, <1>3 DEF TelemetryNext

-----------------------------------------------------------------------------
(***************************************************************************)
(* The two parts together.                                                 *)
(***************************************************************************)
ControlInv == ProvidersInv /\ TelemetryInv

LEMMA ControlStep == ControlInv /\ [ControlNext]_controlVars => ControlInv' /\ RowsStay
<1>. SUFFICES ASSUME ControlInv, [ControlNext]_controlVars PROVE ControlInv' /\ RowsStay
  OBVIOUS
<1>1. [ProvidersNext]_providerVars /\ [TelemetryNext]_telemetryVars
  BY DEF ControlNext, controlVars, providerVars, telemetryVars
<1>. QED
  BY <1>1, ProvidersStep, TelemetryStep DEF ControlInv

LEMMA ControlInvariant == ControlSpec => []ControlInv
<1>1. ControlInit => ControlInv
  BY ProvidersStart, TelemetryStart DEF ControlInit, ControlInv
<1>. QED
  BY <1>1, ControlStep, PTL DEF ControlSpec

(***************************************************************************)
(* Whatever calls overlap or fail half way: a provider that has had a      *)
(* wallet is without one only in the gap of a registration, or after one   *)
(* that failed in it.                                                      *)
(***************************************************************************)
THEOREM WalletsCorrect == ControlSpec => [](ProvidersTypeOK /\ WalletlessOnlyHalfway)
<1>1. ControlInv => ProvidersTypeOK /\ WalletlessOnlyHalfway
  BY DEF ControlInv, ProvidersInv
<1>. QED
  BY <1>1, ControlInvariant, PTL

(***************************************************************************)
(* A registration or rotation that overlaps no other one of its provider   *)
(* ends with its wallet active and no other, whatever the overlapping and  *)
(* failed calls before it have left in the history.                        *)
(***************************************************************************)
THEOREM UndisturbedDecides == ControlSpec => UndisturbedCallDecides
<1>1. ControlInit => ControlInv /\ AloneInv
  BY ProvidersStart, TelemetryStart, AloneStart DEF ControlInit, ControlInv
<1>2. ControlInv /\ AloneInv /\ [ControlNext]_controlVars
          => /\ ControlInv' /\ AloneInv'
             /\ \A x \in ProviderCalls : Decides(x) \/ UNCHANGED providerVars
  <2>1. [ControlNext]_controlVars => [ProvidersNext]_providerVars
    BY DEF ControlNext, controlVars, providerVars
  <2>. QED
    BY <2>1, ControlStep, AloneStep DEF ControlInv
<1>3. (\A x \in ProviderCalls : Decides(x) \/ UNCHANGED providerVars)
          => [\A x \in ProviderCalls, p \in ProviderIds :
                  /\ LookForWallet(x) \/ InsertWallet(x) \/ CommitRotation(x)
                  /\ pcalls[x].provider = p /\ pcalls[x].alone /\ pcalls'[x].at = "idle"
                  => ActiveWallets(p)' = {pcalls[x].wallet}]_providerVars
  BY DEF Decides
<1>. QED
  BY <1>1, <1>2, <1>3, PTL DEF ControlSpec, UndisturbedCallDecides

\* A batch that is recorded, nobody stores and nothing failed for was stored.
LEMMA AccountedIsThere == TelemetryInv => DroppedOnlyByFailure
BY DEF TelemetryInv, Accounted, StoredBatchesAreThere, DroppedOnlyByFailure

(***************************************************************************)
(* Batches that share requests, repeat and fail: what was answered as      *)
(* stored is there, and a recorded batch loses events only by a failure.   *)
(***************************************************************************)
THEOREM TelemetryCorrect ==
    ControlSpec => [](TelemetryTypeOK /\ StoredBatchesAreThere /\ DroppedOnlyByFailure)
<1>1. ControlInv => TelemetryTypeOK /\ StoredBatchesAreThere /\ DroppedOnlyByFailure
  BY AccountedIsThere DEF ControlInv, TelemetryInv
<1>. QED
  BY <1>1, ControlInvariant, PTL

(***************************************************************************)
(* The usage row of a request is the first one written for it, by a batch  *)
(* or by the official gateway.                                             *)
(***************************************************************************)
THEOREM UsageRowsStay == ControlSpec => FirstWriterWins
<1>1. ControlInv /\ [ControlNext]_controlVars
          => [\A r \in UsageRequests : usage[r] # NoBatch => usage'[r] = usage[r]]_controlVars
  BY ControlStep DEF RowsStay
<1>. QED
  BY <1>1, ControlInvariant, PTL DEF ControlSpec, FirstWriterWins

-----------------------------------------------------------------------------
(***************************************************************************)
(* The statements of InsertUsageEvents as one step.  One call at a time    *)
(* inserts a batch, which was not stored before, and its rows are of the   *)
(* batch and not there yet: so a commit writes what UsageLog writes.       *)
(***************************************************************************)
InsertOK(x, c, done) ==
    c.at = "insert" =>
        /\ c.batch \notin done
        /\ c.rows \subseteq BatchRequests(c.batch)
        /\ \A y \in TelemetryCalls \ {x} : tcalls[y].at = "insert" => tcalls[y].batch # c.batch

InsertsApart == \A x \in TelemetryCalls : InsertOK(x, tcalls[x], stored)

\* A call that is not inserting after its step leaves the others apart.
LEMMA LeftApart ==
    ASSUME TelemetryInv, InsertsApart, NEW x \in TelemetryCalls, NEW c \in TelemetryCall,
           OwnTelemetry(x, c), c.at # "insert",
           stored' = stored \/ (Busy(x, "insert") /\ stored' = stored \union {tcalls[x].batch})
    PROVE  InsertsApart'
<1>1. /\ tcalls'[x] = c /\ \A y \in TelemetryCalls \ {x} : tcalls'[y] = tcalls[y]
  BY DEF TelemetryInv, TelemetryTypeOK, OwnTelemetry
<1>. QED
  BY <1>1 DEF InsertsApart, InsertOK, Busy

\* A batch that comes is inserted by one call, if it is new.
LEMMA BatchComesApart ==
    ASSUME TelemetryInv, InsertsApart, NEW x \in TelemetryCalls,
           SendBatch(x) \/ RejectBatch(x) \/ AcceptBatch(x) \/ RecordBatch(x) \/ RecordFails(x)
    PROVE  InsertsApart'
<1>0. /\ tcalls[x] \in TelemetryCall /\ TelemetryCallOK(tcalls[x], recorded, usage)
      /\ tcalls \in [TelemetryCalls -> TelemetryCall] /\ stored \subseteq recorded
      /\ stored' = stored
  BY DEF TelemetryInv, TelemetryTypeOK, SendBatch, RejectBatch, AcceptBatch, RecordBatch, RecordFails
<1>1. CASE SendBatch(x) \/ RejectBatch(x) \/ AcceptBatch(x)
  <2>1. CASE SendBatch(x)
    <3>1. PICK b \in Batches, accepted \in BOOLEAN :
              OwnTelemetry(x, [IdleTelemetry EXCEPT !.at = "check", !.batch = b, !.accepted = accepted])
      BY <2>1 DEF SendBatch, OwnTelemetry
    <3>. DEFINE c == [IdleTelemetry EXCEPT !.at = "check", !.batch = b, !.accepted = accepted]
    <3>2. c \in TelemetryCall /\ c.at = "check"
      BY DEF IdleTelemetry, TelemetryCall
    <3>. QED
      BY <1>0, <3>1, <3>2, LeftApart
  <2>2. CASE RejectBatch(x)
    BY <1>0, <2>2, LeftApart, IdleTelemetryIsCall DEF RejectBatch, Reply, OwnTelemetry
  <2>3. CASE AcceptBatch(x)
    <3>. DEFINE c == [tcalls[x] EXCEPT !.at = "record"]
    <3>1. c \in TelemetryCall /\ c.at = "record"
      BY <1>0 DEF TelemetryCall
    <3>2. OwnTelemetry(x, c)
      BY <2>3 DEF AcceptBatch, OwnTelemetry
    <3>. QED
      BY <1>0, <3>1, <3>2, LeftApart
  <2>. QED
    BY <1>1, <2>1, <2>2, <2>3
<1>2. CASE Reply(x)
  BY <1>0, <1>2, LeftApart, IdleTelemetryIsCall DEF Reply, OwnTelemetry
<1>3. CASE RecordBatch(x) /\ ~Reply(x)
  <2>. DEFINE b == tcalls[x].batch
  <2>1. /\ tcalls[x].at = "record" /\ b \notin recorded
        /\ tcalls' = [tcalls EXCEPT ![x].at = "insert"]
    BY <1>3 DEF RecordBatch, Busy
  <2>2. /\ tcalls'[x].at = "insert" /\ tcalls'[x].batch = b /\ tcalls'[x].rows = {}
        /\ \A y \in TelemetryCalls \ {x} : tcalls'[y] = tcalls[y]
    BY <1>0, <2>1 DEF TelemetryCall, TelemetryCallOK
  <2>3. \A y \in TelemetryCalls : tcalls[y].at = "insert" => tcalls[y].batch # b
    BY <2>1 DEF TelemetryInv, TelemetryCallOK
  <2>. QED
    BY <1>0, <2>1, <2>2, <2>3 DEF InsertsApart, InsertOK
<1>. QED
  BY <1>1, <1>2, <1>3 DEF RecordFails

\* An event that is passed adds a row of the batch at most.
LEMMA InsertedApart ==
    ASSUME TelemetryInv, InsertsApart, NEW x \in TelemetryCalls, InsertEvent(x)
    PROVE  InsertsApart'
<1>1. /\ tcalls[x] \in TelemetryCall /\ tcalls \in [TelemetryCalls -> TelemetryCall]
      /\ tcalls[x].at = "insert" /\ stored' = stored /\ HasNext(x)
  BY DEF TelemetryInv, TelemetryTypeOK, InsertEvent, Busy
<1>2. Current(x).request \in BatchRequests(tcalls[x].batch)
  BY <1>1, CurrentIsEvent DEF Current, BatchRequests, Busy
<1>3. /\ tcalls'[x].at = "insert" /\ tcalls'[x].batch = tcalls[x].batch
      /\ tcalls'[x].rows \subseteq tcalls[x].rows \union {Current(x).request}
      /\ \A y \in TelemetryCalls \ {x} : tcalls'[y] = tcalls[y]
  BY <1>1 DEF InsertEvent, TelemetryCall
<1>. QED
  BY <1>1, <1>2, <1>3 DEF InsertsApart, InsertOK

\* The commit is one step of the log: the rows of the batch that were missing, and no other.
LEMMA CommitStores ==
    ASSUME TelemetryInv, InsertsApart, NEW x \in TelemetryCalls, CommitEvents(x)
    PROVE  InsertsApart' /\ Log!StoreBatch(tcalls[x].batch) /\ tcalls[x].batch \in Batches
<1>. DEFINE b == tcalls[x].batch
<1>1. /\ tcalls[x] \in TelemetryCall /\ TelemetryCallOK(tcalls[x], recorded, usage)
      /\ tcalls[x].at = "insert" /\ ~HasNext(x) /\ b \in Batches
      /\ InsertOK(x, tcalls[x], stored)
  BY DEF TelemetryInv, TelemetryTypeOK, TelemetryCallOK, InsertsApart, CommitEvents, Busy
<1>2. /\ usage' = [r \in UsageRequests |-> IF r \in tcalls[x].rows THEN b ELSE usage[r]]
      /\ stored' = stored \union {b} /\ OwnTelemetry(x, IdleTelemetry)
  BY DEF CommitEvents, Reply, OwnTelemetry
<1>3. ASSUME NEW r \in BatchRequests(b), usage[r] = NoBatch
      PROVE  r \in tcalls[x].rows
  <2>1. PICK i \in DOMAIN Events[b] : r = Events[b][i].request
    BY DEF BatchRequests
  <2>2. i \in Nat /\ i <= Len(Events[b]) /\ Len(Events[b]) \in Nat
    BY <1>1, RequestsOfBatch, EventsAssumption
  <2>3. i < tcalls[x].next
    BY <1>1, <2>2 DEF HasNext, TelemetryCall
  <2>. QED
    BY <1>1, <1>3, <2>1, <2>3 DEF TelemetryCallOK, Passed
<1>4. \A r \in tcalls[x].rows : r \in BatchRequests(b) /\ usage[r] = NoBatch
  BY <1>1 DEF InsertOK, TelemetryCallOK
<1>5. InsertsApart'
  BY <1>1, <1>2, LeftApart, IdleTelemetryIsCall DEF Busy
<1>6. b \notin stored
  BY <1>1 DEF InsertOK
<1>7. Log!StoreBatch(b)
  BY <1>1, <1>2, <1>3, <1>4, <1>6 DEF Log!StoreBatch
<1>. QED
  BY <1>1, <1>5, <1>7

\* Every step of the handlers is a step of the log or leaves it alone.
LEMMA LogStep ==
    ASSUME TelemetryInv, InsertsApart, [TelemetryNext]_telemetryVars
    PROVE  InsertsApart' /\ [Log!Next]_(Log!vars)
<1>1. ASSUME NEW x \in TelemetryCalls, SendBatch(x) \/ HandleUsage(x) \/ RecordFails(x) \/ InsertFails(x)
      PROVE  InsertsApart' /\ [Log!Next]_(Log!vars)
  <2>1. CASE SendBatch(x) \/ RejectBatch(x) \/ AcceptBatch(x) \/ RecordBatch(x) \/ RecordFails(x)
    <3>1. UNCHANGED Log!vars
      BY <2>1 DEF SendBatch, RejectBatch, AcceptBatch, RecordBatch, RecordFails, Log!vars
    <3>. QED
      BY <2>1, <3>1, BatchComesApart
  <2>2. CASE InsertEvent(x)
    BY <2>2, InsertedApart DEF InsertEvent, Log!vars
  <2>3. CASE CommitEvents(x)
    BY <2>3, CommitStores DEF Log!Next
  <2>4. CASE ProviderMissing(x) \/ DeadlockEnds(x) \/ InsertFails(x)
    <3>1. FailInsert(x)
      BY <2>4 DEF ProviderMissing, DeadlockEnds, InsertFails
    <3>. QED
      BY <3>1, LeftApart, IdleTelemetryIsCall DEF FailInsert, Reply, OwnTelemetry, Log!vars
  <2>. QED
    BY <1>1, <2>1, <2>2, <2>3, <2>4 DEF HandleUsage
<1>2. ASSUME NEW r \in UsageRequests, RecordOwnUsage(r)
      PROVE  InsertsApart' /\ [Log!Next]_(Log!vars)
  BY <1>2 DEF RecordOwnUsage, InsertsApart, InsertOK, Log!Next, Log!RecordOwn
<1>3. CASE UNCHANGED telemetryVars
  BY <1>3 DEF telemetryVars, InsertsApart, InsertOK, Log!vars
<1>. QED
  BY <1>1, <1>2, <1>3 DEF TelemetryNext

(***************************************************************************)
(* The transactions of the telemetry handler implement the usage log: any  *)
(* number of calls, statement by statement, store batches as if one after  *)
(* the other, each whole and once, or not at all.                          *)
(***************************************************************************)
THEOREM BatchesStoredWhole == ControlSpec => StoresWhole
<1>1. ControlInit => InsertsApart /\ Log!Init
  BY DEF ControlInit, TelemetryInit, IdleTelemetry, InsertsApart, InsertOK, Log!Init
<1>2. ControlInv /\ InsertsApart /\ [ControlNext]_controlVars
          => InsertsApart' /\ [Log!Next]_(Log!vars)
  <2>1. [ControlNext]_controlVars => [TelemetryNext]_telemetryVars
    BY DEF ControlNext, controlVars, telemetryVars
  <2>. QED
    BY <2>1, LogStep DEF ControlInv
<1>. QED
  BY <1>1, <1>2, ControlInvariant, PTL DEF ControlSpec, StoresWhole, Log!Spec

\* What the log keeps, whoever implements it.
LEMMA LogIsWhole == Log!Spec => [](Log!NothingHalfStored /\ stored \subseteq Batches)
<1>. DEFINE Inv == /\ Log!NothingHalfStored /\ stored \subseteq Batches
                   /\ DOMAIN usage = UsageRequests
<1>1. Log!Init => Inv
  BY MarksAssumption DEF Log!Init, Log!NothingHalfStored
<1>2. ASSUME Inv, NEW b \in Batches, Log!StoreBatch(b)
      PROVE  Inv'
  <2>1. \A d \in Batches : BatchRequests(d) \subseteq UsageRequests
    BY RequestsOfBatch DEF BatchRequests
  <2>2. /\ stored' = stored \union {b} /\ DOMAIN usage' = UsageRequests
        /\ \A r \in UsageRequests :
               usage'[r] = IF r \in BatchRequests(b) /\ usage[r] = NoBatch THEN b ELSE usage[r]
    BY <1>2 DEF Log!StoreBatch
  <2>3. \A r \in UsageRequests : usage'[r] \in Batches => usage'[r] \in stored' /\ r \in BatchRequests(usage'[r])
    BY <1>2, <2>2 DEF Log!NothingHalfStored
  <2>4. \A d \in stored' : \A r \in BatchRequests(d) : usage'[r] # NoBatch
    BY <1>2, <2>1, <2>2, MarksAssumption DEF Log!NothingHalfStored
  <2>. QED
    BY <1>2, <2>2, <2>3, <2>4 DEF Log!NothingHalfStored
<1>3. ASSUME Inv, NEW r \in UsageRequests, Log!RecordOwn(r)
      PROVE  Inv'
  BY <1>3, MarksAssumption DEF Log!RecordOwn, Log!NothingHalfStored
<1>4. Inv /\ UNCHANGED Log!vars => Inv'
  BY DEF Log!vars, Log!NothingHalfStored
<1>5. Inv /\ [Log!Next]_(Log!vars) => Inv'
  BY <1>2, <1>3, <1>4 DEF Log!Next
<1>. QED
  BY <1>1, <1>5, PTL DEF Log!Spec

(***************************************************************************)
(* So no failure, crash or repetition leaves a part of a batch behind.     *)
(***************************************************************************)
THEOREM NothingIsHalfStored == ControlSpec => []Log!NothingHalfStored
BY BatchesStoredWhole, LogIsWhole, PTL DEF StoresWhole

-----------------------------------------------------------------------------
(***************************************************************************)
(* Batches that wait for each other.  A call that inserts and waits for    *)
(* nobody has a step: its next event, the refusal of one, or the commit.   *)
(***************************************************************************)
GoesOn(x) == Busy(x, "insert") /\ \A y \in TelemetryCalls : ~WaitsFor(x, y)
InDeadlock(x) == \E S \in SUBSET TelemetryCalls : x \in S /\ Deadlocked(S)
NobodyIsStuck ==
    (\E x \in TelemetryCalls : Busy(x, "insert"))
        => \E x \in TelemetryCalls : GoesOn(x) \/ InDeadlock(x)

\* Of a family of subsets of a finite set, one has no smaller one below it.
LEMMA SmallestSubset ==
    ASSUME NEW S, IsFiniteSet(S), NEW family \in SUBSET SUBSET S, family # {}
    PROVE  \E T \in family : \A U \in SUBSET T : U \in family => U = T
<1>1. family \subseteq FiniteSubsetsOf(S)
  BY FS_FiniteSubsetsOfFinite
<1>2. \E T \in family : \A U \in family : ~(<<U, T>> \in StrictSubsetOrdering(S))
  BY <1>1, FS_StrictSubsetOrderingWellFounded, WFMin
<1>. QED
  BY <1>2 DEF StrictSubsetOrdering

\* Calls that all wait for one of them hold calls that wait in a circle.
SelfWaiting(S) == S # {} /\ \A x \in S : \E y \in S : WaitsFor(x, y)

LEMMA SelfWaitingHasDeadlock ==
    ASSUME NEW S \in SUBSET TelemetryCalls, SelfWaiting(S)
    PROVE  \E T \in SUBSET TelemetryCalls : T # {} /\ Deadlocked(T)
<1>. DEFINE family == {T \in SUBSET TelemetryCalls : SelfWaiting(T)}
<1>1. PICK T \in family : \A U \in SUBSET T : U \in family => U = T
  <2>1. family \in SUBSET SUBSET TelemetryCalls /\ family # {}
    OBVIOUS
  <2>. HIDE DEF family
  <2>. QED
    BY <2>1, CallsAssumption, SmallestSubset
<1>. DEFINE U == {y \in T : \E x \in T : WaitsFor(x, y)}
<1>2. T \in SUBSET TelemetryCalls /\ SelfWaiting(T)
  BY <1>1
<1>3. U \in SUBSET T /\ U \in SUBSET TelemetryCalls
  BY <1>2
<1>4. SelfWaiting(U)
  BY <1>2 DEF SelfWaiting
<1>5. U = T
  BY <1>1, <1>3, <1>4
<1>6. Deadlocked(T)
  BY <1>2, <1>5 DEF Deadlocked, SelfWaiting
<1>. QED
  BY <1>2, <1>6 DEF SelfWaiting

LEMMA SomebodyGoesOn == TelemetryInv => NobodyIsStuck
<1>. SUFFICES ASSUME TelemetryInv, NEW b \in TelemetryCalls, Busy(b, "insert"),
                     \A x \in TelemetryCalls : ~GoesOn(x)
              PROVE  \E x \in TelemetryCalls : InDeadlock(x)
  BY DEF NobodyIsStuck
<1>. DEFINE S == {x \in TelemetryCalls : Busy(x, "insert")}
<1>1. ASSUME NEW x \in S
      PROVE  \E y \in S : WaitsFor(x, y)
  <2>1. PICK y \in TelemetryCalls : WaitsFor(x, y)
    BY DEF GoesOn
  <2>2. tcalls[y].rows # {}
    BY <2>1 DEF WaitsFor
  <2>3. Busy(y, "insert")
    BY <2>2 DEF TelemetryInv, TelemetryCallOK, Busy
  <2>. QED
    BY <2>1, <2>3
<1>2. S \in SUBSET TelemetryCalls /\ SelfWaiting(S)
  BY <1>1 DEF SelfWaiting
<1>. HIDE DEF S
<1>3. PICK T \in SUBSET TelemetryCalls : T # {} /\ Deadlocked(T)
  BY <1>2, SelfWaitingHasDeadlock
<1>. QED
  BY <1>3 DEF InDeadlock

(***************************************************************************)
(* However many batches share their requests, in whatever orders: as long  *)
(* as one is being inserted, some call can go on, or is in a circle of     *)
(* waits that PostgreSQL ends.  No call waits for one that has ended.      *)
(***************************************************************************)
THEOREM BatchesAreNeverStuck == ControlSpec => []NobodyIsStuck
<1>1. ControlInv => NobodyIsStuck
  BY SomebodyGoesOn DEF ControlInv
<1>. QED
  BY <1>1, ControlInvariant, PTL

=============================================================================

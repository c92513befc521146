------------------------------ MODULE Providers ------------------------------
(***************************************************************************)
(* Providers in the control API: registration, heartbeat and wallet        *)
(* rotation, statement by statement, on the tables providers and           *)
(* provider_wallet_history.                                                *)
(*                                                                         *)
(* A statement reads the rows its snapshot shows, as READ COMMITTED does:  *)
(* what commits after the snapshot it does not see, and a row it waited    *)
(* for it tests again.  A registration is three statements that commit on  *)
(* their own, a rotation is one transaction.                               *)
(***************************************************************************)
EXTENDS Integers, Sequences, FiniteSets

CONSTANTS
    ProviderIds, Wallets,
    ProviderCalls,      \* calls of the handlers, in any gateway process
    NoWallet,           \* a registration without a wallet address
    MaxRows             \* bound: rows a provider's wallet history has

ASSUME ProvidersAssumption == ProviderIds # {}
ASSUME RowsAssumption == MaxRows \in Nat
ASSUME NoWalletAssumption == NoWallet \notin Wallets

VARIABLES
    providers,      \* the providers with a row
    history,        \* provider -> its rows of provider_wallet_history, in order
    pcalls,         \* call -> what it does, where it is, what it has read
    halfway         \* providers left by a registration that failed half way

providerVars == <<providers, history, pcalls, halfway>>

HistoryRow == [wallet : Wallets, active : BOOLEAN]
ProviderCall == [at : {"idle", "upsert", "close", "closing", "look", "insert",
                       "beat", "beatInsert", "rotate", "rotating", "commit"},
                 provider : ProviderIds, wallet : Wallets \union {NoWallet},
                 saw : SUBSET Nat, alone : BOOLEAN]

(***************************************************************************)
(* Only known providers have wallets, and a call acts on rows that exist.  *)
(***************************************************************************)
ProvidersTypeOK ==
    /\ providers \in SUBSET ProviderIds
    /\ history \in [ProviderIds -> Seq(HistoryRow)]
    /\ pcalls \in [ProviderCalls -> ProviderCall]
    /\ halfway \in SUBSET ProviderIds
    /\ \A p \in ProviderIds : history[p] # <<>> => p \in providers
    /\ \A x \in ProviderCalls : pcalls[x].saw \subseteq DOMAIN history[pcalls[x].provider]

IdleCall == [at |-> "idle", provider |-> CHOOSE p \in ProviderIds : TRUE,
             wallet |-> NoWallet, saw |-> {}, alone |-> FALSE]

ProvidersInit ==
    /\ providers = {}
    /\ history = [p \in ProviderIds |-> <<>>]
    /\ pcalls = [x \in ProviderCalls |-> IdleCall]
    /\ halfway = {}

ActiveRows(p) == {i \in DOMAIN history[p] : history[p][i].active}
ActiveWallets(p) == {history[p][i].wallet : i \in ActiveRows(p)}

At(x, place) == pcalls[x].at = place
MoveTo(x, place) == pcalls' = [pcalls EXCEPT ![x].at = place]
Finish(x) == pcalls' = [pcalls EXCEPT ![x] = IdleCall]

\* Calls that may touch the wallets of p; one that starts meets the others.
OnWallets(p) ==
    {x \in ProviderCalls : /\ pcalls[x].provider = p
                           /\ pcalls[x].wallet # NoWallet /\ ~At(x, "idle")}
Starts(x, place, p, w) ==
    pcalls' = [y \in ProviderCalls |->
        IF y = x THEN [at |-> place, provider |-> p, wallet |-> w, saw |-> {},
                       alone |-> OnWallets(p) = {}]
        ELSE [pcalls[y] EXCEPT !.alone = @ /\ ~(y \in OnWallets(p) /\ w # NoWallet)]]

\* The UPDATE that closes rows: those the snapshot showed and nobody closed since.
Closed(p, rows) ==
    [i \in DOMAIN history[p] |->
        [history[p][i] EXCEPT !.active = @ /\ i \notin rows]]

\* A rotation holds the rows it closes until it commits.
RowsFree(x) ==
    \A y \in ProviderCalls \ {x} :
        At(y, "commit") /\ pcalls[y].provider = pcalls[x].provider
            => pcalls[y].saw \intersect pcalls[x].saw = {}

HasRoom(p) == Len(history[p]) < MaxRows

-----------------------------------------------------------------------------
\* handleProviderRegister, UpsertProvider.
BeginRegister(x) ==
    /\ At(x, "idle")
    /\ \E p \in ProviderIds, w \in Wallets \union {NoWallet} : Starts(x, "upsert", p, w)
    /\ UNCHANGED <<providers, history, halfway>>

UpsertRow(x) ==
    /\ At(x, "upsert")
    /\ providers' = providers \union {pcalls[x].provider}
    /\ IF pcalls[x].wallet = NoWallet THEN Finish(x) ELSE MoveTo(x, "close")
    /\ UNCHANGED <<history, halfway>>

SeeOthers(x) ==
    LET p == pcalls[x].provider IN
    /\ At(x, "close")
    /\ pcalls' = [pcalls EXCEPT ![x].at = "closing",
           ![x].saw = {i \in ActiveRows(p) : history[p][i].wallet # pcalls[x].wallet}]
    /\ UNCHANGED <<providers, history, halfway>>

CloseOthers(x) ==
    LET p == pcalls[x].provider IN
    /\ At(x, "closing") /\ RowsFree(x)
    /\ history' = [history EXCEPT ![p] = Closed(p, pcalls[x].saw)]
    /\ MoveTo(x, "look")
    /\ UNCHANGED <<providers, halfway>>

\* Mutant: NOT EXISTS counts the rows that are closed too.
LookForWalletEver(x) ==
    LET p == pcalls[x].provider IN
    /\ At(x, "look")
    /\ IF \E i \in DOMAIN history[p] : history[p][i].wallet = pcalls[x].wallet
       THEN Finish(x)
       ELSE MoveTo(x, "insert")
    /\ UNCHANGED <<providers, history, halfway>>

\* INSERT ... SELECT ... WHERE NOT EXISTS: the snapshot, and then the row.
LookForWallet(x) ==
    /\ At(x, "look")
    /\ IF pcalls[x].wallet \in ActiveWallets(pcalls[x].provider)
       THEN Finish(x)
       ELSE MoveTo(x, "insert")
    /\ UNCHANGED <<providers, history, halfway>>

InsertWallet(x) ==
    LET p == pcalls[x].provider IN
    /\ At(x, "insert") /\ HasRoom(p)
    /\ history' = [history EXCEPT ![p] = Append(@, [wallet |-> pcalls[x].wallet, active |-> TRUE])]
    /\ halfway' = halfway \ {p}
    /\ Finish(x)
    /\ UNCHANGED providers

-----------------------------------------------------------------------------
\* handleProviderHeartbeat, HeartbeatProvider.
BeginHeartbeat(x) ==
    /\ At(x, "idle")
    /\ \E p \in ProviderIds : Starts(x, "beat", p, NoWallet)
    /\ UNCHANGED <<providers, history, halfway>>

UpdateSeen(x) ==
    /\ At(x, "beat")
    /\ IF pcalls[x].provider \in providers THEN Finish(x) ELSE MoveTo(x, "beatInsert")
    /\ UNCHANGED <<providers, history, halfway>>

\* A plain INSERT: it fails on the key when the provider came in between.
InsertSeen(x) ==
    /\ At(x, "beatInsert")
    /\ providers' = providers \union {pcalls[x].provider}
    /\ Finish(x)
    /\ UNCHANGED <<history, halfway>>

-----------------------------------------------------------------------------
\* handleProviderWalletRotate, RotateProviderWallet.
BeginRotate(x) ==
    /\ At(x, "idle")
    /\ \E p \in ProviderIds, w \in Wallets : Starts(x, "rotate", p, w)
    /\ UNCHANGED <<providers, history, halfway>>

\* Mutant: the rotation closes nothing.
SeeNoneToRotate(x) ==
    /\ At(x, "rotate")
    /\ pcalls' = [pcalls EXCEPT ![x].at = "rotating", ![x].saw = {}]
    /\ UNCHANGED <<providers, history, halfway>>

SeeAll(x) ==
    /\ At(x, "rotate")
    /\ pcalls' = [pcalls EXCEPT ![x].at = "rotating",
                                ![x].saw = ActiveRows(pcalls[x].provider)]
    /\ UNCHANGED <<providers, history, halfway>>

LockRows(x) ==
    /\ At(x, "rotating") /\ RowsFree(x)
    /\ pcalls[x].provider \in providers
    /\ MoveTo(x, "commit")
    /\ UNCHANGED <<providers, history, halfway>>

CommitRotation(x) ==
    LET p == pcalls[x].provider IN
    /\ At(x, "commit") /\ HasRoom(p)
    /\ history' = [history EXCEPT ![p] =
           Append(Closed(p, pcalls[x].saw), [wallet |-> pcalls[x].wallet, active |-> TRUE])]
    /\ halfway' = halfway \ {p}
    /\ Finish(x)
    /\ UNCHANGED providers

\* A statement fails (an unknown provider of a rotation always does), or the gateway dies.
CallFails(x) ==
    /\ ~At(x, "idle")
    /\ halfway' = IF pcalls[x].at \in {"look", "insert"}
                  THEN halfway \union {pcalls[x].provider} ELSE halfway
    /\ Finish(x)
    /\ UNCHANGED <<providers, history>>

-----------------------------------------------------------------------------
Register(x) ==
    BeginRegister(x) \/ UpsertRow(x) \/ SeeOthers(x) \/ CloseOthers(x)
        \/ LookForWallet(x) \/ InsertWallet(x)
HeartbeatProvider(x) == BeginHeartbeat(x) \/ UpdateSeen(x) \/ InsertSeen(x)
Rotate(x) == BeginRotate(x) \/ SeeAll(x) \/ LockRows(x) \/ CommitRotation(x)

ProvidersNext ==
    \E x \in ProviderCalls :
        Register(x) \/ HeartbeatProvider(x) \/ Rotate(x) \/ CallFails(x)

ProvidersSpec == ProvidersInit /\ [][ProvidersNext]_providerVars

-----------------------------------------------------------------------------
(***************************************************************************)
(* A registration or rotation that met no other one of its provider ends   *)
(* with its wallet, and no other, active - whatever earlier calls that     *)
(* overlapped, or failed half way, have left.                              *)
(***************************************************************************)
UndisturbedCallDecides ==
    [][\A x \in ProviderCalls, p \in ProviderIds :
           /\ LookForWallet(x) \/ InsertWallet(x) \/ CommitRotation(x)
           /\ pcalls[x].provider = p /\ pcalls[x].alone /\ pcalls'[x].at = "idle"
           => ActiveWallets(p)' = {pcalls[x].wallet}]_providerVars

(***************************************************************************)
(* A provider that has had a wallet is without one only while a            *)
(* registration is between its two statements, or after one failed there:  *)
(* overlapping calls may leave it several, never none.                     *)
(***************************************************************************)
WalletlessOnlyHalfway ==
    \A p \in ProviderIds :
        history[p] # <<>> /\ ActiveRows(p) = {} =>
            p \in halfway
            \/ \E x \in ProviderCalls : pcalls[x].provider = p /\ pcalls[x].at \in {"look", "insert"}

=============================================================================

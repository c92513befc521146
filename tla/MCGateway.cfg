SPECIFICATION GatewaySpec
CONSTANTS
    p1 = p1
    w1 = w1
    w2 = w2
    c1 = c1
    c2 = c2
    b1 = b1
    b2 = b2
    t1 = t1
    t2 = t2
    r1 = r1
    r2 = r2
    ProviderIds = {p1}
    Wallets = {w1, w2}
    ProviderCalls = {c1, c2}
    NoWallet = NoWallet
    MaxRows = 4
    Batches = {b1, b2}
    Events <- BatchEvents
    UsageRequests = {r1, r2}
    TelemetryCalls = {t1, t2}
    NoProvider = NoProvider
    NoBatch = NoBatch
    Own = Own
    small = small
    large = large
    NoPing = NoPing
    PricedModels = {small, large}
    Base <- BasePrices
    Overrides <- ModelPrices
    InputTokens = {5, 155}
    MaxTokens = {0, 100, 300, 3000, 7000}
    AnswerTokens = {0, 64, 255, 300, 1001}
    Word = 131072
    RouteNodes = {1, 2, 3}
    Reports <- FewReports
    PingTimes = {0, 2, 3}
    Failovers = 1
    alice = alice
    bob = bob
    pay1 = pay1
    pay2 = pay2
    NoRow = NoRow
    Consumers <- MCConsumers
    Requests = {r1, r2}
    Fingerprints <- MCFingerprints
    PaymentOf <- MCPaymentOf
    Amounts = {0, 2}
    Charges = {1, 3}
    MaxEntries = 6
INVARIANTS
    LedgerChains
    Conservation
    LedgerExplainsReservations
    TopupCreditedOnce
    ChargeIsExact
    HoldCoversAnswer
    RankFollowsKeys
    FastestFirst
    WalletlessOnlyHalfway
    DroppedOnlyByFailure
PROPERTIES
    SettledForever
    UndisturbedCallDecides
    StoresWhole
    EveryBatchIsAnswered
CHECK_DEADLOCK FALSE

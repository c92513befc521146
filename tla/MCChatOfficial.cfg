SPECIFICATION FairSpec
CONSTANTS
    alice = alice
    unary = unary
    stream = stream
    NoRow = NoRow
    Requests <- AllRequests
    Owner <- PrepaidCallers
    Streams <- StreamOnly
    Official = TRUE
    Paywall = FALSE
    LocalBackend = TRUE
    MaxRemoteRetries = 1
    HoldFor <- Holds
    Costs = {1, 3}
    InputCost = 1
    Faults = {"disconnect", "crash"}
    Consumers <- OneConsumer
    Fingerprints = {}
    Amounts = {0, 2, 4}
    Charges = {0, 1, 2}
    PaymentOf <- NoPayments
INVARIANTS
    ChargedOnlyForAnswers
    PaidInFull
    UsageNeverUnderstates
PROPERTIES
    OneReply
    EveryRequestEnds
    OnlyAbandonedHoldsStay
CHECK_DEADLOCK FALSE

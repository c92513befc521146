SPECIFICATION StallSpec
CONSTANTS
    alice = alice
    unary = unary
    stream = stream
    NoRow = NoRow
    Requests <- AllRequests
    Owner <- PrepaidCallers
    Streams <- StreamOnly
    Official = TRUE
    Paywall = FALSE
    LocalBackend = TRUE
    MaxRemoteRetries = 0
    HoldFor <- Holds
    Costs = {1}
    InputCost = 1
    Faults = {}
    Consumers <- OneConsumer
    Fingerprints = {}
    Amounts = {0, 2, 4}
    Charges = {0, 1, 2}
    PaymentOf <- NoPayments
PROPERTIES
    EveryRequestEnds
CHECK_DEADLOCK FALSE

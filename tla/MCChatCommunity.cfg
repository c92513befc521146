SPECIFICATION Spec
CONSTANTS
    alice = alice
    unary = unary
    stream = stream
    NoRow = NoRow
    Requests <- AllRequests
    Owner <- MixedCallers
    Streams <- StreamOnly
    Official = FALSE
    Paywall = TRUE
    LocalBackend = FALSE
    MaxRemoteRetries = 1
    HoldFor <- Holds
    Costs = {1, 3}
    InputCost = 1
    Faults = {"disconnect", "store", "crash"}
    Consumers <- OneConsumer
    Fingerprints = {}
    Amounts = {0, 2, 4}
    Charges = {0, 1, 2}
    PaymentOf <- NoPayments
INVARIANTS
    NoUncoveredRuns
CHECK_DEADLOCK FALSE

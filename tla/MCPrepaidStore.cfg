SPECIFICATION FairSpec
CONSTANTS
    alice = alice
    bob = bob
    pay1 = pay1
    w1 = w1
    w2 = w2
    NoRow = NoRow
    NoWorker = NoWorker
    Workers <- TwoWorkers
    Consumers <- TwoConsumers
    Requests = {r1}
    Fingerprints <- OnePayment
    PaymentOf <- MCPaymentOf
    Amounts = {1}
    Charges = {2}
    MaxEntries = 1
INVARIANTS
    NoStaleRead
    NoDeadlock
PROPERTIES
    KeepsPromise
    EveryCallReturns
CHECK_DEADLOCK FALSE

SPECIFICATION Spec
CONSTANTS
    x1 = x1
    x2 = x2
    x3 = x3
    k1 = k1
    k2 = k2
    k3 = k3
    alice = alice
    bob = bob
    pay1 = pay1
    pay2 = pay2
    tx1 = tx1
    NoKey = NoKey
    NoRow = NoRow
    Calls <- ThreeCalls
    Trusting = {}
    Keys <- ThreeKeys
    Consumers <- BothConsumers
    Payments = {pay1, pay2}
    Deposits = {tx1}
    PaymentOf <- MCPaymentOf
    MaxAttempts = 1
    Faults = {}
SYMMETRY CallSymmetry
INVARIANTS
    DepositCreditedOnce
CHECK_DEADLOCK FALSE

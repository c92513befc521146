-------------------------- MODULE MCPrepaidLedger --------------------------
(***************************************************************************)
(* A small instance of PrepaidLedger: two consumers, two requests, two     *)
(* payment headers (one for each consumer).                                *)
(***************************************************************************)
EXTENDS PrepaidLedger, TLC

CONSTANTS
    alice, bob, pay1, pay2,
    MaxEntries      \* bound: no step makes a ledger longer than this

MCConsumers == {alice, bob}
MCFingerprints == {pay1, pay2}
MCPaymentOf ==
    pay1 :> [payer |-> alice, amount |-> 2] @@ pay2 :> [payer |-> bob, amount |-> 1]

BoundedNext == Next /\ \A c \in Consumers : Len(ledger'[c]) <= MaxEntries

=============================================================================

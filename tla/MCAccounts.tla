----------------------------- MODULE MCAccounts -----------------------------
(***************************************************************************)
(* Small instances of Accounts: three calls, of which those that reach a   *)
(* gateway of one kind are alike, and keys that are alike.                 *)
(***************************************************************************)
EXTENDS Accounts, TLC

CONSTANTS x1, x2, x3, k1, k2, k3, alice, bob, pay1, pay2, tx1

ThreeCalls == {x1, x2, x3}
ThreeKeys == {k1, k2, k3}
BothConsumers == {alice, bob}
MCPaymentOf ==
    pay1 :> [payer |-> alice, amount |-> 2] @@ pay2 :> [payer |-> alice, amount |-> 2]
      @@ tx1 :> [payer |-> alice, amount |-> 3]
CallSymmetry ==
    Permutations(Trusting) \union Permutations(ThreeCalls \ Trusting)
      \union Permutations(ThreeKeys)

=============================================================================

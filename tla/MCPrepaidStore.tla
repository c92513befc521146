--------------------------- MODULE MCPrepaidStore ---------------------------
(***************************************************************************)
(* A small instance of PrepaidStore: two calls at a time, of two consumers *)
(* and about one request and one payment.  Workers are not symmetric,      *)
(* because liveness is checked too.                                        *)
(***************************************************************************)
EXTENDS PrepaidStore, TLC

CONSTANTS alice, bob, pay1, w1, w2

TwoConsumers == {alice, bob}
OnePayment == {pay1}
MCPaymentOf == pay1 :> [payer |-> alice, amount |-> 2]
TwoWorkers == {w1, w2}

=============================================================================

-------------------------- MODULE MCChatCompletion --------------------------
(***************************************************************************)
(* Small instances of ChatCompletion: one unary and one streamed request   *)
(* of the same prepaid consumer, or a prepaid and an x402 caller.          *)
(***************************************************************************)
EXTENDS ChatCompletion, TLC

CONSTANTS alice, unary, stream

AllRequests == {unary, stream}
MixedCallers == (unary :> NoRow) @@ (stream :> alice)
PrepaidCallers == [r \in AllRequests |-> alice]
Holds == [r \in AllRequests |-> 2]
NoPayments == [f \in {} |-> 0]
OneConsumer == {alice}
StreamOnly == {stream}

=============================================================================

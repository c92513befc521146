------------------------------ MODULE MCGateway ------------------------------
(***************************************************************************)
(* What a gateway does beside its chats, on a small instance of each: the  *)
(* operations of the prepaid store, each in one step; two calls of the     *)
(* control API on the wallets of one provider; two batches with the same   *)
(* two requests in opposite orders, of which one names the provider; the   *)
(* prices of two models; the order of up to three nodes.  They share no    *)
(* state, but for wallets and batches the row of a provider, so a          *)
(* behaviour follows one of the five.                                      *)
(***************************************************************************)
EXTENDS Telemetry, Pricing, Routing, MCPrepaidLedger

CONSTANTS p1, w1, w2, c1, c2, b1, b2, t1, t2, r1, r2, small, large
VARIABLE work

BatchEvents == [b \in {b1, b2} |->
    IF b = b1
    THEN <<[request |-> r1, provider |-> NoProvider], [request |-> r2, provider |-> p1]>>
    ELSE <<[request |-> r2, provider |-> NoProvider], [request |-> r1, provider |-> NoProvider]>>]

\* 0.1 micro-USDC a token, 20 at least; the large model costs more and at most 10.
BasePrices == [per1K |-> 100, min |-> 20, max |-> 0, default |-> 256]
ModelPrices == (small :> [per1K |-> 0, min |-> 0, max |-> 0, default |-> 0])
            @@ (large :> [per1K |-> 150, min |-> 0, max |-> 10, default |-> 64])

Figures(load, ttft, tps, latency, uptime, seen) ==
    [load |-> load, ttft |-> ttft, tps |-> tps, latency |-> latency, uptime |-> uptime, seen |-> seen]
FewReports ==
    {Figures(0, 0, 0, 0, 0, 0), Figures(0, 9, 0, 0, 0, 1), Figures(0, 9, 4, 2, 0, 0),
     Figures(0, 9, 5, 2, 1, 0), Figures(1, 8, -1, 2, 0, 0)}

GatewayVars == <<vars, controlVars, priceVars, routeVars, work>>
GatewayInit ==
    /\ Init /\ ControlInit /\ PricingInit /\ RoutingInit
    /\ work \in {"ledger", "wallets", "batches", "prices", "route"}
    /\ work = "prices" \/ priced = CHOOSE q \in Request : TRUE

Heartbeats == \E x \in ProviderCalls : HeartbeatProvider(x) \/ CallFails(x)
ControlWork ==
    \/ work = "wallets" /\ ProvidersNext /\ UNCHANGED telemetryVars
    \/ work = "batches" /\ Heartbeats /\ UNCHANGED telemetryVars
    \/ work = "batches" /\ TelemetryNext /\ UNCHANGED providerVars
GatewayNext ==
    /\ UNCHANGED work
    /\ \/ work = "ledger" /\ BoundedNext /\ UNCHANGED <<controlVars, priceVars, routeVars>>
       \/ ControlWork /\ UNCHANGED <<vars, priceVars, routeVars>>
       \/ work = "prices" /\ PricingNext /\ UNCHANGED <<vars, controlVars, routeVars>>
       \/ work = "route" /\ RoutingNext /\ UNCHANGED <<vars, controlVars, priceVars>>
GatewaySpec == GatewayInit /\ [][GatewayNext]_GatewayVars /\ ControlFairness

=============================================================================

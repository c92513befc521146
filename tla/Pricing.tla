------------------------------- MODULE Pricing -------------------------------
(***************************************************************************)
(* What a chat request costs: the estimate that is held for a prepaid      *)
(* caller, the quote for an x402 caller, and the charge for the tokens the *)
(* answer reports.  Amounts are integers in micro-USDC ("atomic"), and the *)
(* sums and products are those of Go's int64, Word standing for 2^63.      *)
(***************************************************************************)
EXTENDS Integers

CONSTANTS
    PricedModels,
    Base,           \* prices of the gateway: flags of cmd/tooti, with their defaults
    Overrides,      \* model -> its prices in the configuration, 0 for "as the base"
    InputTokens,    \* estimates of estimateInputTokens: at least 5 a message
    MaxTokens,      \* max_tokens of the request, 0 for none
    AnswerTokens,   \* tokens a backend counts, for the prompt or for the answer
    Word

TokenPricing == [per1K : Nat, min : Nat, max : Nat, default : Nat]

\* validateX402ModelPricing: a maximum under the minimum is refused, per override.
ValidModelPricing(p) == p.max > 0 /\ p.min > 0 => p.max >= p.min

ASSUME WordAssumption == Word \in Nat \ {0}
ASSUME BaseAssumption == Base \in TokenPricing /\ Base.per1K > 0 /\ Base.min > 0 /\ Base.default > 0
ASSUME OverridesAssumption ==
    /\ Overrides \in [PricedModels -> TokenPricing]
    /\ \A m \in PricedModels : ValidModelPricing(Overrides[m])
ASSUME TokensAssumption == InputTokens \subseteq Nat /\ MaxTokens \subseteq Nat /\ AnswerTokens \subseteq Nat

VARIABLES
    priced,     \* the request at hand: its model, its input tokens, its max_tokens
    stage,      \* "none", "held", "answered", "charged"
    held,       \* the estimate that is reserved
    quote,      \* the amount an x402 caller would be asked for
    answer,     \* tokens of prompt and answer, and what the charge is told of them
    charge      \* the charge, before the store cuts it to the hold

priceVars == <<priced, stage, held, quote, answer, charge>>

-----------------------------------------------------------------------------
Int64(n) == ((n + Word) % (2 * Word)) - Word
\* Go divides towards zero.
Per1000(n) == IF n >= 0 THEN n \div 1000 ELSE -((-n) \div 1000)

Override(value, base) == IF value > 0 THEN value ELSE base
applyModelPricingOverride(m) ==
    [per1K   |-> Override(Overrides[m].per1K, Base.per1K),
     min     |-> Override(Overrides[m].min, Base.min),
     max     |-> Override(Overrides[m].max, Base.max),
     default |-> Override(Overrides[m].default, Base.default)]

RaisedTo(min, n) == IF min > 0 /\ n < min THEN min ELSE n
CutTo(max, n) == IF max > 0 /\ n > max THEN max ELSE n
AtLeast(low, n) == IF n < low THEN low ELSE n

\* Mutant: the minimum has the last word.
AmountForMinLast(p, tokens) ==
    RaisedTo(p.min, CutTo(p.max,
        Per1000(Int64(Int64(AtLeast(1, Int64(tokens)) * p.per1K) + 999))))

\* The rounding and the limits that both computations have in common.
AmountFor(p, tokens) ==
    CutTo(p.max, RaisedTo(p.min,
        Per1000(Int64(Int64(AtLeast(1, Int64(tokens)) * p.per1K) + 999))))

computePrepaidCharge(m, input, completion) ==
    AmountFor(applyModelPricingOverride(m), input + AtLeast(0, completion))

\* Mutant: max_tokens only counts when the configuration has no default.
defaultPrepaidOutputTokensFirst(m, maxTokens) ==
    Override(applyModelPricingOverride(m).default, AtLeast(256, maxTokens))

defaultPrepaidOutputTokens(m, maxTokens) ==
    AtLeast(Override(applyModelPricingOverride(m).default, 256), maxTokens)

\* An estimate of nothing becomes 0.001 USDC, so that a hold is never empty.
estimatePrepaidReserve(m, input, maxTokens) ==
    LET amount == computePrepaidCharge(m, input, defaultPrepaidOutputTokens(m, maxTokens))
    IN IF amount <= 0 THEN 1000 ELSE amount

computePaymentRequirement(m, input, maxTokens) ==
    LET output == AtLeast(applyModelPricingOverride(m).default, maxTokens)
    IN AtLeast(1, AmountFor(applyModelPricingOverride(m), input + output))

-----------------------------------------------------------------------------
NoAnswer == [prompt |-> 0, output |-> 0, reported |-> 0]
Request == [model : PricedModels, input : InputTokens, maxTokens : MaxTokens]

PricingInit ==
    /\ priced \in Request
    /\ stage = "none"
    /\ held = 0 /\ quote = 0 /\ charge = 0
    /\ answer = NoAnswer

\* beginPrepaidReservation, or enforceChatPayment.
QuoteRequest ==
    /\ stage = "none"
    /\ held' = estimatePrepaidReserve(priced.model, priced.input, priced.maxTokens)
    /\ quote' = computePaymentRequirement(priced.model, priced.input, priced.maxTokens)
    /\ stage' = "held"
    /\ UNCHANGED <<priced, answer, charge>>

\* A provider reports prompt and answer in one number; max_tokens does not reach its backend.
RemoteAnswers ==
    /\ stage = "held"
    /\ \E prompt \in AnswerTokens, output \in AnswerTokens :
           answer' = [prompt |-> prompt, output |-> output, reported |-> prompt + output]
    /\ stage' = "answered"
    /\ UNCHANGED <<priced, held, quote, charge>>

LocalAnswersTokens ==
    /\ stage = "held"
    /\ \E prompt \in AnswerTokens, output \in AnswerTokens :
           answer' = [prompt |-> prompt, output |-> output, reported |-> output]
    /\ stage' = "answered"
    /\ UNCHANGED <<priced, held, quote, charge>>

\* finalizePrepaidReservation; the store cuts the charge to the hold.
ComputeCharge ==
    /\ stage = "answered"
    /\ charge' = computePrepaidCharge(priced.model, priced.input, answer.reported)
    /\ stage' = "charged"
    /\ UNCHANGED <<priced, held, quote, answer>>

NextRequest ==
    /\ stage = "charged"
    /\ priced' \in Request
    /\ stage' = "none" /\ held' = 0 /\ quote' = 0 /\ charge' = 0 /\ answer' = NoAnswer

PricingNext == QuoteRequest \/ RemoteAnswers \/ LocalAnswersTokens \/ ComputeCharge \/ NextRequest
PricingSpec == PricingInit /\ [][PricingNext]_priceVars

-----------------------------------------------------------------------------
(***************************************************************************)
(* Whatever wraps around on the way, a hold, a quote and the charge of an  *)
(* answer are amounts above zero: no request is free.                      *)
(***************************************************************************)
PricingTypeOK ==
    /\ priced \in Request
    /\ stage \in {"none", "held", "answered", "charged"}
    /\ answer \in [prompt : Nat, output : Nat, reported : Nat]
    /\ held \in Nat /\ quote \in Nat /\ charge \in Nat
    /\ stage # "none" => held > 0 /\ quote > 0
    /\ stage = "charged" => charge > 0

PriceOf(m) == applyModelPricingOverride(m)
\* The tokens of an answer that the request is quoted for.
Promised == AtLeast(PriceOf(priced.model).default, priced.maxTokens)
\* The request is not so long, nor so dear, that the product leaves int64.
Fits(tokens) == tokens < Word /\ tokens * PriceOf(priced.model).per1K + 999 < Word

\* The least amount that pays for the tokens at the price, within the limits.
IsPriceOf(amount, m, tokens) ==
    LET cost == tokens * PriceOf(m).per1K IN
    \E exact \in 0..cost :
        /\ exact * 1000 >= cost /\ (exact - 1) * 1000 < cost
        /\ amount = CutTo(PriceOf(m).max, RaisedTo(PriceOf(m).min, exact))

(***************************************************************************)
(* A request is charged the least amount that pays for the tokens at the   *)
(* price per thousand, raised to the minimum, cut to the maximum - which   *)
(* wins when a model's maximum is under the gateway's minimum.             *)
(***************************************************************************)
ChargeIsExact ==
    LET tokens == priced.input + answer.reported IN
    stage = "charged" /\ tokens > 0 /\ Fits(tokens) => IsPriceOf(charge, priced.model, tokens)

(***************************************************************************)
(* What is held covers every answer up to max_tokens, or to the default:   *)
(* the store has nothing to cut from the charge.                           *)
(***************************************************************************)
HoldCoversAnswer ==
    stage = "charged" /\ answer.reported <= Promised /\ Fits(priced.input + Promised)
        => charge <= held

(***************************************************************************)
(* The two copies of the computation agree: given the same prices, an x402 *)
(* caller is asked for what a prepaid caller has to have.                  *)
(***************************************************************************)
QuoteIsHold == stage # "none" => quote = held

(***************************************************************************)
(* "completionTokens must be output tokens only (input is estimated inside *)
(* computePrepaidChargeUSDC)."                                             *)
(***************************************************************************)
InputChargedOnce == stage # "none" => answer.reported <= answer.output

=============================================================================

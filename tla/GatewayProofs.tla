----------------------------- MODULE GatewayProofs -----------------------------
(***************************************************************************)
(* What a gateway charges and in which order it tries providers, proved    *)
(* for any prices, token counts, health figures and pings.                 *)
(***************************************************************************)
EXTENDS Pricing, Routing, FiniteSetTheorems, TLAPS

-----------------------------------------------------------------------------
(***************************************************************************)
(* The int64 arithmetic of a price.                                        *)
(***************************************************************************)
LEMMA Int64IsInt == \A n \in Int : Int64(n) \in Int
BY WordAssumption DEF Int64

LEMMA Int64Exact ==
    ASSUME NEW n \in Int, 0 <= n, n < Word
    PROVE  Int64(n) = n
<1>1. (n + Word) % (2 * Word) = n + Word
  BY WordAssumption
<1>. QED
  BY <1>1, WordAssumption DEF Int64

\* What an amount is before the limits are applied.
Unlimited(per1K, tokens) == Per1000(Int64(Int64(AtLeast(1, Int64(tokens)) * per1K) + 999))

LEMMA UnlimitedIsInt ==
    ASSUME NEW per1K \in Nat, NEW tokens \in Int
    PROVE  Unlimited(per1K, tokens) \in Int
<1>1. AtLeast(1, Int64(tokens)) \in Int
  BY Int64IsInt DEF AtLeast
<1>2. AtLeast(1, Int64(tokens)) * per1K \in Int
  BY <1>1
<1>. DEFINE product == Int64(AtLeast(1, Int64(tokens)) * per1K)
<1>3. product \in Int
  BY <1>2, Int64IsInt
<1>. HIDE DEF product
<1>4. Int64(product + 999) \in Int
  BY <1>3, Int64IsInt
<1>. DEFINE sum == Int64(product + 999)
<1>. HIDE DEF sum
<1>5. Per1000(sum) \in Int
  BY <1>4 DEF Per1000, sum
<1>. QED
  BY <1>5 DEF Unlimited, sum, product

\* Nothing wraps around as long as the product fits.
LEMMA UnlimitedExact ==
    ASSUME NEW per1K \in Nat, per1K > 0, NEW tokens \in Nat, tokens > 0,
           tokens < Word, tokens * per1K + 999 < Word
    PROVE  /\ Unlimited(per1K, tokens) = (tokens * per1K + 999) \div 1000
           /\ tokens * per1K \in Nat /\ tokens * per1K > 0
<1>1. Int64(tokens) = tokens
  BY Int64Exact
<1>2. AtLeast(1, tokens) = tokens
  BY DEF AtLeast
<1>3. tokens * per1K \in Nat /\ tokens * per1K > 0
  OBVIOUS
<1>. DEFINE product == tokens * per1K
<1>4. product \in Nat /\ product + 999 < Word
  BY <1>3
<1>. HIDE DEF product
<1>5. Int64(product) = product /\ Int64(product + 999) = product + 999
  BY <1>4, Int64Exact, WordAssumption
<1>6. Per1000(product + 999) = (product + 999) \div 1000
  BY <1>4 DEF Per1000
<1>. QED
  BY <1>1, <1>2, <1>3, <1>5, <1>6 DEF Unlimited, product

\* The prices of a model: a price, a minimum and a default there always are.
LEMMA PricesAreSet ==
    ASSUME NEW m \in PricedModels
    PROVE  /\ applyModelPricingOverride(m) \in TokenPricing
           /\ applyModelPricingOverride(m).per1K > 0
           /\ applyModelPricingOverride(m).min > 0
           /\ applyModelPricingOverride(m).default > 0
<1>1. Overrides[m] \in TokenPricing /\ Base \in TokenPricing
      /\ Base.per1K > 0 /\ Base.min > 0 /\ Base.default > 0
  BY BaseAssumption, OverridesAssumption
<1>. QED
  BY <1>1 DEF applyModelPricingOverride, Override, TokenPricing

LEMMA AmountIsLimited ==
    ASSUME NEW p, NEW tokens
    PROVE  AmountFor(p, tokens) = CutTo(p.max, RaisedTo(p.min, Unlimited(p.per1K, tokens)))
BY DEF AmountFor, Unlimited

\* Whatever wraps around: an amount is above zero.
LEMMA AmountAboveZero ==
    ASSUME NEW m \in PricedModels, NEW tokens \in Int
    PROVE  /\ AmountFor(applyModelPricingOverride(m), tokens) \in Nat
           /\ AmountFor(applyModelPricingOverride(m), tokens) > 0
<1>. DEFINE p == applyModelPricingOverride(m)
<1>1. p.per1K \in Nat /\ p.min \in Nat /\ p.max \in Nat /\ p.min > 0
  BY PricesAreSet DEF TokenPricing
<1>. HIDE DEF p
<1>. DEFINE u == Unlimited(p.per1K, tokens)
<1>2. u \in Int
  BY <1>1, UnlimitedIsInt
<1>. HIDE DEF u
<1>3. CutTo(p.max, RaisedTo(p.min, u)) \in Nat /\ CutTo(p.max, RaisedTo(p.min, u)) > 0
  BY <1>1, <1>2 DEF CutTo, RaisedTo
<1>. QED
  BY <1>3, AmountIsLimited DEF p, u

LEMMA ProductGrows ==
    ASSUME NEW k \in Nat, NEW few \in Nat, NEW many \in Nat, few <= many
    PROVE  few * k <= many * k
<1>1. PICK d \in Nat : many = few + d
  <2>1. many - few \in Nat /\ many = few + (many - few)
    OBVIOUS
  <2>. QED
    BY <2>1
<1>2. many * k = few * k + d * k
  BY <1>1
<1>3. few * k \in Nat /\ d * k \in Nat
  OBVIOUS
<1>. QED
  BY <1>2, <1>3

\* More tokens never cost less, as long as they fit.
LEMMA AmountGrows ==
    ASSUME NEW m \in PricedModels, NEW few \in Nat, NEW many \in Nat, few > 0, few <= many,
           many < Word, many * applyModelPricingOverride(m).per1K + 999 < Word
    PROVE  AmountFor(applyModelPricingOverride(m), few) <= AmountFor(applyModelPricingOverride(m), many)
<1>. DEFINE p == applyModelPricingOverride(m)
<1>1. p.per1K \in Nat /\ p.min \in Nat /\ p.max \in Nat /\ p.per1K > 0 /\ p.min > 0
  BY PricesAreSet DEF TokenPricing
<1>2. many * p.per1K + 999 < Word
  OBVIOUS
<1>. HIDE DEF p
<1>3. few * p.per1K <= many * p.per1K
  BY <1>1, ProductGrows
<1>. DEFINE small == few * p.per1K
            large == many * p.per1K
<1>4. small \in Nat /\ large \in Nat
  BY <1>1
<1>5. small + 999 < Word /\ few < Word /\ Word \in Nat
  <2>1. small <= large /\ large + 999 < Word
    BY <1>2, <1>3
  <2>. HIDE DEF small, large
  <2>. QED
    BY <2>1, <1>4, WordAssumption
<1>6. Unlimited(p.per1K, few) = (small + 999) \div 1000
      /\ Unlimited(p.per1K, many) = (large + 999) \div 1000
  BY <1>1, <1>2, <1>5, UnlimitedExact
<1>7. small <= large
  BY <1>3
<1>. HIDE DEF small, large
<1>. DEFINE u == (small + 999) \div 1000
            v == (large + 999) \div 1000
<1>8. u <= v /\ u \in Int /\ v \in Int
  BY <1>4, <1>7
<1>. HIDE DEF u, v
<1>9. CutTo(p.max, RaisedTo(p.min, u)) <= CutTo(p.max, RaisedTo(p.min, v))
  BY <1>1, <1>8 DEF CutTo, RaisedTo
<1>. QED
  BY <1>6, <1>9, AmountIsLimited DEF p, u, v

\* Nothing costs as much as one token.
LEMMA NothingCostsOne ==
    ASSUME NEW p, Word > 1
    PROVE  AmountFor(p, 0) = AmountFor(p, 1)
<1>1. Int64(0) = 0 /\ Int64(1) = 1
  BY Int64Exact, WordAssumption
<1>2. AtLeast(1, 0) = 1 /\ AtLeast(1, 1) = 1
  BY DEF AtLeast
<1>. QED
  BY <1>1, <1>2 DEF AmountFor

-----------------------------------------------------------------------------
(***************************************************************************)
(* Hold, quote and charge: what each of them is an amount for.             *)
(***************************************************************************)
QuotedTokens(q) == q.input + AtLeast(applyModelPricingOverride(q.model).default, q.maxTokens)

PricingInv ==
    /\ PricingTypeOK
    /\ stage # "none" =>
        held = AmountFor(applyModelPricingOverride(priced.model), QuotedTokens(priced)) /\ quote = held
    /\ stage = "charged" =>
        charge = AmountFor(applyModelPricingOverride(priced.model), priced.input + answer.reported)

LEMMA RequestHasTokens ==
    ASSUME NEW q \in Request
    PROVE  /\ q.model \in PricedModels /\ q.input \in Nat /\ q.maxTokens \in Nat
           /\ applyModelPricingOverride(q.model).default \in Nat
           /\ applyModelPricingOverride(q.model).default > 0
           /\ AtLeast(applyModelPricingOverride(q.model).default, q.maxTokens) \in Nat
           /\ AtLeast(applyModelPricingOverride(q.model).default, q.maxTokens) > 0
           /\ QuotedTokens(q) \in Nat /\ QuotedTokens(q) > 0
<1>1. q.model \in PricedModels /\ q.input \in Nat /\ q.maxTokens \in Nat
  BY TokensAssumption DEF Request
<1>2. applyModelPricingOverride(q.model).default \in Nat /\ applyModelPricingOverride(q.model).default > 0
  BY <1>1, PricesAreSet DEF TokenPricing
<1>. QED
  BY <1>1, <1>2 DEF AtLeast, QuotedTokens

\* Hold and quote are the amount for the same tokens, though computed apart.
LEMMA HoldAndQuote ==
    ASSUME NEW q \in Request
    PROVE  LET amount == AmountFor(applyModelPricingOverride(q.model), QuotedTokens(q)) IN
           /\ estimatePrepaidReserve(q.model, q.input, q.maxTokens) = amount
           /\ computePaymentRequirement(q.model, q.input, q.maxTokens) = amount
           /\ amount \in Nat /\ amount > 0
<1>. DEFINE d == applyModelPricingOverride(q.model).default
            amount == AmountFor(applyModelPricingOverride(q.model), QuotedTokens(q))
<1>1. q.maxTokens \in Nat /\ d \in Nat /\ d > 0 /\ AtLeast(d, q.maxTokens) \in Nat
  BY RequestHasTokens
<1>2. amount \in Nat /\ amount > 0
  <2>1. q.model \in PricedModels /\ QuotedTokens(q) \in Int
    BY RequestHasTokens
  <2>. QED
    BY <2>1, AmountAboveZero
<1>3. defaultPrepaidOutputTokens(q.model, q.maxTokens) = AtLeast(d, q.maxTokens)
  BY <1>1 DEF defaultPrepaidOutputTokens, Override
<1>4. AtLeast(0, AtLeast(d, q.maxTokens)) = AtLeast(d, q.maxTokens)
  BY <1>1 DEF AtLeast
<1>5. computePrepaidCharge(q.model, q.input, AtLeast(d, q.maxTokens)) = amount
  BY <1>4 DEF computePrepaidCharge, QuotedTokens
<1>6. computePaymentRequirement(q.model, q.input, q.maxTokens) = AtLeast(1, amount)
  BY DEF computePaymentRequirement, QuotedTokens
<1>. HIDE DEF amount
<1>7. AtLeast(1, amount) = amount /\ ~(amount <= 0)
  BY <1>2 DEF AtLeast
<1>8. estimatePrepaidReserve(q.model, q.input, q.maxTokens) = amount
  BY <1>3, <1>5, <1>7 DEF estimatePrepaidReserve
<1>. QED
  BY <1>2, <1>6, <1>7, <1>8 DEF amount

LEMMA PricingInitInv == PricingInit => PricingInv
BY DEF PricingInit, PricingInv, PricingTypeOK, NoAnswer

LEMMA PricingStepInv == PricingInv /\ [PricingNext]_priceVars => PricingInv'
<1>. SUFFICES ASSUME PricingInv, [PricingNext]_priceVars
              PROVE  PricingInv'
  OBVIOUS
<1>. USE DEF PricingInv
<1>1. CASE QuoteRequest
  <2>1. priced' = priced /\ priced \in Request /\ stage' = "held" /\ answer' = answer /\ charge' = charge
    BY <1>1 DEF QuoteRequest, PricingTypeOK
  <2>2. held' = AmountFor(applyModelPricingOverride(priced.model), QuotedTokens(priced))
        /\ quote' = held' /\ held' \in Nat /\ held' > 0
    BY <1>1, <2>1, HoldAndQuote DEF QuoteRequest
  <2>. QED
    BY <2>1, <2>2 DEF PricingTypeOK
<1>2. CASE RemoteAnswers
  <2>1. answer' \in [prompt : Nat, output : Nat, reported : Nat]
    <3>1. PICK prompt \in AnswerTokens, output \in AnswerTokens :
             answer' = [prompt |-> prompt, output |-> output, reported |-> prompt + output]
      BY <1>2 DEF RemoteAnswers
    <3>2. prompt \in Nat /\ output \in Nat /\ prompt + output \in Nat
      BY TokensAssumption
    <3>. QED
      BY <3>1, <3>2
  <2>. QED
    BY <1>2, <2>1 DEF RemoteAnswers, PricingTypeOK
<1>3. CASE LocalAnswersTokens
  <2>1. answer' \in [prompt : Nat, output : Nat, reported : Nat]
    BY <1>3, TokensAssumption DEF LocalAnswersTokens
  <2>. QED
    BY <1>3, <2>1 DEF LocalAnswersTokens, PricingTypeOK
<1>4. CASE ComputeCharge
  <2>1. priced.model \in PricedModels /\ priced.input \in Nat /\ answer.reported \in Nat
    BY RequestHasTokens DEF PricingTypeOK
  <2>2. AtLeast(0, answer.reported) = answer.reported /\ priced.input + answer.reported \in Int
    BY <2>1 DEF AtLeast
  <2>3. charge' = AmountFor(applyModelPricingOverride(priced.model), priced.input + answer.reported)
    BY <1>4, <2>2 DEF ComputeCharge, computePrepaidCharge
  <2>4. charge' \in Nat /\ charge' > 0
    BY <2>1, <2>2, <2>3, AmountAboveZero
  <2>. QED
    BY <1>4, <2>3, <2>4 DEF ComputeCharge, PricingTypeOK
<1>5. CASE NextRequest
  BY <1>5 DEF NextRequest, PricingTypeOK, NoAnswer
<1>6. CASE UNCHANGED priceVars
  BY <1>6 DEF priceVars, PricingTypeOK
<1>. QED
  BY <1>1, <1>2, <1>3, <1>4, <1>5, <1>6 DEF PricingNext

LEMMA ExactCharge == PricingInv => ChargeIsExact
<1>. SUFFICES ASSUME PricingInv, stage = "charged", priced.input + answer.reported > 0,
                     Fits(priced.input + answer.reported)
              PROVE  IsPriceOf(charge, priced.model, priced.input + answer.reported)
  BY DEF ChargeIsExact
<1>. DEFINE p == applyModelPricingOverride(priced.model)
            tokens == priced.input + answer.reported
            cost == tokens * p.per1K
            exact == (cost + 999) \div 1000
<1>1. priced \in Request /\ answer.reported \in Nat
  BY DEF PricingInv, PricingTypeOK
<1>2. priced.model \in PricedModels /\ tokens \in Nat /\ tokens > 0
  BY <1>1, RequestHasTokens
<1>3. p.per1K \in Nat /\ p.per1K > 0
  BY <1>2, PricesAreSet DEF TokenPricing
<1>4. tokens < Word /\ cost + 999 < Word
  BY DEF Fits, PriceOf
<1>5. charge = AmountFor(p, tokens)
  BY DEF PricingInv
<1>. HIDE DEF p, tokens
<1>6. Unlimited(p.per1K, tokens) = exact /\ cost \in Nat /\ cost > 0
  BY <1>2, <1>3, <1>4, UnlimitedExact
<1>7. charge = CutTo(p.max, RaisedTo(p.min, exact))
  BY <1>5, <1>6, AmountIsLimited
<1>. HIDE DEF cost
<1>8. exact \in 0..cost /\ exact * 1000 >= cost /\ (exact - 1) * 1000 < cost
  BY <1>6
<1>. HIDE DEF exact
<1>. QED
  BY <1>7, <1>8 DEF IsPriceOf, PriceOf, p, tokens, cost

LEMMA CoveringHold == PricingInv => HoldCoversAnswer
<1>. SUFFICES ASSUME PricingInv, stage = "charged", answer.reported <= Promised,
                     Fits(priced.input + Promised)
              PROVE  charge <= held
  BY DEF HoldCoversAnswer
<1>. DEFINE p == applyModelPricingOverride(priced.model)
            few == priced.input + answer.reported
            many == QuotedTokens(priced)
<1>1. priced \in Request /\ answer.reported \in Nat
  BY DEF PricingInv, PricingTypeOK
<1>2. many = priced.input + Promised
  BY DEF Promised, PriceOf, QuotedTokens
<1>3. priced.model \in PricedModels /\ priced.input \in Nat /\ many \in Nat /\ many > 0 /\ Promised \in Nat
  BY <1>1, RequestHasTokens DEF Promised, PriceOf
<1>4. few \in Nat /\ few <= many
  BY <1>1, <1>2, <1>3
<1>5. many < Word /\ many * p.per1K + 999 < Word
  BY <1>2 DEF Fits, PriceOf
<1>6. held = AmountFor(p, many) /\ charge = AmountFor(p, few)
  BY DEF PricingInv
<1>. HIDE DEF few, many
<1>7. CASE few > 0
  BY <1>3, <1>4, <1>5, <1>6, <1>7, AmountGrows
<1>8. CASE few = 0
  <2>1. Word > 1 /\ 1 <= many
    BY <1>3, <1>5, WordAssumption
  <2>2. AmountFor(p, 0) = AmountFor(p, 1)
    BY <2>1, NothingCostsOne
  <2>3. AmountFor(p, 1) <= AmountFor(p, many)
    BY <1>3, <1>5, <2>1, AmountGrows
  <2>. QED
    BY <1>6, <1>8, <2>2, <2>3
<1>. QED
  BY <1>4, <1>7, <1>8

(***************************************************************************)
(* For any prices, tokens and word length: a charge is the least amount    *)
(* that pays for its tokens, within the limits, a hold covers every answer *)
(* it was computed for, an x402 caller is asked for what a prepaid caller  *)
(* has to have, and none of the three amounts is ever zero.  The first two *)
(* only when the product stays in int64.                                   *)
(***************************************************************************)
THEOREM PricesCorrect ==
    PricingSpec => [](PricingTypeOK /\ ChargeIsExact /\ HoldCoversAnswer /\ QuoteIsHold)
<1>1. PricingInv => PricingTypeOK /\ ChargeIsExact /\ HoldCoversAnswer /\ QuoteIsHold
  BY ExactCharge, CoveringHold DEF PricingInv, QuoteIsHold
<1>. QED
  BY PricingInitInv, PricingStepInv, <1>1, PTL DEF PricingSpec

-----------------------------------------------------------------------------
(***************************************************************************)
(* Orders of candidates.                                                   *)
(***************************************************************************)
\* An order of a finite set has each of its members at some place.
LEMMA OrderHasEveryone ==
    ASSUME NEW S, IsFiniteSet(S), NEW q \in Orders(S)
    PROVE  /\ DOMAIN q = 1..Cardinality(S)
           /\ Cardinality(DOMAIN q) = Cardinality(S)
           /\ Cardinality(S) \in Nat
           /\ \A n \in S : \E i \in 1..Cardinality(S) : q[i] = n
<1>1. Cardinality(S) \in Nat
  BY FS_CardinalityType
<1>. DEFINE D == 1..Cardinality(S)
<1>2. IsFiniteSet(D) /\ Cardinality(D) = Cardinality(S)
  BY <1>1, FS_Interval
<1>. HIDE DEF D
<1>3. q \in [D -> S] /\ \A i, j \in D : i # j => q[i] # q[j]
  BY DEF Orders, D
<1>4. q \in Injection(D, S)
  BY <1>3 DEF Injection, IsInjective
<1>5. q \in Surjection(D, S)
  BY <1>2, <1>4, FS_Injection
<1>6. \A n \in S : \E i \in D : q[i] = n
  BY <1>5 DEF Surjection
<1>. QED
  BY <1>1, <1>2, <1>3, <1>6 DEF D

\* Sorting gives an order of the same nodes.
LEMMA SortedAreOrders ==
    /\ \A rep : RankedOrders(rep) \subseteq Orders(DOMAIN rep)
    /\ \A rep, ps : PingedOrders(rep, ps) \subseteq Orders(DOMAIN rep)
BY DEF RankedOrders, PingedOrders

\* The smaller of two records with eight keys, by the first key in which they differ.
LEMMA FirstDifference ==
    ASSUME NEW u, NEW v, NEW k \in 1..8, u[k] < v[k],
           k > 1 => u[1] = v[1], k > 2 => u[2] = v[2], k > 3 => u[3] = v[3], k > 4 => u[4] = v[4],
           k > 5 => u[5] = v[5], k > 6 => u[6] = v[6], k > 7 => u[7] = v[7]
    PROVE  \E m \in 1..8 : u[m] < v[m] /\ \A l \in 1..(m - 1) : u[l] = v[l]
<1>1. ASSUME NEW l \in 1..(k - 1)
      PROVE  u[l] = v[l]
  <2>1. l = 1 \/ l = 2 \/ l = 3 \/ l = 4 \/ l = 5 \/ l = 6 \/ l = 7
    BY <1>1
  <2>2. k > l
    BY <1>1
  <2>. QED
    BY <2>1, <2>2
<1>. QED
  BY <1>1

\* The nine comparisons of the ranking find the first key that differs.
LEMMA RankIsLexicographic ==
    ASSUME NEW a \in Candidates, NEW b \in Candidates, Candidates \subseteq Nat,
           report[a] \in HealthReport, report[b] \in HealthReport,
           RanksBefore(report[a], report[b], a, b)
    PROVE  \E k \in 1..8 : /\ Keys(a)[k] < Keys(b)[k]
                           /\ \A l \in 1..(k - 1) : Keys(a)[l] = Keys(b)[l]
<1>. DEFINE x == report[a]
            y == report[b]
            u == Keys(a)
            v == Keys(b)
<1>1. /\ x.load \in Int /\ x.ttft \in Int /\ x.tps \in Int
      /\ x.latency \in Int /\ x.uptime \in Int /\ x.seen \in Int
      /\ y.load \in Int /\ y.ttft \in Int /\ y.tps \in Int
      /\ y.latency \in Int /\ y.uptime \in Int /\ y.seen \in Int
      /\ a \in Int /\ b \in Int
  BY DEF HealthReport
<1>2. /\ u[1] = x.load /\ u[2] = (IF x.ttft > 0 THEN 0 ELSE 1)
      /\ u[3] = (IF x.ttft > 0 THEN x.ttft ELSE 0) /\ u[4] = (IF x.tps > 0 THEN -x.tps ELSE 0)
      /\ u[5] = x.latency /\ u[6] = -x.uptime /\ u[7] = -x.seen /\ u[8] = a
  BY DEF Keys
<1>3. /\ v[1] = y.load /\ v[2] = (IF y.ttft > 0 THEN 0 ELSE 1)
      /\ v[3] = (IF y.ttft > 0 THEN y.ttft ELSE 0) /\ v[4] = (IF y.tps > 0 THEN -y.tps ELSE 0)
      /\ v[5] = y.latency /\ v[6] = -y.uptime /\ v[7] = -y.seen /\ v[8] = b
  BY DEF Keys
<1>4. RanksBefore(x, y, a, b)
  OBVIOUS
<1>. HIDE DEF x, y, u, v
<1>. DEFINE Same(k) == u[k] = v[k]
<1>5. \/ u[1] < v[1]
      \/ Same(1) /\ u[2] < v[2]
      \/ Same(1) /\ Same(2) /\ u[3] < v[3]
      \/ Same(1) /\ Same(2) /\ Same(3) /\ u[4] < v[4]
      \/ Same(1) /\ Same(2) /\ Same(3) /\ Same(4) /\ u[5] < v[5]
      \/ Same(1) /\ Same(2) /\ Same(3) /\ Same(4) /\ Same(5) /\ u[6] < v[6]
      \/ Same(1) /\ Same(2) /\ Same(3) /\ Same(4) /\ Same(5) /\ Same(6) /\ u[7] < v[7]
      \/ Same(1) /\ Same(2) /\ Same(3) /\ Same(4) /\ Same(5) /\ Same(6) /\ Same(7) /\ u[8] < v[8]
  BY <1>1, <1>2, <1>3, <1>4 DEF RanksBefore
<1>6. \E k \in 1..8 : /\ u[k] < v[k]
                      /\ k > 1 => Same(1)
                      /\ k > 2 => Same(2)
                      /\ k > 3 => Same(3)
                      /\ k > 4 => Same(4)
                      /\ k > 5 => Same(5)
                      /\ k > 6 => Same(6)
                      /\ k > 7 => Same(7)
  BY <1>5
<1>7. \E k \in 1..8 : u[k] < v[k] /\ \A l \in 1..(k - 1) : u[l] = v[l]
  BY <1>6, FirstDifference
<1>. QED
  BY <1>7 DEF u, v

-----------------------------------------------------------------------------
(***************************************************************************)
(* The invariant of a request's way through the candidates: what was tried *)
(* is a prefix of the order at hand, which is the ranking until the pings  *)
(* are in, and then, unless there was nothing to ping, the order of pings. *)
(***************************************************************************)
TriedInOrder == \A i \in DOMAIN tried : i \in 1..Cardinality(Candidates) /\ tried[i] = order[i]

Sorted ==
    /\ place = "pinging" => order \in RankedOrders(report)
    /\ place \in {"trying", "answered", "exhausted"} =>
        \/ Pinged = Candidates /\ order \in PingedOrders(report, pings)
        \/ Pinged = {} /\ Cardinality(Candidates) < 2

RoutingInv ==
    /\ RoutingTypeOK
    /\ TriedInOrder
    /\ place \in {"new", "pinging"} => tried = << >>
    /\ place = "new" => pings = << >>
    /\ Len(tried) <= Failovers + 1
    /\ Sorted
    /\ place = "exhausted" => ~More

LEMMA CandidatesAreNodes ==
    ASSUME RoutingTypeOK
    PROVE  /\ Candidates \subseteq RouteNodes /\ Candidates \subseteq Nat /\ IsFiniteSet(Candidates)
           /\ \A n \in Candidates : report[n] \in HealthReport
<1>1. PICK S \in SUBSET RouteNodes : report \in [S -> Reports]
  BY DEF RoutingTypeOK
<1>2. Candidates = S
  BY <1>1 DEF Candidates
<1>3. IsFiniteSet(S)
  BY RouteNodesAssumption, FS_Subset
<1>. QED
  BY <1>1, <1>2, <1>3, RouteNodesAssumption, ReportsAssumption

LEMMA RoutingInitInv == RoutingInit => RoutingInv
<1>. SUFFICES ASSUME RoutingInit
              PROVE  RoutingInv
  OBVIOUS
<1>1. /\ report = << >> /\ order = << >> /\ pings = << >> /\ tried = << >> /\ place = "new"
  BY DEF RoutingInit
<1>2. Candidates = {} /\ Pinged = {} /\ DOMAIN tried = {} /\ Cardinality({}) = 0
  BY <1>1, FS_EmptySet DEF Candidates, Pinged
<1>3. report \in [{} -> Reports]
  BY <1>1
<1>4. order \in Orders({})
  <2>1. 1..Cardinality({}) = {}
    BY <1>2
  <2>2. order \in [{} -> {}] /\ DOMAIN order = {}
    BY <1>1
  <2>. QED
    BY <2>1, <2>2 DEF Orders
<1>5. tried \in Seq(RouteNodes) /\ Len(tried) = 0
  BY <1>1
<1>6. RoutingTypeOK
  BY <1>1, <1>2, <1>3, <1>4, <1>5 DEF RoutingTypeOK
<1>. QED
  BY <1>1, <1>2, <1>5, <1>6, FailoversAssumption DEF RoutingInv, TriedInOrder, Sorted

LEMMA RankCandidatesInv ==
    ASSUME RoutingInv, RankCandidates
    PROVE  RoutingInv'
<1>1. PICK S \in SUBSET RouteNodes : \E rep \in [S -> Reports] : report' = rep /\ order' \in RankedOrders(rep)
  BY DEF RankCandidates
<1>2. report' \in [S -> Reports] /\ order' \in RankedOrders(report')
  BY <1>1
<1>3. pings' = << >> /\ tried' = << >> /\ place' = IF Cardinality(DOMAIN report') < 2 THEN "trying" ELSE "pinging"
  BY DEF RankCandidates, RoutingInv
<1>4. Pinged' = {} /\ DOMAIN tried' = {} /\ Len(tried') = 0 /\ tried' \in Seq(RouteNodes)
  BY <1>3 DEF Pinged
<1>5. order' \in Orders(Candidates')
  BY <1>2, SortedAreOrders DEF Candidates
<1>6. place' \in {"trying", "pinging"} /\ (place' = "trying" => Cardinality(Candidates') < 2)
  BY <1>3 DEF Candidates
<1>7. RoutingTypeOK'
  BY <1>2, <1>4, <1>5, <1>6 DEF RoutingTypeOK
<1>. QED
  BY <1>2, <1>3, <1>4, <1>6, <1>7, FailoversAssumption DEF RoutingInv, TriedInOrder, Sorted

LEMMA PingNodeInv ==
    ASSUME RoutingInv, PingNode
    PROVE  RoutingInv'
<1>1. UNCHANGED <<report, order, place, tried>> /\ place = "pinging"
  BY DEF PingNode
<1>2. PICK i \in DOMAIN order : \E p \in PingTimes \union {NoPing} :
        pings' = [n \in Pinged \union {order[i]} |-> IF n = order[i] THEN p ELSE pings[n]]
  BY DEF PingNode
<1>3. PICK p \in PingTimes \union {NoPing} :
        pings' = [n \in Pinged \union {order[i]} |-> IF n = order[i] THEN p ELSE pings[n]]
  BY <1>2
<1>4. order[i] \in Candidates
  BY DEF RoutingInv, RoutingTypeOK, Orders
<1>5. Pinged' = Pinged \union {order[i]}
  BY <1>3 DEF Pinged
<1>6. Pinged' \subseteq Candidates' /\ \A n \in Pinged' : pings'[n] \in PingTimes \union {NoPing}
  BY <1>1, <1>3, <1>4, <1>5 DEF RoutingInv, RoutingTypeOK, Candidates
<1>7. RoutingTypeOK'
  BY <1>1, <1>6 DEF RoutingInv, RoutingTypeOK, Candidates
<1>. QED
  BY <1>1, <1>7 DEF RoutingInv, TriedInOrder, Sorted, Candidates

LEMMA ReorderByPingInv ==
    ASSUME RoutingInv, ReorderByPing
    PROVE  RoutingInv'
<1>1. /\ UNCHANGED <<report, pings, tried>> /\ Pinged = Candidates
      /\ place' = "trying" /\ tried = << >> /\ order' \in PingedOrders(report, pings)
  BY DEF ReorderByPing, RoutingInv
<1>2. order' \in Orders(Candidates')
  BY <1>1, SortedAreOrders DEF Candidates
<1>3. RoutingTypeOK'
  BY <1>1, <1>2 DEF RoutingInv, RoutingTypeOK, Candidates, Pinged
<1>4. DOMAIN tried' = {} /\ Len(tried') = 0
  BY <1>1
<1>. QED
  BY <1>1, <1>3, <1>4, FailoversAssumption DEF RoutingInv, TriedInOrder, Sorted, Candidates, Pinged

LEMMA TryNodeInv ==
    ASSUME RoutingInv, TryNode
    PROVE  RoutingInv'
<1>. DEFINE next == order[Len(tried) + 1]
<1>1. UNCHANGED <<report, order, pings>> /\ place = "trying" /\ tried' = Append(tried, next)
      /\ place' \in {"trying", "answered"} /\ More
  BY DEF TryNode
<1>2. order \in Orders(Candidates) /\ IsFiniteSet(Candidates) /\ tried \in Seq(RouteNodes)
      /\ Candidates \subseteq RouteNodes
  BY CandidatesAreNodes DEF RoutingInv, RoutingTypeOK
<1>3. /\ DOMAIN order = 1..Cardinality(Candidates) /\ Cardinality(Candidates) \in Nat
      /\ Cardinality(DOMAIN order) = Cardinality(Candidates)
  BY <1>2, OrderHasEveryone
<1>4. Len(tried) \in Nat /\ DOMAIN tried = 1..Len(tried)
  BY <1>2
<1>5. Len(tried) + 1 \in 1..Cardinality(Candidates) /\ Len(tried) <= Failovers
  BY <1>1, <1>3, <1>4 DEF More
<1>6. next \in RouteNodes
  BY <1>2, <1>3, <1>5 DEF Orders
<1>. HIDE DEF next
<1>7. /\ tried' \in Seq(RouteNodes) /\ Len(tried') = Len(tried) + 1
      /\ DOMAIN tried' = 1..(Len(tried) + 1)
      /\ \A i \in 1..Len(tried) : tried'[i] = tried[i]
      /\ tried'[Len(tried) + 1] = next
  BY <1>1, <1>2, <1>4, <1>6
<1>8. TriedInOrder'
  <2>1. ASSUME NEW i \in DOMAIN tried'
        PROVE  i \in 1..Cardinality(Candidates) /\ tried'[i] = order[i]
    <3>1. CASE i \in 1..Len(tried)
      BY <1>4, <1>7, <3>1 DEF RoutingInv, TriedInOrder
    <3>2. CASE i = Len(tried) + 1
      BY <1>5, <1>7, <3>2 DEF next
    <3>. QED
      BY <1>4, <1>7, <3>1, <3>2
  <2>. QED
    BY <1>1, <2>1 DEF TriedInOrder, Candidates
<1>9. RoutingTypeOK'
  BY <1>1, <1>7 DEF RoutingInv, RoutingTypeOK, Candidates, Pinged
<1>10. Len(tried') <= Failovers + 1
  BY <1>4, <1>5, <1>7, FailoversAssumption
<1>. QED
  BY <1>1, <1>8, <1>9, <1>10 DEF RoutingInv, Sorted, Candidates, Pinged

LEMMA RoutingStepInv == RoutingInv /\ [RoutingNext]_routeVars => RoutingInv'
<1>. SUFFICES ASSUME RoutingInv, [RoutingNext]_routeVars
              PROVE  RoutingInv'
  OBVIOUS
<1>1. CASE GiveUp
  BY <1>1 DEF GiveUp, RoutingInv, RoutingTypeOK, TriedInOrder, Sorted, More, Candidates, Pinged
<1>2. CASE UNCHANGED routeVars
  BY <1>2 DEF routeVars, RoutingInv, RoutingTypeOK, TriedInOrder, Sorted, More, Candidates, Pinged
<1>. QED
  BY <1>1, <1>2, RankCandidatesInv, PingNodeInv, ReorderByPingInv, TryNodeInv DEF RoutingNext

LEMMA RankedByKeys == RoutingInv => RankFollowsKeys
<1>. SUFFICES ASSUME RoutingInv, place = "pinging", NEW i \in DOMAIN order, NEW j \in DOMAIN order, i < j
              PROVE  \E k \in 1..8 :
                        /\ Keys(order[i])[k] < Keys(order[j])[k]
                        /\ \A l \in 1..(k - 1) : Keys(order[i])[l] = Keys(order[j])[l]
  BY DEF RankFollowsKeys
<1>1. order[i] \in Candidates /\ order[j] \in Candidates
  BY DEF RoutingInv, RoutingTypeOK, Orders
<1>2. RanksBefore(report[order[i]], report[order[j]], order[i], order[j])
  BY DEF RoutingInv, Sorted, RankedOrders
<1>3. /\ Candidates \subseteq Nat
      /\ report[order[i]] \in HealthReport /\ report[order[j]] \in HealthReport
  BY <1>1, CandidatesAreNodes DEF RoutingInv
<1>. QED
  BY <1>1, <1>2, <1>3, RankIsLexicographic

LEMMA DelayIsInt ==
    ASSUME RoutingTypeOK, NEW n \in Candidates, Pinged = Candidates
    PROVE  Delay(n) \in Int
<1>1. report[n].latency \in Int
  BY CandidatesAreNodes DEF HealthReport
<1>2. pings[n] \in PingTimes \/ pings[n] = NoPing
  BY DEF RoutingTypeOK
<1>3. CASE pings[n] = NoPing
  BY <1>1, <1>3 DEF Delay, PingOrLatency
<1>4. CASE pings[n] \in PingTimes
  <2>1. pings[n] \in Nat /\ pings[n] # NoPing
    BY <1>4, PingAssumption
  <2>. QED
    BY <2>1 DEF Delay, PingOrLatency
<1>. QED
  BY <1>2, <1>3, <1>4

LEMMA TriedByPing == RoutingInv => FastestFirst
<1>. SUFFICES ASSUME RoutingInv, NEW i \in DOMAIN tried, NEW n \in Candidates,
                     Pinged = Candidates, Delay(n) < Delay(tried[i])
              PROVE  \E j \in 1..i : tried[j] = n
  BY DEF FastestFirst
<1>1. order \in Orders(Candidates) /\ IsFiniteSet(Candidates) /\ tried \in Seq(RouteNodes)
  BY CandidatesAreNodes DEF RoutingInv, RoutingTypeOK
<1>2. PICK k \in 1..Cardinality(Candidates) : order[k] = n
  BY <1>1, OrderHasEveryone
<1>3. /\ i \in 1..Cardinality(Candidates) /\ tried[i] = order[i]
      /\ DOMAIN order = 1..Cardinality(Candidates) /\ Cardinality(Candidates) \in Nat
  BY <1>1, OrderHasEveryone DEF RoutingInv, TriedInOrder
<1>4. i \in Nat /\ DOMAIN tried = 1..Len(tried) /\ Len(tried) \in Nat
  BY <1>1, <1>3
<1>5. CASE k <= i
  <2>1. k \in DOMAIN tried /\ k \in 1..i
    BY <1>2, <1>4, <1>5
  <2>2. tried[k] = order[k]
    BY <2>1 DEF RoutingInv, TriedInOrder
  <2>. QED
    BY <1>2, <2>1, <2>2
<1>6. CASE i < k
  <2>1. order \in PingedOrders(report, pings)
    <3>1. tried # << >> /\ place \in {"trying", "answered", "exhausted"}
      BY DEF RoutingInv, RoutingTypeOK
    <3>2. Pinged # {}
      OBVIOUS
    <3>. QED
      BY <3>1, <3>2 DEF RoutingInv, Sorted
  <2>. DEFINE a == order[i]
  <2>2. PingsBefore(report[a], report[n], pings[a], pings[n], a, n)
    BY <1>2, <1>3, <1>6, <2>1 DEF PingedOrders
  <2>3. a \in Candidates /\ a = tried[i]
    BY <1>1, <1>3 DEF Orders
  <2>4. Delay(a) \in Int /\ Delay(n) \in Int
    <3>1. ASSUME NEW m \in Candidates
          PROVE  Delay(m) \in Int
      BY DelayIsInt DEF RoutingInv
    <3>. QED
      BY <2>3, <3>1
  <2>5. Delay(n) < Delay(a)
    BY <2>3
  <2>. HIDE DEF a
  <2>. QED
    BY <2>2, <2>4, <2>5 DEF PingsBefore, Delay
<1>. QED
  BY <1>2, <1>4, <1>5, <1>6

LEMMA TriedOnce == RoutingInv => NobodyTriedTwice
<1>. SUFFICES ASSUME RoutingInv
              PROVE  NobodyTriedTwice
  OBVIOUS
<1>1. order \in Orders(Candidates) /\ IsFiniteSet(Candidates) /\ tried \in Seq(RouteNodes)
  BY CandidatesAreNodes DEF RoutingInv, RoutingTypeOK
<1>2. /\ DOMAIN order = 1..Cardinality(Candidates) /\ Cardinality(Candidates) \in Nat
      /\ Cardinality(DOMAIN order) = Cardinality(Candidates)
  BY <1>1, OrderHasEveryone
<1>3. DOMAIN tried = 1..Len(tried) /\ Len(tried) \in Nat
  BY <1>1
<1>4. \A i, j \in DOMAIN tried : i # j => tried[i] # tried[j]
  BY <1>1, <1>2 DEF RoutingInv, TriedInOrder, Orders
<1>5. ASSUME place = "exhausted", Len(tried) # Failovers + 1, NEW n \in Candidates
      PROVE  \E i \in DOMAIN tried : tried[i] = n
  <2>1. Len(tried) <= Failovers + 1 /\ ~More
    BY <1>5 DEF RoutingInv
  <2>2. Len(tried) >= Cardinality(Candidates)
    <3>1. ~(Len(tried) < Cardinality(DOMAIN order)) \/ ~(Len(tried) <= Failovers)
      BY <2>1 DEF More
    <3>2. Len(tried) <= Failovers
      <4>. DEFINE len == Len(tried)
      <4>1. len \in Nat /\ len <= Failovers + 1 /\ len # Failovers + 1
        BY <1>3, <1>5, <2>1
      <4>. HIDE DEF len
      <4>2. len <= Failovers
        BY <4>1, FailoversAssumption
      <4>. QED
        BY <4>2 DEF len
    <3>3. ~(Len(tried) < Cardinality(Candidates))
      BY <1>2, <3>1, <3>2
    <3>. QED
      BY <1>2, <1>3, <3>3
  <2>3. PICK k \in 1..Cardinality(Candidates) : order[k] = n
    BY <1>1, OrderHasEveryone
  <2>4. k \in DOMAIN tried
    BY <1>2, <1>3, <2>2
  <2>. QED
    BY <2>3, <2>4 DEF RoutingInv, TriedInOrder
<1>. QED
  BY <1>4, <1>5 DEF NobodyTriedTwice, RoutingInv

(***************************************************************************)
(* For any number of nodes, any figures, pings and number of failovers:    *)
(* the ranking is the lexicographic one, the pings decide the order once   *)
(* they are in, nobody is tried twice, and a request that gave up has      *)
(* tried everyone or as many as it may.                                    *)
(***************************************************************************)
THEOREM RoutingCorrect ==
    RoutingSpec => [](RoutingTypeOK /\ RankFollowsKeys /\ FastestFirst /\ NobodyTriedTwice)
<1>1. RoutingInv => RoutingTypeOK /\ RankFollowsKeys /\ FastestFirst /\ NobodyTriedTwice
  BY RankedByKeys, TriedByPing, TriedOnce DEF RoutingInv
<1>. QED
  BY RoutingInitInv, RoutingStepInv, <1>1, PTL DEF RoutingSpec

=============================================================================

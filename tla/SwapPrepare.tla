---------------------------- MODULE SwapPrepare ----------------------------
(***************************************************************************)
(* How a swap is quoted and prepared, step by step, while the market and   *)
(* the wallet change, and what becomes of the plan once it is signed:      *)
(* eth.uniswap.service.ts, eth.testnet.service.ts, bsc.service.ts.         *)
(*                                                                         *)
(* One wallet swaps one amount.  price is what the swap would yield now;   *)
(* coin and allowed are the wallet's balance of tokenIn (WETH for a wrap)  *)
(* and whether the router may take it.                                     *)
(***************************************************************************)
EXTENDS Naturals, Sequences

CONSTANTS
    Amount,      \* amountIn
    Eths, Coins, \* balances the wallet may be moved to
    Prices,      \* what a swap may yield
    SwapGas,     \* gas a swap may take
    Fees,        \* maxFeePerGas of the node, and what a block may charge
    UniswapSlippage,  \* UNISWAP_SLIPPAGE, in units of 1/10000
    BscSlippage,      \* BSC_SLIPPAGE, in percent
    BscGas,           \* BSC_TRANSACTION_GAS_LIMIT
    InUnit, OutUnit,  \* 10 to the decimals of tokenIn and of tokenOut
    None,        \* a variable that is not set
    MaxMoves     \* bound on changes of the market and the wallet

ASSUME AmountAssumption ==
    /\ Amount \in Nat /\ BscGas \in Nat /\ MaxMoves \in Nat
    /\ InUnit \in Nat \ {0} /\ OutUnit \in Nat \ {0}
ASSUME SetsAssumption ==
    Eths \subseteq Nat /\ Coins \subseteq Nat /\ Prices \subseteq Nat
    /\ SwapGas \subseteq Nat /\ Fees \subseteq Nat
ASSUME SlippageAssumption ==
    None \notin Nat /\ UniswapSlippage \in Nat \cup {None} /\ BscSlippage \in Nat \cup {None}

Uniswap == {"ETH", "WETH", "ERC20"}    \* by the symbol of tokenIn
Testnet == {"EthToUsdc", "UsdcToWeth"} \* EthSwapEnum, when ENVIRONMENT is dev
Priced == Uniswap \cup {"BNB"}
Routes == Priced \cup Testnet

\* What the transactions of a plan do, in order.
Ops == [r \in Routes |->
    CASE r \in {"ETH", "BNB"} -> <<"swapValue">>
      [] r = "ERC20" -> <<"swap">>
      [] r = "WETH" -> <<"wrap", "swap">>
      [] r = "UsdcToWeth" -> <<"approve", "swap">>
      [] r = "EthToUsdc" -> <<"wrap", "approve", "swap">>]
Op == {"wrap", "approve", "swap", "swapValue"}
Value(op) == IF op \in {"wrap", "swapValue"} THEN Amount ELSE 0
Tx == [op : Op, limit : Nat]

VARIABLES
    eth, coin, allowed, price, swapGas,  \* the wallet and the market now
    pc,        \* where the request, and then its plan, stands
    route,
    seen,      \* the price behind the last swap-quote the app showed
    quote,     \* the price prepare read for itself
    maxFee,
    plan,
    next,      \* position of the plan's next transaction
    got,       \* what the swap yielded
    outcome,
    moves,
    moved,     \* history: what changed since prepare read its quote
    spent      \* history: whether the wallet changed since its balance was checked

market == <<price, swapGas>>
wallet == <<eth, coin, allowed>>
request == <<route, seen, quote, maxFee>>
vars == <<eth, coin, allowed, price, swapGas, pc, route, seen, quote, maxFee, plan, next,
          got, outcome, moves, moved, spent>>

Awaiting == {"quote", "fees", "estimate", "balance"}
Failures == {"funds", "gas", "transfer", "price", "deadline"}

TypeOK ==
    /\ eth \in Nat /\ coin \in Nat /\ allowed \in BOOLEAN
    /\ price \in Nat /\ swapGas \in Nat
    /\ pc \in {"idle", "ready", "over", "failed"} \cup Awaiting
    /\ route \in Routes \cup {None}
    /\ seen \in Nat /\ quote \in Nat /\ maxFee \in Nat /\ got \in Nat
    /\ plan \in Seq(Tx)
    /\ next \in 1..(Len(plan) + 1)
    /\ outcome \in {"none", "done"} \cup Failures
    /\ moves \in 0..MaxMoves
    /\ moved \subseteq {"wallet", "price", "gas", "late"}
    /\ spent \in BOOLEAN
    /\ pc # "idle" => route \in Routes
    /\ pc = "ready" => next <= Len(plan) /\ Len(plan) = Len(Ops[route])

Init ==
    /\ eth \in Eths /\ coin \in Coins /\ allowed \in BOOLEAN
    /\ price \in Prices /\ swapGas \in SwapGas
    /\ pc = "idle" /\ route = None
    /\ seen = 0 /\ quote = 0 /\ maxFee = 0 /\ got = 0
    /\ plan = <<>> /\ next = 1 /\ outcome = "none"
    /\ moves = 0 /\ moved = {} /\ spent = FALSE

-----------------------------------------------------------------------------
(* Arithmetic of the builders.                                             *)

\* process.env.BSC_SLIPPAGE ?? '5'
BscPercent == IF BscSlippage = None THEN 5 ELSE BscSlippage

\* 10000 - undefined and 100 - "x" make BigInt throw; a negative minimum cannot be encoded.
Computable(r) ==
    IF r = "BNB" THEN BscPercent <= 100
    ELSE r \in Uniswap => UniswapSlippage # None /\ UniswapSlippage <= 10000

\* The data of a testnet swap are the app's; they are taken to have no minimum.
Minimum(r, out) ==
    IF r = "BNB" THEN (out * (100 - BscPercent)) \div 100
    ELSE IF r \in Uniswap THEN (out * (10000 - UniswapSlippage)) \div 10000
    ELSE 0

\* Mutant: the units the wrong way round.
ShownSwapped(r, out) == IF r = "BNB" THEN (out * InUnit) \div OutUnit ELSE out

\* What the app reads in a quote: BSC formats the output with the decimals of tokenIn.
Shown(r, out) == IF r = "BNB" THEN (out * OutUnit) \div InUnit ELSE out

\* What an operation takes.
Gas(op) == IF op = "wrap" THEN 45000 ELSE IF op = "approve" THEN 46000 ELSE swapGas

\* Mutant: the router is compared with another variable.
FallbackLow(op) == IF op = "approve" THEN 100000 ELSE 80000

\* Gas when it cannot be estimated: approvals are known by their selector.
Fallback(op) ==
    IF op = "approve" THEN 100000 ELSE IF op = "swap" THEN 400000 ELSE 80000

\* What the chain says of an operation now.
Verdict(op, limit) ==
    IF Gas(op) > limit THEN "gas"
    ELSE IF op = "swap" /\ (coin < Amount \/ ~allowed) THEN "transfer"
    ELSE IF op \in {"swap", "swapValue"} /\ price < Minimum(route, quote) THEN "price"
    ELSE IF op \in {"swap", "swapValue"} /\ "late" \in moved THEN "deadline"
    ELSE "done"

\* Mutant: a swap is estimated as if the transactions before it had run.
SimulatesAfter(op) ==
    /\ eth >= Value(op)
    /\ op = "swap" \/ Verdict(op, Gas(op)) = "done"

\* What estimateGas finds: the transactions before it have not run.
Simulates(op) == eth >= Value(op) /\ Verdict(op, Gas(op)) = "done"

\* At most this much of the balance goes into a transaction.
Cost(tx) == tx.limit * maxFee + Value(tx.op)
CostOf(i) == IF i <= Len(plan) THEN Cost(plan[i]) ELSE 0

\* Mutant: the value is left out.
TotalGas == (IF Len(plan) > 0 THEN plan[1].limit * maxFee ELSE 0)
          + (IF Len(plan) > 1 THEN plan[2].limit * maxFee ELSE 0)

\* A plan of Uniswap has one or two transactions.
Total == CostOf(1) + CostOf(2)
-----------------------------------------------------------------------------
(* The requests.                                                           *)

\* A quote, for a swap the app will ask for.  One that fails leaves the app where it was.
Show(routes) ==
    /\ pc = "idle"
    /\ route' \in routes
    /\ seen' = price
    /\ pc' = "quote"
    /\ UNCHANGED <<wallet, market, quote, maxFee, plan, next, got, outcome, moves, moved, spent>>

UniswapQuote == Show(Uniswap)
TestnetQuote == Show(Testnet)
BscQuote == Show({"BNB"})

\* Prepare asks for a quote of its own; the testnet builder for none.
Requote ==
    /\ pc = "quote"
    /\ quote' = IF route \in Priced THEN price ELSE quote
    /\ moved' = {}
    /\ pc' = "fees"
    /\ UNCHANGED <<wallet, market, route, seen, maxFee, plan, next, got, outcome, moves, spent>>

\* Nonce, network and fees, once the minimum is computed.
ReadFees ==
    /\ pc = "fees" /\ Computable(route) /\ route # "BNB"
    /\ maxFee' \in Fees
    /\ pc' = "estimate"
    /\ UNCHANGED <<wallet, market, route, seen, quote, plan, next, got, outcome, moves, moved, spent>>

\* On BSC nothing is left to ask then.
PrepareBnb ==
    /\ pc = "fees" /\ Computable(route) /\ route = "BNB"
    /\ maxFee' \in Fees
    /\ plan' = <<[op |-> "swapValue", limit |-> BscGas]>>
    /\ pc' = "ready"
    /\ UNCHANGED <<wallet, market, route, seen, quote, next, got, outcome, moves, moved, spent>>

\* The transaction being built is the last one.
Complete == Len(plan) + 1 = Len(Ops[route])

Add(op, limit, then) ==
    /\ plan' = Append(plan, [op |-> op, limit |-> limit])
    /\ pc' = IF Complete THEN then ELSE "estimate"
    /\ UNCHANGED <<wallet, market, request, next, got, outcome, moves, moved, spent>>

\* Mutant: an estimate that reverts is replaced, as the testnet builder does.
EstimateCaught ==
    /\ pc = "estimate" /\ route \in Uniswap
    /\ LET op == Ops[route][Len(plan) + 1] IN
        \/ Simulates(op) /\ Add(op, (Gas(op) * 120) \div 100, "balance")
        \/ Add(op, Fallback(op), "balance")

\* An estimate that reverts rejects, and buildSwapTx with it.
Estimate ==
    /\ pc = "estimate" /\ route \in Uniswap
    /\ LET op == Ops[route][Len(plan) + 1] IN
        /\ Simulates(op)
        /\ Add(op, (Gas(op) * 120) \div 100, "balance")

\* estimateGas of the testnet builder catches; the node may fail for its own reasons.
EstimateOrFallback ==
    /\ pc = "estimate" /\ route \in Testnet
    /\ LET op == Ops[route][Len(plan) + 1] IN
        \/ Simulates(op) /\ Add(op, (Gas(op) * 130) \div 100, "ready")
        \/ Add(op, Fallback(op), "ready")

CheckBalance ==
    /\ pc = "balance" /\ eth >= Total
    /\ spent' = FALSE
    /\ pc' = "ready"
    /\ UNCHANGED <<wallet, market, request, plan, next, got, outcome, moves, moved>>

\* A call rejects, an estimate reverts, or the balance is too low.
Fails ==
    /\ pc \in Awaiting
    /\ pc' = "failed"
    /\ UNCHANGED <<wallet, market, request, plan, next, got, outcome, moves, moved, spent>>

-----------------------------------------------------------------------------
(* The plan, signed and posted, one transaction after the other.           *)

\* A node takes no transaction the balance cannot pay for in full.
Refused ==
    /\ pc = "ready" /\ eth < Cost(plan[next])
    /\ outcome' = "funds" /\ pc' = "over"
    /\ UNCHANGED <<wallet, market, request, plan, next, got, moves, moved, spent>>

\* A block charges for the gas used, and no more for a unit than the transaction offers.
Charged(tx, used, value) == \E fee \in Fees : fee <= maxFee /\ eth' = eth - (used * fee + value)

Mines ==
    /\ pc = "ready"
    /\ LET tx == plan[next] IN
        /\ Cost(tx) <= eth
        /\ Verdict(tx.op, tx.limit) = "done"
        /\ Charged(tx, Gas(tx.op), Value(tx.op))
        /\ coin' = IF tx.op = "wrap" THEN coin + Amount
                   ELSE IF tx.op = "swap" THEN coin - Amount ELSE coin
        /\ allowed' = (allowed \/ tx.op = "approve")
        /\ got' = IF tx.op \in {"swap", "swapValue"} THEN price ELSE got
    /\ next' = next + 1
    /\ IF next = Len(plan) THEN pc' = "over" /\ outcome' = "done"
                           ELSE UNCHANGED <<pc, outcome>>
    /\ UNCHANGED <<market, request, plan, moves, moved, spent>>

Reverts ==
    /\ pc = "ready"
    /\ LET tx == plan[next] IN
        /\ Cost(tx) <= eth
        /\ Verdict(tx.op, tx.limit) # "done"
        /\ outcome' = Verdict(tx.op, tx.limit)
        /\ Charged(tx, IF outcome' = "gas" THEN tx.limit ELSE Gas(tx.op), 0)
    /\ pc' = "over"
    /\ UNCHANGED <<coin, allowed, market, request, plan, next, got, moves, moved, spent>>

-----------------------------------------------------------------------------
(* Everybody else.                                                         *)

Open == pc \notin {"over", "failed"} /\ moves < MaxMoves /\ moves' = moves + 1

WalletMoves ==
    /\ Open
    /\ eth' \in Eths /\ coin' \in Coins /\ allowed' \in BOOLEAN
    /\ spent' = TRUE
    /\ moved' = moved \cup {"wallet"}
    /\ UNCHANGED <<market, pc, request, plan, next, got, outcome>>

PriceMoves ==
    /\ Open
    /\ price' \in Prices
    /\ moved' = moved \cup {"price"}
    /\ UNCHANGED <<wallet, swapGas, pc, request, plan, next, got, outcome, spent>>

GasMoves ==
    /\ Open
    /\ swapGas' \in SwapGas
    /\ moved' = moved \cup {"gas"}
    /\ UNCHANGED <<wallet, price, pc, request, plan, next, got, outcome, spent>>

\* The plan is signed after its deadline.
Expires ==
    /\ Open
    /\ pc = "ready"
    /\ moved' = moved \cup {"late"}
    /\ UNCHANGED <<wallet, market, pc, request, plan, next, got, outcome, spent>>

\* The swap is over.
Idle == pc \in {"over", "failed"} /\ UNCHANGED vars

Next ==
    \/ UniswapQuote \/ TestnetQuote \/ BscQuote
    \/ Requote \/ ReadFees \/ PrepareBnb \/ Estimate \/ EstimateOrFallback \/ CheckBalance \/ Fails
    \/ Refused \/ Mines \/ Reverts
    \/ WalletMoves \/ PriceMoves \/ GasMoves \/ Expires
    \/ Idle

Spec == Init /\ [][Next]_vars

-----------------------------------------------------------------------------
(* A plan of the Uniswap builder can be paid for to the end: the check of  *)
(* line 235 counts gas limits and values of all its transactions against   *)
(* the balance, so no later one starves on what an earlier one cost, unless*)
(* the wallet was used for something else after the check.                 *)
FundedUnlessSpent == route \in Uniswap /\ outcome = "funds" => spent

Cause == [funds |-> "wallet", transfer |-> "wallet", gas |-> "gas",
          price |-> "price", deadline |-> "late"]

(* A plan of the Uniswap builder never fails of itself: it was estimated   *)
(* before it was returned, with a margin and a minimum, so what fails it is*)
(* a change of the very thing the failure is about, since the quote.       *)
FailureHasCause == route \in Uniswap /\ outcome \in Failures => Cause[outcome] \in moved

(* A testnet swap is mostly estimated before its approval is mined, that is*)
(* not at all; still it runs short of gas only if the need rose, or is more*)
(* than the 400000 of line 257.                                            *)
GasSuffices == route \in Testnet /\ outcome = "gas" => "gas" \in moved \/ swapGas > 400000

(* The swap of a WETH plan is estimated before its wrap is mined (171), so *)
(* the plan is only returned to a wallet that does not need the wrap: when *)
(* it is carried out, what was wrapped is left over.                       *)
WrapIsSpare ==
    route = "WETH" /\ outcome = "done" /\ "wallet" \notin moved => coin >= Amount

(* Slippage counts from the quote prepare reads for itself (88), not from  *)
(* the one the app showed: a swap yields less than the slippage leaves of  *)
(* that only if the price fell in between.  On BSC the quote shown may also*)
(* be too high, if tokenOut has more decimals than tokenIn (73).           *)
ShortfallNeedsMove ==
    route \in Priced /\ outcome = "done" /\ got < Minimum(route, Shown(route, seen)) =>
        quote < seen \/ (route = "BNB" /\ OutUnit > InUnit)
=============================================================================

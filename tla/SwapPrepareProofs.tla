------------------------- MODULE SwapPrepareProofs -------------------------
(***************************************************************************)
(* Theorems about SwapPrepare, for any amounts, prices, gas and slippage:  *)
(* type correctness, what a plan of the Uniswap builder can be paid with   *)
(* and fail of, gas of the testnet plans, and what a wrap leaves over.     *)
(*                                                                         *)
(* The invariant keeps what each step of a builder found out true of the   *)
(* transactions built so far, unless that very thing has moved since.      *)
(***************************************************************************)
EXTENDS SwapPrepare, SequenceTheorems, TLAPS

Building == pc \in {"estimate", "balance", "ready"}
Swaps == {"swap", "swapValue"}

PlanOK ==
    /\ pc \in {"idle", "quote", "fees"} => plan = <<>>
    /\ pc \in {"idle"} \cup Awaiting => next = 1
    /\ pc # "over" => outcome = "none"
    /\ pc = "over" => outcome # "none"
    /\ pc = "estimate" => Len(plan) < Len(Ops[route]) /\ route # "BNB"
    /\ pc = "balance" => Len(plan) = Len(Ops[route]) /\ route \in Uniswap
    /\ \A i \in 1..Len(plan) : route \in Routes /\ plan[i].op = Ops[route][i]

Margin ==
    Building /\ route # "BNB" /\ "gas" \notin moved =>
        \A i \in 1..Len(plan) :
            Gas(plan[i].op) <= plan[i].limit \/ (route \in Testnet /\ swapGas > 400000)

Worth ==
    Building /\ route \in Uniswap /\ "price" \notin moved =>
        \A i \in 1..Len(plan) : plan[i].op \in Swaps => ~(price < Minimum(route, quote))

Holds ==
    Building /\ route \in Uniswap /\ "wallet" \notin moved =>
        \A i \in 1..Len(plan) :
            plan[i].op = "swap" =>
                /\ allowed
                /\ coin >= Amount
                /\ next = 2 => coin >= Amount + Amount

Funds ==
    pc = "ready" /\ route \in Uniswap =>
        /\ ~spent => eth >= (IF next = 1 THEN Total ELSE CostOf(2))
        /\ spent => "wallet" \in moved

Yields ==
    /\ (Building \/ pc = "over") /\ route \in Priced => Computable(route)
    /\ outcome = "done" /\ route \in Priced => ~(got < Minimum(route, quote))

Results == FundedUnlessSpent /\ FailureHasCause /\ GasSuffices /\ WrapIsSpare

IInv == TypeOK /\ PlanOK /\ Margin /\ Worth /\ Holds /\ Funds /\ Yields /\ Results

-----------------------------------------------------------------------------
(* Facts about the operators.                                              *)

(* The plans of the routes.                                                *)
LEMMA OpsType ==
    ASSUME NEW r \in Routes
    PROVE  /\ Len(Ops[r]) \in 1..3
           /\ \A i \in 1..Len(Ops[r]) : Ops[r][i] \in Op
           /\ r \in Uniswap => Len(Ops[r]) <= 2
           /\ r \in Uniswap => \A i \in 1..Len(Ops[r]) :
                /\ Ops[r][i] # "approve"
                /\ Ops[r][i] \in Swaps <=> i = Len(Ops[r])
           /\ r \in Testnet => \A i \in 1..Len(Ops[r]) : Ops[r][i] # "swapValue"
<1>1. CASE r \in {"ETH", "BNB"}
  <2>1. Ops[r] = <<"swapValue">>
    BY <1>1 DEF Ops, Routes, Priced, Uniswap, Testnet
  <2> QED
    BY <1>1, <2>1 DEF Op, Swaps, Uniswap, Testnet
<1>2. CASE r = "ERC20"
  <2>1. Ops[r] = <<"swap">>
    BY <1>2 DEF Ops, Routes, Priced, Uniswap, Testnet
  <2> QED
    BY <1>2, <2>1 DEF Op, Swaps, Uniswap, Testnet
<1>3. CASE r = "WETH"
  <2>1. Ops[r] = <<"wrap", "swap">>
    BY <1>3 DEF Ops, Routes, Priced, Uniswap, Testnet
  <2> QED
    BY <1>3, <2>1 DEF Op, Swaps, Uniswap, Testnet
<1>4. CASE r = "UsdcToWeth"
  <2>1. Ops[r] = <<"approve", "swap">>
    BY <1>4 DEF Ops, Routes, Priced, Uniswap, Testnet
  <2> QED
    BY <1>4, <2>1 DEF Op, Swaps, Uniswap, Testnet
<1>5. CASE r = "EthToUsdc"
  <2>1. Ops[r] = <<"wrap", "approve", "swap">>
    BY <1>5 DEF Ops, Routes, Priced, Uniswap, Testnet
  <2> QED
    BY <1>5, <2>1 DEF Op, Swaps, Uniswap, Testnet
<1> QED
  BY <1>1, <1>2, <1>3, <1>4, <1>5 DEF Routes, Priced, Uniswap, Testnet

(* A product is monotone in both factors.                                  *)
LEMMA Monotone ==
    ASSUME NEW a \in Nat, NEW b \in Nat, NEW c \in Nat, NEW d \in Nat, a <= b, c <= d
    PROVE  a * c <= b * d /\ a * c \in Nat /\ b * d \in Nat
<1>1. PICK u \in Nat : b = a + u
  <2>1. b - a \in Nat
    OBVIOUS
  <2> QED
    BY <2>1
<1>2. PICK v \in Nat : d = c + v
  <2>1. d - c \in Nat
    OBVIOUS
  <2> QED
    BY <2>1
<1>3. b * d = a * c + a * v + u * c + u * v
  BY <1>1, <1>2
<1>4. a * c \in Nat /\ a * v \in Nat /\ u * c \in Nat /\ u * v \in Nat
  OBVIOUS
<1> QED
  BY <1>3, <1>4

LEMMA GasType == ASSUME TypeOK, NEW op PROVE Gas(op) \in Nat
BY DEF TypeOK, Gas

LEMMA ValueType == ASSUME NEW op PROVE Value(op) \in Nat
BY AmountAssumption DEF Value

LEMMA VerdictType ==
    ASSUME NEW op, NEW limit
    PROVE  Verdict(op, limit) \in {"done", "gas", "transfer", "price", "deadline"}
BY DEF Verdict

(* What a verdict says, either way.                                        *)
LEMMA VerdictSays ==
    ASSUME TypeOK, NEW op, NEW limit \in Nat
    PROVE  /\ Verdict(op, limit) = "done" =>
                /\ Gas(op) <= limit
                /\ op = "swap" => coin >= Amount /\ allowed
                /\ op \in Swaps => ~(price < Minimum(route, quote))
           /\ Verdict(op, limit) = "gas" => Gas(op) > limit
           /\ Verdict(op, limit) = "transfer" => op = "swap" /\ (coin < Amount \/ ~allowed)
           /\ Verdict(op, limit) = "price" => op \in Swaps /\ price < Minimum(route, quote)
           /\ Verdict(op, limit) = "deadline" => "late" \in moved
<1>1. Gas(op) \in Nat
  BY GasType
<1> QED
  BY <1>1, AmountAssumption DEF Verdict, Swaps, TypeOK

(* The transactions of a plan.                                             *)
LEMMA PlanType ==
    ASSUME TypeOK
    PROVE  /\ Len(plan) \in Nat
           /\ \A i \in 1..Len(plan) : plan[i] \in Tx /\ plan[i].op \in Op /\ plan[i].limit \in Nat
<1>1. plan \in Seq(Tx)
  BY DEF TypeOK
<1>2. \A i \in 1..Len(plan) : plan[i] \in Tx
  BY <1>1, ElementOfSeq
<1> QED
  BY <1>1, <1>2, LenProperties DEF Tx

(* What Add appends.                                                       *)
LEMMA Added ==
    ASSUME TypeOK, NEW op \in Op, NEW limit \in Nat, NEW then, Add(op, limit, then)
    PROVE  /\ plan' \in Seq(Tx)
           /\ Len(plan') = Len(plan) + 1
           /\ \A i \in 1..Len(plan) : plan'[i] = plan[i]
           /\ plan'[Len(plan) + 1] = [op |-> op, limit |-> limit]
<1>1. plan \in Seq(Tx) /\ [op |-> op, limit |-> limit] \in Tx
  BY DEF TypeOK, Tx
<1>2. plan' = Append(plan, [op |-> op, limit |-> limit])
  BY DEF Add
<1> QED
  BY <1>1, <1>2, AppendProperties

(* What a builder adds is the next operation of the route.                 *)
LEMMA NextOp ==
    ASSUME TypeOK, PlanOK, pc = "estimate"
    PROVE  /\ route \in Routes
           /\ Len(plan) + 1 \in 1..Len(Ops[route])
           /\ Ops[route][Len(plan) + 1] \in Op
<1>1. route \in Routes
  BY DEF TypeOK
<1>2. Len(plan) + 1 \in 1..Len(Ops[route])
  BY <1>1, OpsType, PlanType DEF PlanOK
<1> QED
  BY <1>1, <1>2, OpsType

(* A quotient is at most what the divisor would take to reach more.        *)
LEMMA Quotient ==
    ASSUME NEW n \in Nat, NEW d \in Nat \ {0}, NEW q \in Nat, n <= q * d
    PROVE  n \div d \in Nat /\ n \div d <= q
<1> DEFINE k == n \div d
<1>1. k \in Int /\ k * d <= n /\ n < (k + 1) * d
  OBVIOUS
<1>2. k >= 0
  <2>1. ASSUME k <= -1 PROVE FALSE
    <3>1. (k + 1) * d <= 0
      BY <1>1, <2>1
    <3> QED
      BY <1>1, <3>1
  <2> QED
    BY <1>1, <2>1
<1>3. ASSUME k >= q + 1 PROVE FALSE
  <2>1. k \in Nat /\ d \in Nat /\ q + 1 \in Nat
    BY <1>1, <1>2
  <2>2. (q + 1) * d <= k * d
    BY <1>3, <2>1, Monotone
  <2>3. (q + 1) * d = q * d + d /\ q * d \in Nat
    BY <2>1
  <2> QED
    BY <1>1, <2>2, <2>3
<1> QED
  BY <1>1, <1>2, <1>3

(* A better quote never has a lower minimum.                               *)
LEMMA MinimumMonotone ==
    ASSUME NEW r \in Priced, Computable(r), NEW a \in Nat, NEW b \in Nat, a <= b
    PROVE  Minimum(r, a) \in Nat /\ Minimum(r, b) \in Nat /\ Minimum(r, a) <= Minimum(r, b)
<1>1. CASE r = "BNB"
  <2> DEFINE k == 100 - BscPercent
  <2>1. k \in Nat
    BY <1>1, SlippageAssumption DEF Computable, BscPercent
  <2>2. a * k <= b * k /\ a * k \in Nat /\ b * k \in Nat
    BY <2>1, Monotone
  <2>3. Minimum(r, a) = (a * k) \div 100 /\ Minimum(r, b) = (b * k) \div 100
    BY <1>1 DEF Minimum
  <2> HIDE DEF k
  <2> QED
    BY <2>2, <2>3
<1>2. CASE r # "BNB"
  <2> DEFINE k == 10000 - UniswapSlippage
  <2>0. r \in Uniswap
    BY <1>2 DEF Priced
  <2>1. k \in Nat
    BY <1>2, <2>0, SlippageAssumption DEF Computable
  <2>2. a * k <= b * k /\ a * k \in Nat /\ b * k \in Nat
    BY <2>1, Monotone
  <2>3. Minimum(r, a) = (a * k) \div 10000 /\ Minimum(r, b) = (b * k) \div 10000
    BY <1>2, <2>0 DEF Minimum
  <2> HIDE DEF k
  <2> QED
    BY <2>2, <2>3
<1> QED
  BY <1>1, <1>2

(* What is shown is at most what was quoted, unless the units mislead.     *)
LEMMA ShownSays ==
    ASSUME NEW r, NEW out \in Nat, ~(r = "BNB" /\ OutUnit > InUnit)
    PROVE  Shown(r, out) \in Nat /\ Shown(r, out) <= out
<1>1. CASE r = "BNB"
  <2>1. OutUnit \in Nat /\ InUnit \in Nat \ {0} /\ OutUnit <= InUnit
    BY <1>1, AmountAssumption
  <2>2. out * OutUnit <= out * InUnit /\ out * OutUnit \in Nat
    BY <2>1, Monotone
  <2>3. Shown(r, out) = (out * OutUnit) \div InUnit
    BY <1>1 DEF Shown
  <2> QED
    BY <2>1, <2>2, <2>3, Quotient
<1>2. CASE r # "BNB"
  BY <1>2 DEF Shown
<1> QED
  BY <1>1, <1>2

(* The two estimating steps, as what they add.                             *)
LEMMA EstimateCases ==
    ASSUME TypeOK, PlanOK, Estimate \/ EstimateOrFallback
    PROVE  \E limit \in Nat :
            LET op == Ops[route][Len(plan) + 1] IN
            /\ pc = "estimate"
            /\ Add(op, limit, IF route \in Uniswap THEN "balance" ELSE "ready")
            /\ Gas(op) <= limit \/ (route \in Testnet /\ op = "swap" /\ swapGas > 400000)
            /\ route \in Uniswap => Simulates(op)
<1> DEFINE op == Ops[route][Len(plan) + 1]
<1> HIDE DEF op
<1>1. pc = "estimate" /\ op \in Op /\ route \in Routes
  BY NextOp DEF Estimate, EstimateOrFallback, op
<1>2. Gas(op) \in Nat
  BY GasType
<1>3. CASE Estimate
  <2>1. (Gas(op) * 120) \div 100 \in Nat /\ Gas(op) <= (Gas(op) * 120) \div 100
    BY <1>2
  <2> QED
    BY <1>1, <1>3, <2>1 DEF Estimate, op
<1>4. CASE EstimateOrFallback /\ Add(op, (Gas(op) * 130) \div 100, "ready")
  <2>1. (Gas(op) * 130) \div 100 \in Nat /\ Gas(op) <= (Gas(op) * 130) \div 100
    BY <1>2
  <2>2. route \notin Uniswap
    BY <1>4 DEF EstimateOrFallback, Testnet, Uniswap
  <2> QED
    BY <1>1, <1>4, <2>1, <2>2 DEF op
<1>5. CASE EstimateOrFallback /\ Add(op, Fallback(op), "ready")
  <2>1. route \in Testnet /\ route \notin Uniswap
    BY <1>5 DEF EstimateOrFallback, Testnet, Uniswap
  <2>2. op # "swapValue"
    BY <2>1, <1>1, NextOp, OpsType DEF op
  <2>3. Fallback(op) \in Nat /\ (Gas(op) <= Fallback(op) \/ (op = "swap" /\ swapGas > 400000))
    BY <1>1, <1>2, <2>2 DEF Fallback, Gas, Op, TypeOK
  <2> QED
    BY <1>1, <1>5, <2>1, <2>3 DEF op
<1> QED
  BY <1>3, <1>4, <1>5 DEF EstimateOrFallback, op

-----------------------------------------------------------------------------
(* Type correctness.                                                       *)

LEMMA IInvInit == Init => IInv
<1> SUFFICES ASSUME Init PROVE IInv
  OBVIOUS
<1>1. plan = <<>> /\ Len(plan) = 0 /\ plan \in Seq(Tx)
  BY DEF Init
<1>2. TypeOK
  <2>1. eth \in Nat /\ coin \in Nat /\ price \in Nat /\ swapGas \in Nat
    BY SetsAssumption DEF Init
  <2>2. next \in 1..(Len(plan) + 1) /\ moves \in 0..MaxMoves
    BY <1>1, AmountAssumption DEF Init
  <2>3. moved \subseteq {"wallet", "price", "gas", "late"} /\ pc = "idle" /\ route = None
    BY DEF Init
  <2> QED
    BY <1>1, <2>1, <2>2, <2>3 DEF Init, TypeOK
<1>3. PlanOK
  BY <1>1 DEF Init, PlanOK, Awaiting
<1>4. Margin /\ Worth /\ Holds /\ Funds /\ Yields /\ Results
  BY <1>1, SlippageAssumption DEF Init, Margin, Worth, Holds, Funds, Yields, Results, Building,
     FundedUnlessSpent, FailureHasCause, GasSuffices, WrapIsSpare, Failures
<1> QED
  BY <1>2, <1>3, <1>4 DEF IInv

(* A quote is for one of the routes, whichever service gives it.           *)
SwapQuote == UniswapQuote \/ TestnetQuote \/ BscQuote

LEMMA QuoteSays == SwapQuote => Show(Routes)
BY DEF SwapQuote, UniswapQuote, TestnetQuote, BscQuote, Show, Routes, Priced

(* The two ends of what a builder asks the chain.                          *)
AskFees == ReadFees \/ PrepareBnb

(* What is charged for a transaction is at most what its cost set aside.   *)
LEMMA ChargedSays ==
    ASSUME TypeOK, pc = "ready", NEW used \in Nat, NEW value \in Nat,
           used <= plan[next].limit, value <= Value(plan[next].op),
           Cost(plan[next]) <= eth, Charged(plan[next], used, value)
    PROVE  eth' \in Nat /\ eth - Cost(plan[next]) <= eth'
<1>1. plan[next].limit \in Nat /\ Value(plan[next].op) \in Nat /\ maxFee \in Nat /\ eth \in Nat
  BY PlanType, ValueType DEF TypeOK
<1>2. PICK fee \in Nat : fee <= maxFee /\ eth' = eth - (used * fee + value)
  BY SetsAssumption DEF Charged
<1>3. used * fee <= plan[next].limit * maxFee /\ used * fee \in Nat
      /\ plan[next].limit * maxFee \in Nat
  BY <1>1, <1>2, Monotone
<1>4. Cost(plan[next]) = plan[next].limit * maxFee + Value(plan[next].op)
  BY DEF Cost
<1> QED
  BY <1>1, <1>2, <1>3, <1>4

(* What a transaction that reverts has used.                               *)
LEMMA RevertsSays ==
    ASSUME TypeOK, Reverts
    PROVE  eth' \in Nat /\ pc = "ready" /\ outcome' = Verdict(plan[next].op, plan[next].limit)
           /\ outcome' # "done"
<1> DEFINE used == IF outcome' = "gas" THEN plan[next].limit ELSE Gas(plan[next].op)
<1>1. pc = "ready" /\ outcome' = Verdict(plan[next].op, plan[next].limit) /\ outcome' # "done"
      /\ Cost(plan[next]) <= eth /\ Charged(plan[next], used, 0)
  BY DEF Reverts
<1>2. plan[next].limit \in Nat /\ Gas(plan[next].op) \in Nat
  BY <1>1, PlanType, GasType DEF TypeOK
<1>3. used \in Nat /\ used <= plan[next].limit
  BY <1>1, <1>2 DEF Verdict
<1>4. 0 <= Value(plan[next].op)
  BY ValueType
<1> HIDE DEF used
<1> QED
  BY <1>1, <1>3, <1>4, ChargedSays

(* What a transaction that is mined has used.                              *)
LEMMA MinesSays ==
    ASSUME TypeOK, Mines
    PROVE  /\ eth' \in Nat /\ eth - Cost(plan[next]) <= eth'
           /\ coin' \in Nat /\ got' \in Nat /\ allowed' \in BOOLEAN
           /\ pc = "ready" /\ next' = next + 1
           /\ Verdict(plan[next].op, plan[next].limit) = "done"
           /\ allowed => allowed'
<1> DEFINE tx == plan[next]
<1>1. pc = "ready" /\ next' = next + 1 /\ Verdict(tx.op, tx.limit) = "done"
      /\ Cost(tx) <= eth /\ Charged(tx, Gas(tx.op), Value(tx.op))
  BY DEF Mines
<1>2. tx.limit \in Nat /\ Gas(tx.op) \in Nat /\ Value(tx.op) \in Nat
  BY <1>1, PlanType, GasType, ValueType DEF TypeOK
<1>3. Gas(tx.op) <= tx.limit /\ (tx.op = "swap" => coin >= Amount)
  BY <1>1, <1>2, VerdictSays
<1>4. eth' \in Nat /\ eth - Cost(tx) <= eth'
  BY <1>1, <1>2, <1>3, ChargedSays
<1>5. coin' \in Nat
  BY <1>3, AmountAssumption DEF Mines, TypeOK
<1>6. got' \in Nat /\ allowed' \in BOOLEAN /\ (allowed => allowed')
  BY DEF Mines, TypeOK
<1> QED
  BY <1>1, <1>4, <1>5, <1>6

LEMMA TypeOKStep == TypeOK /\ PlanOK /\ [Next]_vars => TypeOK'
<1> SUFFICES ASSUME TypeOK, PlanOK, [Next]_vars PROVE TypeOK'
  OBVIOUS
<1>1. CASE UNCHANGED vars
  BY <1>1 DEF TypeOK, vars
<1>2. CASE SwapQuote
  BY <1>2, QuoteSays DEF Show, TypeOK, wallet, market, Awaiting
<1>3. CASE Requote
  BY <1>3 DEF Requote, TypeOK, wallet, market, Awaiting
<1>4. CASE AskFees
  <2>1. maxFee' \in Nat
    BY <1>4, SetsAssumption DEF AskFees, ReadFees, PrepareBnb
  <2>2. CASE route = "BNB"
    <3>1. plan' = <<[op |-> "swapValue", limit |-> BscGas]>> /\ pc' = "ready" /\ next' = next
      BY <1>4, <2>2 DEF AskFees, ReadFees, PrepareBnb
    <3>2. plan' \in Seq(Tx) /\ Len(plan') = 1
      <4> DEFINE tx == [op |-> "swapValue", limit |-> BscGas]
      <4>1. tx \in Tx /\ plan' = <<tx>>
        BY <3>1, AmountAssumption DEF Tx, Op
      <4> HIDE DEF tx
      <4> QED
        BY <4>1
    <3>3. next = 1
      BY <1>4 DEF AskFees, ReadFees, PrepareBnb, PlanOK, Awaiting
    <3>4. Len(Ops[route]) = 1 /\ route \in Routes
      BY <2>2 DEF Ops, Routes, Priced, Uniswap, Testnet
    <3> QED
      <4>1. UNCHANGED <<wallet, market, route, seen, quote, got, outcome, moves, moved, spent>>
        BY <1>4 DEF AskFees, ReadFees, PrepareBnb
      <4>2. next' \in 1..(Len(plan') + 1) /\ next' <= Len(plan') /\ Len(plan') = Len(Ops[route])
        BY <3>1, <3>2, <3>3, <3>4
      <4> QED
        BY <2>1, <3>1, <3>2, <3>4, <4>1, <4>2 DEF TypeOK, wallet, market
  <2>3. CASE route # "BNB"
    BY <1>4, <2>1, <2>3 DEF AskFees, ReadFees, PrepareBnb, TypeOK, wallet, market, Awaiting
  <2> QED
    BY <2>2, <2>3
<1>5. CASE Estimate \/ EstimateOrFallback
  <2>1. PICK limit \in Nat :
            Add(Ops[route][Len(plan) + 1], limit, IF route \in Uniswap THEN "balance" ELSE "ready")
            /\ pc = "estimate"
    BY <1>5, EstimateCases
  <2>2. plan' \in Seq(Tx) /\ Len(plan') = Len(plan) + 1 /\ route \in Routes /\ Len(plan) \in Nat
    BY <2>1, NextOp, Added, PlanType
  <2>3. next' = 1 /\ route' = route
    BY <2>1 DEF Add, request, PlanOK, Awaiting
  <2>4. pc' \in {"estimate", "balance", "ready"} /\ (pc' = "ready" => Len(plan') = Len(Ops[route]))
    BY <2>1, <2>2 DEF Add, Complete
  <2> QED
    BY <2>1, <2>2, <2>3, <2>4 DEF Add, TypeOK, wallet, market, request, Awaiting
<1>6. CASE CheckBalance
  <2>1. pc = "balance" /\ pc' = "ready" /\ spent' = FALSE
        /\ UNCHANGED <<wallet, market, request, plan, next, got, outcome, moves, moved>>
    BY <1>6 DEF CheckBalance
  <2>2. route \in Routes /\ Len(plan) = Len(Ops[route]) /\ next = 1
    BY <2>1 DEF TypeOK, PlanOK, Awaiting
  <2>3. next <= Len(plan)
    BY <2>2, OpsType
  <2> QED
    BY <2>1, <2>2, <2>3 DEF TypeOK, wallet, market, request
<1>7. CASE Fails
  BY <1>7 DEF Fails, TypeOK, wallet, market, request, Awaiting
<1>8. CASE Refused
  BY <1>8 DEF Refused, TypeOK, wallet, market, request, Failures
<1>9. CASE Mines
  <2>1. next \in 1..Len(plan) /\ Len(plan) \in Nat /\ next' = next + 1
    BY <1>9, PlanType, MinesSays DEF TypeOK
  <2>2. next' \in 1..(Len(plan) + 1) /\ (next # Len(plan) => next' <= Len(plan))
    BY <2>1
  <2>3. pc' = "ready" => next # Len(plan)
    BY <1>9 DEF Mines
  <2>4. /\ plan' = plan /\ route' = route /\ pc = "ready" /\ pc' \in {"ready", "over"}
        /\ outcome' \in {outcome, "done"}
    BY <1>9 DEF Mines, request
  <2> QED
    BY <1>9, <2>2, <2>3, <2>4, MinesSays DEF Mines, TypeOK, market, request
<1>10. CASE Reverts
  <2>1. outcome' \in Failures
    BY <1>10, RevertsSays, VerdictType DEF Failures
  <2>2. eth' \in Nat /\ pc' = "over" /\ pc = "ready"
    BY <1>10, RevertsSays DEF Reverts
  <2> QED
    BY <1>10, <2>1, <2>2 DEF Reverts, TypeOK, market, request
<1>11. CASE WalletMoves \/ PriceMoves \/ GasMoves \/ Expires
  <2>0. moves' \in 0..MaxMoves
    BY <1>11, AmountAssumption DEF WalletMoves, PriceMoves, GasMoves, Expires, Open, TypeOK
  <2>1. moves' \in 0..MaxMoves /\ eth' \in Nat /\ coin' \in Nat /\ allowed' \in BOOLEAN
        /\ price' \in Nat /\ swapGas' \in Nat
    <3>1. CASE WalletMoves
      BY <2>0, <3>1, SetsAssumption DEF WalletMoves, TypeOK, market
    <3>2. CASE PriceMoves
      BY <2>0, <3>2, SetsAssumption DEF PriceMoves, TypeOK, wallet
    <3>3. CASE GasMoves
      BY <2>0, <3>3, SetsAssumption DEF GasMoves, TypeOK, wallet
    <3>4. CASE Expires
      BY <2>0, <3>4 DEF Expires, TypeOK, wallet, market
    <3> QED
      BY <1>11, <3>1, <3>2, <3>3, <3>4
  <2>2. moved' \subseteq {"wallet", "price", "gas", "late"} /\ spent' \in BOOLEAN
    BY <1>11 DEF WalletMoves, PriceMoves, GasMoves, Expires, TypeOK
  <2>3. UNCHANGED <<pc, request, plan, next, got, outcome>>
    BY <1>11 DEF WalletMoves, PriceMoves, GasMoves, Expires
  <2> QED
    BY <2>1, <2>2, <2>3 DEF TypeOK, request
<1> QED
  BY <1>1, <1>2, <1>3, <1>4, <1>5, <1>6, <1>7, <1>8, <1>9, <1>10, <1>11
  DEF Next, Idle, SwapQuote, AskFees

-----------------------------------------------------------------------------
(* The other parts of the invariant, step by step.                         *)

Moves == WalletMoves \/ PriceMoves \/ GasMoves \/ Expires

(* What market and wallet leave alone.                                     *)
LEMMA MovesSays ==
    ASSUME Moves
    PROVE  /\ UNCHANGED <<pc, route, seen, quote, maxFee, plan, next, got, outcome>>
           /\ pc \notin {"over", "failed"}
           /\ moved \subseteq moved'
BY DEF Moves, WalletMoves, PriceMoves, GasMoves, Expires, Open, request

LEMMA PlanOKStep == TypeOK /\ PlanOK /\ [Next]_vars => PlanOK'
<1> SUFFICES ASSUME TypeOK, PlanOK, [Next]_vars PROVE PlanOK'
  OBVIOUS
<1>0. Len(plan) \in Nat
  BY PlanType
<1>1. CASE UNCHANGED vars
  BY <1>1 DEF PlanOK, vars
<1>2. CASE SwapQuote
  <2>1. plan' = <<>> /\ next' = 1 /\ outcome' = "none" /\ pc' = "quote"
    BY <1>2, QuoteSays DEF Show, PlanOK
  <2> QED
    BY <2>1 DEF PlanOK, Awaiting
<1>3. CASE Requote \/ Fails
  <2>1. pc' \in {"fees", "failed"} /\ (pc' = "fees" => pc = "quote")
        /\ UNCHANGED <<route, plan, next, outcome>> /\ pc \in Awaiting
    BY <1>3 DEF Requote, Fails, request, Awaiting
  <2> QED
    BY <2>1 DEF PlanOK, Awaiting
<1>4. CASE AskFees
  <2>1. UNCHANGED <<route, next, outcome>> /\ pc = "fees" /\ pc' \in {"estimate", "ready"}
    BY <1>4 DEF AskFees, ReadFees, PrepareBnb
  <2>2. plan = <<>> /\ next = 1 /\ outcome = "none" /\ route \in Routes
    BY <2>1 DEF PlanOK, Awaiting, TypeOK
  <2>3. CASE route = "BNB"
    <3>1. plan' = <<[op |-> "swapValue", limit |-> BscGas]>> /\ pc' = "ready"
      BY <1>4, <2>3 DEF AskFees, ReadFees, PrepareBnb
    <3>2. Ops[route] = <<"swapValue">>
      BY <2>3 DEF Ops, Routes, Priced, Uniswap, Testnet
    <3> QED
      BY <2>1, <2>2, <3>1, <3>2 DEF PlanOK, Awaiting
  <2>4. CASE route # "BNB"
    <3>1. plan' = plan /\ pc' = "estimate" /\ Len(plan) = 0
      BY <1>4, <2>2, <2>4 DEF AskFees, ReadFees, PrepareBnb
    <3>2. Len(Ops[route]) \in 1..3
      BY <2>2, OpsType
    <3> QED
      BY <2>1, <2>2, <2>4, <3>1, <3>2 DEF PlanOK, Awaiting
  <2> QED
    BY <2>3, <2>4
<1>5. CASE Estimate \/ EstimateOrFallback
  <2> DEFINE op == Ops[route][Len(plan) + 1]
  <2>1. PICK limit \in Nat :
            Add(op, limit, IF route \in Uniswap THEN "balance" ELSE "ready")
            /\ pc = "estimate"
    BY <1>5, EstimateCases
  <2>2. /\ Len(plan') = Len(plan) + 1
        /\ \A i \in 1..Len(plan) : plan'[i] = plan[i]
        /\ plan'[Len(plan) + 1] = [op |-> op, limit |-> limit]
        /\ route \in Routes /\ Len(plan) + 1 \in 1..Len(Ops[route])
    BY <2>1, NextOp, Added
  <2>3. \A i \in 1..Len(plan') : plan'[i].op = Ops[route][i]
    <3> SUFFICES ASSUME NEW i \in 1..Len(plan') PROVE plan'[i].op = Ops[route][i]
      OBVIOUS
    <3>1. CASE i = Len(plan) + 1
      BY <2>2, <3>1
    <3>2. CASE i # Len(plan) + 1
      <4>1. i \in 1..Len(plan)
        BY <1>0, <2>2, <3>2
      <4> QED
        BY <2>2, <4>1 DEF PlanOK
    <3> QED
      BY <3>1, <3>2
  <2>4. Len(Ops[route]) \in 1..3
    BY <2>2, OpsType
  <2>5. pc' \in {"estimate", "balance", "ready"}
        /\ (pc' = "estimate" => Len(plan) + 1 # Len(Ops[route]))
        /\ (pc' = "balance" => Len(plan) + 1 = Len(Ops[route]) /\ route \in Uniswap)
    BY <2>1 DEF Add, Complete
  <2>6. UNCHANGED <<route, next, outcome>>
    BY <2>1 DEF Add, request
  <2> QED
    BY <1>0, <2>1, <2>2, <2>3, <2>4, <2>5, <2>6 DEF PlanOK, Awaiting
<1>6. CASE CheckBalance
  BY <1>6 DEF CheckBalance, PlanOK, request, Awaiting
<1>7. CASE Refused
  BY <1>7 DEF Refused, PlanOK, request, Awaiting
<1>8. CASE Mines
  <2>1. UNCHANGED <<route, plan>> /\ pc = "ready"
        /\ ((pc' = "over" /\ outcome' = "done") \/ UNCHANGED <<pc, outcome>>)
    BY <1>8 DEF Mines, request
  <2> QED
    BY <2>1 DEF PlanOK, Awaiting
<1>9. CASE Reverts
  <2>1. outcome' # "none"
    BY <1>9, RevertsSays, VerdictType
  <2> QED
    BY <1>9, <2>1 DEF Reverts, PlanOK, request, Awaiting
<1>10. CASE Moves
  BY <1>10, MovesSays DEF PlanOK
<1> QED
  BY <1>1, <1>2, <1>3, <1>4, <1>5, <1>6, <1>7, <1>8, <1>9, <1>10
  DEF Next, Idle, SwapQuote, AskFees, Moves

(* The steps after which no plan is being built or carried out.            *)
LEMMA NotBuilding ==
    ASSUME SwapQuote \/ Requote \/ Fails \/ Refused \/ Reverts
    PROVE  ~Building'
BY QuoteSays DEF Show, Requote, Fails, Refused, Reverts, Building

(* The steps that leave the plan, its route and its quote alone.           *)
LEMMA PlanKept ==
    ASSUME Moves \/ CheckBalance \/ Mines \/ UNCHANGED vars, Building'
    PROVE  Building /\ UNCHANGED <<route, quote, maxFee, plan>> /\ moved \subseteq moved'
<1>1. CASE Moves
  BY <1>1, MovesSays DEF Building
<1>2. CASE CheckBalance
  BY <1>2 DEF CheckBalance, Building, request
<1>3. CASE Mines
  BY <1>3 DEF Mines, Building, request
<1>4. CASE UNCHANGED vars
  BY <1>4 DEF vars, Building
<1> QED
  BY <1>1, <1>2, <1>3, <1>4

LEMMA MarginStep == TypeOK /\ PlanOK /\ Margin /\ [Next]_vars => Margin'
<1> SUFFICES ASSUME TypeOK, PlanOK, Margin, [Next]_vars,
                    Building', route' # "BNB", "gas" \notin moved',
                    NEW i \in 1..Len(plan')
             PROVE  Gas(plan[i].op)' <= plan[i].limit' \/ (route' \in Testnet /\ swapGas' > 400000)
  BY DEF Margin
<1>1. CASE Moves \/ CheckBalance \/ Mines \/ UNCHANGED vars
  <2>1. Building /\ UNCHANGED <<route, plan>> /\ "gas" \notin moved
    BY <1>1, PlanKept
  <2>2. swapGas' = swapGas
    <3>1. ~GasMoves
      BY DEF GasMoves
    <3> QED
      BY <1>1, <3>1 DEF Moves, WalletMoves, PriceMoves, Expires, CheckBalance, Mines, vars, market
  <2> QED
    BY <2>1, <2>2 DEF Margin, Gas
<1>2. CASE AskFees
  <2>1. plan' = plan /\ plan = <<>>
    BY <1>2 DEF AskFees, ReadFees, PrepareBnb, PlanOK
  <2> QED
    BY <2>1
<1>3. CASE Estimate \/ EstimateOrFallback
  <2> DEFINE op == Ops[route][Len(plan) + 1]
  <2>1. PICK limit \in Nat :
            /\ Add(op, limit, IF route \in Uniswap THEN "balance" ELSE "ready")
            /\ pc = "estimate"
            /\ Gas(op) <= limit \/ (route \in Testnet /\ swapGas > 400000)
    BY <1>3, EstimateCases
  <2>2. /\ Len(plan') = Len(plan) + 1
        /\ \A j \in 1..Len(plan) : plan'[j] = plan[j]
        /\ plan'[Len(plan) + 1] = [op |-> op, limit |-> limit]
    BY <2>1, NextOp, Added
  <2>3. UNCHANGED <<route, swapGas, moved>>
    BY <2>1 DEF Add, request, market
  <2>4. CASE i = Len(plan) + 1
    BY <2>1, <2>2, <2>3, <2>4 DEF Gas
  <2>5. CASE i # Len(plan) + 1
    <3>1. i \in 1..Len(plan)
      BY <2>2, <2>5, PlanType
    <3> QED
      BY <2>1, <2>2, <2>3, <3>1 DEF Margin, Gas, Building
  <2> QED
    BY <2>4, <2>5
<1> QED
  BY <1>1, <1>2, <1>3, NotBuilding DEF Next, Idle, SwapQuote, AskFees, Moves

(* What a step of the Uniswap builder adds holds of the chain as it is.    *)
LEMMA EstimatedSays ==
    ASSUME TypeOK, PlanOK, Estimate \/ EstimateOrFallback, route \in Uniswap
    PROVE  LET op == Ops[route][Len(plan) + 1] IN
           /\ Len(plan') = Len(plan) + 1
           /\ \A i \in 1..Len(plan) : plan'[i] = plan[i]
           /\ plan'[Len(plan) + 1].op = op
           /\ op = "swap" => coin >= Amount /\ allowed
           /\ op \in Swaps => ~(price < Minimum(route, quote))
           /\ pc = "estimate" /\ next' = 1
           /\ UNCHANGED <<wallet, market, request, moved, spent>>
<1> DEFINE op == Ops[route][Len(plan) + 1]
<1>1. PICK limit \in Nat :
          /\ Add(op, limit, "balance")
          /\ pc = "estimate" /\ Simulates(op)
  BY EstimateCases
<1>2. /\ Len(plan') = Len(plan) + 1
      /\ \A i \in 1..Len(plan) : plan'[i] = plan[i]
      /\ plan'[Len(plan) + 1] = [op |-> op, limit |-> limit]
  BY <1>1, NextOp, Added
<1>3. Gas(op) \in Nat /\ Verdict(op, Gas(op)) = "done"
  BY <1>1, GasType DEF Simulates
<1>4. (op = "swap" => coin >= Amount /\ allowed)
      /\ (op \in Swaps => ~(price < Minimum(route, quote)))
  BY <1>3, VerdictSays
<1>5. next' = 1 /\ UNCHANGED <<wallet, market, request, moved, spent>>
  BY <1>1 DEF Add, PlanOK, Awaiting
<1> QED
  BY <1>1, <1>2, <1>4, <1>5

LEMMA WorthStep == TypeOK /\ PlanOK /\ Worth /\ [Next]_vars => Worth'
<1> SUFFICES ASSUME TypeOK, PlanOK, Worth, [Next]_vars,
                    Building', route' \in Uniswap, "price" \notin moved',
                    NEW i \in 1..Len(plan'), plan'[i].op \in Swaps
             PROVE  ~(price' < Minimum(route, quote)')
  BY DEF Worth
<1>1. CASE Moves \/ CheckBalance \/ Mines \/ UNCHANGED vars
  <2>1. Building /\ UNCHANGED <<route, quote, plan>> /\ "price" \notin moved
    BY <1>1, PlanKept
  <2>2. price' = price
    <3>1. ~PriceMoves
      BY DEF PriceMoves
    <3> QED
      BY <1>1, <3>1 DEF Moves, WalletMoves, GasMoves, Expires, CheckBalance, Mines, vars, market
  <2> QED
    BY <2>1, <2>2 DEF Worth, Minimum
<1>2. CASE AskFees
  <2>1. route' = route
    BY <1>2 DEF AskFees, ReadFees, PrepareBnb
  <2>2. plan' = plan /\ plan = <<>>
    BY <1>2, <2>1 DEF AskFees, ReadFees, PrepareBnb, PlanOK, Uniswap
  <2> QED
    BY <2>2
<1>3. CASE Estimate \/ EstimateOrFallback
  <2>1. route \in Uniswap
    BY <1>3 DEF Estimate, EstimateOrFallback, Add, request
  <2>2. UNCHANGED <<route, quote, price, moved>> /\ pc = "estimate"
    BY <1>3, <2>1, EstimatedSays DEF request, market
  <2>3. CASE i = Len(plan) + 1
    BY <1>3, <2>1, <2>2, <2>3, EstimatedSays DEF Minimum
  <2>4. CASE i # Len(plan) + 1
    <3>1. i \in 1..Len(plan) /\ plan'[i] = plan[i]
      BY <1>3, <2>1, <2>4, EstimatedSays, PlanType
    <3> QED
      BY <2>1, <2>2, <3>1 DEF Worth, Building, Minimum
  <2> QED
    BY <2>3, <2>4
<1> QED
  BY <1>1, <1>2, <1>3, NotBuilding DEF Next, Idle, SwapQuote, AskFees, Moves

(* The last transaction of a plan of the Uniswap builder is its swap, and  *)
(* the one before it, if any, its wrap.                                    *)
LEMMA LastIsSwap ==
    ASSUME TypeOK, PlanOK, pc = "ready", route \in Uniswap
    PROVE  /\ Len(plan) \in 1..2 /\ next \in 1..Len(plan)
           /\ \A i \in 1..Len(plan) : plan[i].op \in Swaps <=> i = Len(plan)
           /\ next # Len(plan) => next = 1 /\ Len(plan) = 2 /\ plan[1].op = "wrap"
<1>1. route \in Routes /\ Len(plan) = Len(Ops[route]) /\ next \in 1..Len(plan)
  BY PlanType DEF TypeOK
<1>2. Len(plan) \in 1..2
  <2>1. Len(Ops[route]) \in 1..3 /\ Len(Ops[route]) <= 2
    BY <1>1, OpsType
  <2> QED
    BY <1>1, <2>1
<1>3. \A i \in 1..Len(plan) :
        plan[i].op \in Op \ {"approve"} /\ (plan[i].op \in Swaps <=> i = Len(plan))
  BY <1>1, OpsType DEF PlanOK
<1>4. next # Len(plan) => next = 1 /\ Len(plan) = 2 /\ plan[1].op = "wrap"
  BY <1>1, <1>2, <1>3 DEF Op, Swaps
<1> QED
  BY <1>1, <1>2, <1>3, <1>4

LEMMA HoldsStep == TypeOK /\ PlanOK /\ Holds /\ [Next]_vars => Holds'
<1> SUFFICES ASSUME TypeOK, PlanOK, Holds, [Next]_vars,
                    Building', route' \in Uniswap, "wallet" \notin moved',
                    NEW i \in 1..Len(plan'), plan'[i].op = "swap"
             PROVE  allowed' /\ coin' >= Amount /\ (next' = 2 => coin' >= Amount + Amount)
  BY DEF Holds
<1>1. CASE Moves \/ CheckBalance \/ UNCHANGED vars
  <2>1. Building /\ UNCHANGED <<route, plan>> /\ "wallet" \notin moved
    BY <1>1, PlanKept
  <2>2. UNCHANGED <<coin, allowed, next>>
    <3>1. ~WalletMoves
      BY DEF WalletMoves
    <3> QED
      BY <1>1, <3>1 DEF Moves, PriceMoves, GasMoves, Expires, CheckBalance, vars, wallet
  <2> QED
    BY <2>1, <2>2 DEF Holds
<1>2. CASE Mines
  <2>1. Building /\ UNCHANGED <<route, plan>> /\ "wallet" \notin moved
    BY <1>2, PlanKept
  <2>2. pc = "ready" /\ next # Len(plan) /\ next' = next + 1
    BY <1>2 DEF Mines, Building
  <2>3. next = 1 /\ plan[next].op = "wrap"
    BY <2>1, <2>2, LastIsSwap
  <2>4. coin' = coin + Amount /\ (allowed => allowed')
    BY <1>2, <2>3 DEF Mines
  <2>5. allowed /\ coin >= Amount
    BY <2>1 DEF Holds
  <2> QED
    BY <2>4, <2>5, AmountAssumption DEF TypeOK
<1>3. CASE AskFees
  <2>1. route' = route
    BY <1>3 DEF AskFees, ReadFees, PrepareBnb
  <2>2. plan' = plan /\ plan = <<>>
    BY <1>3, <2>1 DEF AskFees, ReadFees, PrepareBnb, PlanOK, Uniswap
  <2> QED
    BY <2>2
<1>4. CASE Estimate \/ EstimateOrFallback
  <2>1. route \in Uniswap
    BY <1>4 DEF Estimate, EstimateOrFallback, Add, request
  <2>2. UNCHANGED <<route, coin, allowed, moved>> /\ pc = "estimate" /\ next' = 1
    BY <1>4, <2>1, EstimatedSays DEF request, wallet
  <2>3. CASE i = Len(plan) + 1
    BY <1>4, <2>1, <2>2, <2>3, EstimatedSays
  <2>4. CASE i # Len(plan) + 1
    <3>1. i \in 1..Len(plan) /\ plan'[i] = plan[i]
      BY <1>4, <2>1, <2>4, EstimatedSays, PlanType
    <3> QED
      BY <2>1, <2>2, <3>1 DEF Holds, Building
  <2> QED
    BY <2>3, <2>4
<1> QED
  BY <1>1, <1>2, <1>3, <1>4, NotBuilding DEF Next, Idle, SwapQuote, AskFees, Moves

LEMMA FundsStep == TypeOK /\ PlanOK /\ Funds /\ [Next]_vars => Funds'
<1> SUFFICES ASSUME TypeOK, PlanOK, Funds, [Next]_vars, pc' = "ready", route' \in Uniswap
             PROVE  /\ ~spent' => eth' >= (IF next' = 1 THEN Total' ELSE CostOf(2)')
                    /\ spent' => "wallet" \in moved'
  BY DEF Funds
<1>0. Building'
  BY DEF Building
<1>1. CASE Mines
  <2>1. UNCHANGED <<route, maxFee, plan, moved, spent>> /\ pc = "ready"
        /\ next # Len(plan)
    BY <1>1 DEF Mines, request
  <2>2. next = 1 /\ Len(plan) = 2 /\ next' = 2
    BY <1>1, <2>1, LastIsSwap, MinesSays
  <2>3. eth - Cost(plan[1]) <= eth' /\ eth' \in Nat
    BY <1>1, <2>2, MinesSays
  <2>4. CostOf(1) = Cost(plan[1]) /\ CostOf(2) = Cost(plan[2]) /\ Total = CostOf(1) + CostOf(2)
    BY <2>2 DEF CostOf, Total
  <2>5. Cost(plan[1]) \in Nat /\ Cost(plan[2]) \in Nat
    <3>1. plan[1].limit \in Nat /\ plan[2].limit \in Nat /\ maxFee \in Nat
      BY <2>2, PlanType DEF TypeOK
    <3> QED
      BY <3>1, ValueType, Monotone DEF Cost
  <2>6. CostOf(2)' = CostOf(2)
    BY <2>1 DEF CostOf, Cost
  <2>7. ~spent => eth >= Total
    BY <2>1, <2>2 DEF Funds
  <2>8. ~spent => eth' >= CostOf(2)
    BY <2>3, <2>4, <2>5, <2>7 DEF TypeOK
  <2> QED
    BY <2>1, <2>2, <2>6, <2>8 DEF Funds
<1>2. CASE CheckBalance
  <2>1. spent' = FALSE /\ next = 1 /\ eth >= Total
        /\ UNCHANGED <<eth, maxFee, plan, next>>
    BY <1>2 DEF CheckBalance, wallet, request, PlanOK, Awaiting
  <2> QED
    BY <2>1 DEF Total, CostOf, Cost
<1>3. CASE Moves
  <2>1. UNCHANGED <<pc, route, maxFee, plan, next>> /\ moved \subseteq moved'
    BY <1>3, MovesSays
  <2>2. CASE WalletMoves
    BY <2>2 DEF WalletMoves
  <2>3. CASE ~WalletMoves
    <3>1. UNCHANGED <<eth, spent>>
      BY <1>3, <2>3 DEF Moves, PriceMoves, GasMoves, Expires, wallet
    <3> QED
      BY <2>1, <3>1 DEF Funds, Total, CostOf, Cost
  <2> QED
    BY <2>2, <2>3
<1>4. CASE UNCHANGED vars
  BY <1>4 DEF vars, Funds, Total, CostOf, Cost
<1>5. CASE AskFees \/ Estimate \/ EstimateOrFallback
  <2>1. CASE AskFees
    BY <2>1 DEF AskFees, ReadFees, PrepareBnb, Uniswap
  <2>2. CASE Estimate
    <3>1. pc' = IF Complete THEN "balance" ELSE "estimate"
      BY <2>2 DEF Estimate, Add
    <3> QED
      BY <3>1
  <2>3. CASE EstimateOrFallback
    <3>1. route \in Testnet /\ route' = route
      BY <2>3 DEF EstimateOrFallback, Add, request
    <3> QED
      BY <3>1 DEF Testnet, Uniswap
  <2> QED
    BY <1>5, <2>1, <2>2, <2>3
<1> QED
  BY <1>0, <1>1, <1>2, <1>3, <1>4, <1>5, NotBuilding DEF Next, Idle, SwapQuote, AskFees, Moves

LEMMA YieldsStep == TypeOK /\ PlanOK /\ Yields /\ [Next]_vars => Yields'
<1> SUFFICES ASSUME TypeOK, PlanOK, Yields, [Next]_vars PROVE Yields'
  OBVIOUS
<1>1. CASE UNCHANGED vars
  BY <1>1 DEF vars, Yields, Building, Computable, Minimum
<1>2. CASE SwapQuote \/ Requote \/ Fails
  <2>1. pc' \in {"quote", "fees", "failed"} /\ outcome' = "none"
    BY <1>2, QuoteSays DEF Show, Requote, Fails, PlanOK, Awaiting
  <2> QED
    BY <2>1 DEF Yields, Building
<1>3. CASE AskFees
  <2>1. Computable(route) /\ route' = route /\ outcome' = "none"
    BY <1>3 DEF AskFees, ReadFees, PrepareBnb, PlanOK
  <2> QED
    BY <2>1 DEF Yields, Computable
<1>4. CASE Estimate \/ EstimateOrFallback \/ CheckBalance \/ (Moves /\ Building)
  <2>1. Building /\ UNCHANGED <<route, outcome>> /\ outcome = "none"
    <3>1. CASE Estimate \/ EstimateOrFallback
      BY <3>1 DEF Estimate, EstimateOrFallback, Add, request, Building, PlanOK
    <3>2. CASE CheckBalance
      BY <3>2 DEF CheckBalance, request, Building, PlanOK
    <3>3. CASE Moves /\ Building
      BY <3>3, MovesSays DEF Building, PlanOK
    <3> QED
      BY <1>4, <3>1, <3>2, <3>3
  <2> QED
    BY <2>1 DEF Yields, Computable
<1>5. CASE Refused \/ Reverts
  <2>1. outcome' # "done" /\ route' = route /\ Building
    BY <1>5, RevertsSays DEF Refused, Reverts, request, Building
  <2> QED
    BY <2>1 DEF Yields, Computable
<1>6. CASE Mines
  <2>1. pc = "ready" /\ UNCHANGED <<route, quote, plan>> /\ outcome = "none" /\ Building
    BY <1>6 DEF Mines, request, PlanOK, Building
  <2>2. ASSUME outcome' = "done", route \in Priced PROVE ~(got' < Minimum(route, quote))
    <3>1. next = Len(plan) /\ next \in 1..Len(plan)
      BY <1>6, <2>1, <2>2, PlanType DEF Mines, TypeOK
    <3>2. plan[next].op \in Swaps
      <4>1. CASE route \in Uniswap
        BY <2>1, <3>1, <4>1, LastIsSwap
      <4>2. CASE route = "BNB"
        <5>1. Ops[route] = <<"swapValue">>
          BY <4>2 DEF Ops, Routes, Priced, Uniswap, Testnet
        <5> QED
          BY <2>1, <3>1, <5>1 DEF PlanOK, TypeOK, Swaps
      <4> QED
        BY <2>2, <4>1, <4>2 DEF Priced
    <3>3. ~(price < Minimum(route, quote))
      <4>1. plan[next].limit \in Nat /\ Verdict(plan[next].op, plan[next].limit) = "done"
        BY <1>6, <3>1, PlanType, MinesSays
      <4> QED
        BY <3>2, <4>1, VerdictSays
    <3>4. got' = price
      BY <1>6, <3>2 DEF Mines, Swaps
    <3> QED
      BY <3>3, <3>4
  <2> QED
    BY <2>1, <2>2 DEF Yields, Computable, Minimum
<1>7. CASE Moves /\ ~Building
  <2>1. ~Building' /\ pc' # "over" /\ outcome' = "none"
    BY <1>7, MovesSays DEF Building, PlanOK
  <2> QED
    BY <2>1 DEF Yields
<1> QED
  BY <1>1, <1>2, <1>3, <1>4, <1>5, <1>6, <1>7 DEF Next, Idle, SwapQuote, AskFees, Moves

LEMMA ResultsStep == IInv /\ PlanOK' /\ [Next]_vars => Results'
<1> SUFFICES ASSUME IInv, PlanOK', [Next]_vars PROVE Results'
  OBVIOUS
<1>0. TypeOK /\ PlanOK
  BY DEF IInv
<1>1. CASE pc' # "over"
  <2>1. outcome' = "none"
    BY <1>1 DEF PlanOK
  <2> QED
    BY <2>1 DEF Results, FundedUnlessSpent, FailureHasCause, GasSuffices, WrapIsSpare, Failures
<1>2. CASE Mines /\ pc' = "over"
  <2>1. outcome' = "done" /\ pc = "ready" /\ next = Len(plan)
        /\ UNCHANGED <<route, plan, moved>>
    BY <1>2 DEF Mines, request
  <2>2. ASSUME route = "WETH", "wallet" \notin moved PROVE coin' >= Amount
    <3>1. route \in Uniswap /\ Building
      BY <2>1, <2>2 DEF Uniswap, Building
    <3>2. Len(plan) = 2 /\ next = 2 /\ plan[next].op = "swap"
      <4>1. Ops[route] = <<"wrap", "swap">>
        BY <2>2 DEF Ops, Routes, Priced, Uniswap
      <4>2. Len(plan) = 2
        BY <1>0, <2>1, <4>1 DEF TypeOK
      <4> QED
        BY <1>0, <2>1, <2>2, <4>1, <4>2 DEF PlanOK
    <3>3. coin >= Amount + Amount
      BY <2>1, <2>2, <3>1, <3>2 DEF IInv, Holds
    <3>4. coin' = coin - Amount
      BY <1>2, <3>2 DEF Mines
    <3> QED
      BY <1>0, <3>3, <3>4, AmountAssumption DEF TypeOK
  <2> QED
    BY <2>1, <2>2 DEF Results, FundedUnlessSpent, FailureHasCause, GasSuffices, WrapIsSpare,
       Failures
<1>3. CASE Refused
  <2>1. outcome' = "funds" /\ pc = "ready" /\ eth < Cost(plan[next])
        /\ UNCHANGED <<route, moved, spent>>
    BY <1>3 DEF Refused, request
  <2>2. ASSUME route \in Uniswap PROVE spent /\ "wallet" \in moved
    <3>1. Len(plan) \in 1..2 /\ next \in 1..Len(plan)
      BY <1>0, <2>1, <2>2, LastIsSwap
    <3>2. \A i \in 1..Len(plan) : CostOf(i) = Cost(plan[i]) /\ CostOf(i) \in Nat
      <4> SUFFICES ASSUME NEW i \in 1..Len(plan)
                   PROVE  CostOf(i) = Cost(plan[i]) /\ CostOf(i) \in Nat
        OBVIOUS
      <4>1. CostOf(i) = Cost(plan[i])
        BY <3>1 DEF CostOf
      <4>2. plan[i].limit \in Nat /\ maxFee \in Nat
        BY <1>0, PlanType DEF TypeOK
      <4>3. plan[i].limit * maxFee \in Nat
        BY <4>2, Monotone
      <4> QED
        BY <4>1, <4>3, ValueType DEF Cost
    <3>3. CostOf(2) \in Nat
      <4>1. CASE Len(plan) = 2
        BY <3>2, <4>1
      <4>2. CASE Len(plan) = 1
        BY <4>2 DEF CostOf
      <4> QED
        BY <3>1, <4>1, <4>2
    <3>4. ASSUME ~spent PROVE FALSE
      <4>1. eth >= (IF next = 1 THEN Total ELSE CostOf(2))
        BY <2>1, <2>2, <3>4 DEF IInv, Funds
      <4>2. CASE next = 1
        <5>1. Total >= Cost(plan[1])
          BY <3>1, <3>2, <3>3 DEF Total
        <5> QED
          BY <1>0, <2>1, <3>1, <3>2, <3>3, <4>1, <4>2, <5>1 DEF Total, TypeOK
      <4>3. CASE next = 2
        BY <1>0, <2>1, <3>1, <3>2, <4>1, <4>3 DEF TypeOK
      <4>4. next = 1 \/ next = 2
        <5>1. Len(plan) = 1 \/ Len(plan) = 2
          BY <3>1
        <5>2. CASE Len(plan) = 1
          <6>1. next \in 1..1
            BY <3>1, <5>2
          <6> QED
            BY <6>1
        <5>3. CASE Len(plan) = 2
          <6>1. next \in 1..2
            BY <3>1, <5>3
          <6> QED
            BY <6>1
        <5> QED
          BY <5>1, <5>2, <5>3
      <4> QED
        BY <4>2, <4>3, <4>4
    <3>5. spent
      BY <1>0, <3>4 DEF TypeOK
    <3> QED
      BY <2>1, <2>2, <3>5 DEF IInv, Funds
  <2> QED
    BY <2>1, <2>2 DEF Results, FundedUnlessSpent, FailureHasCause, GasSuffices, WrapIsSpare,
       Failures, Cause
<1>4. CASE Reverts
  <2> DEFINE tx == plan[next]
  <2>1. pc = "ready" /\ outcome' = Verdict(tx.op, tx.limit) /\ outcome' # "done"
        /\ UNCHANGED <<route, swapGas, moved, plan>> /\ Building
    BY <1>0, <1>4, RevertsSays DEF Reverts, request, market, Building
  <2>2. next \in 1..Len(plan) /\ tx.limit \in Nat /\ route \in Routes
    BY <1>0, <2>1, PlanType DEF TypeOK
  <2>3. ASSUME route \in Uniswap PROVE Cause[outcome'] \in moved
    <3>1. CASE outcome' = "gas"
      <4>1. Gas(tx.op) > tx.limit /\ Gas(tx.op) \in Nat
        BY <1>0, <2>1, <2>2, <3>1, VerdictSays, GasType
      <4>2. route # "BNB" /\ route \notin Testnet
        BY <2>3 DEF Uniswap, Testnet
      <4>3. "gas" \in moved
        BY <2>1, <2>2, <4>1, <4>2 DEF IInv, Margin
      <4> QED
        BY <3>1, <4>3 DEF Cause
    <3>2. CASE outcome' = "transfer"
      <4>1. tx.op = "swap" /\ (coin < Amount \/ ~allowed)
        BY <1>0, <2>1, <2>2, <3>2, VerdictSays
      <4>2. "wallet" \in moved
        BY <1>0, <2>1, <2>2, <2>3, <4>1, AmountAssumption DEF IInv, Holds, TypeOK
      <4> QED
        BY <3>2, <4>2 DEF Cause
    <3>3. CASE outcome' = "price"
      <4>1. tx.op \in Swaps /\ price < Minimum(route, quote)
        BY <1>0, <2>1, <2>2, <3>3, VerdictSays
      <4>2. "price" \in moved
        BY <2>1, <2>2, <2>3, <4>1 DEF IInv, Worth
      <4> QED
        BY <3>3, <4>2 DEF Cause
    <3>4. CASE outcome' = "deadline"
      <4>1. "late" \in moved
        BY <1>0, <2>1, <2>2, <3>4, VerdictSays
      <4> QED
        BY <3>4, <4>1 DEF Cause
    <3> QED
      BY <2>1, <3>1, <3>2, <3>3, <3>4, VerdictType
  <2>4. ASSUME route \in Testnet, outcome' = "gas" PROVE "gas" \in moved \/ swapGas > 400000
    <3>1. Gas(tx.op) > tx.limit /\ Gas(tx.op) \in Nat
      BY <1>0, <2>1, <2>2, <2>4, VerdictSays, GasType
    <3>2. route # "BNB"
      BY <2>4 DEF Testnet
    <3> QED
      BY <2>1, <2>2, <3>1, <3>2 DEF IInv, Margin
  <2>5. outcome' # "funds"
    BY <2>1, VerdictType
  <2> QED
    BY <2>1, <2>3, <2>4, <2>5 DEF Results, FundedUnlessSpent, FailureHasCause, GasSuffices,
       WrapIsSpare
<1>5. CASE UNCHANGED vars
  BY <1>5 DEF IInv, vars, Results, FundedUnlessSpent, FailureHasCause, GasSuffices, WrapIsSpare
<1>6. CASE pc' = "over" /\ ~Refused /\ ~Reverts /\ ~Mines /\ ~(UNCHANGED vars)
  <2>1. ~Moves
    BY <1>6, MovesSays
  <2>2. ~SwapQuote /\ ~Requote /\ ~AskFees /\ ~CheckBalance /\ ~Fails
    BY <1>6, QuoteSays DEF Show, Requote, AskFees, ReadFees, PrepareBnb, CheckBalance, Fails
  <2>3. ~Estimate /\ ~EstimateOrFallback
    BY <1>6 DEF Estimate, EstimateOrFallback, Add
  <2> QED
    BY <1>6, <2>1, <2>2, <2>3 DEF Next, Idle, SwapQuote, AskFees, Moves
<1> QED
  BY <1>1, <1>2, <1>3, <1>4, <1>5, <1>6

LEMMA Invariant == Spec => []IInv
<1>1. IInv /\ [Next]_vars => IInv'
  BY TypeOKStep, PlanOKStep, MarginStep, WorthStep, HoldsStep, FundsStep, YieldsStep,
     ResultsStep DEF IInv
<1> QED
  BY <1>1, IInvInit, PTL DEF Spec

-----------------------------------------------------------------------------
(* The theorems.                                                           *)

(* Every variable keeps its type: a plan is never longer than its route's, *)
(* no subtraction of the wallet's goes below zero.                         *)
THEOREM TypeCorrect == Spec => []TypeOK
BY Invariant, PTL DEF IInv

(* A plan that passed the check of eth.uniswap.service.ts:235 can be paid  *)
(* for to its last transaction, at any price a block may charge, unless the*)
(* wallet was used for something else after the check.                     *)
THEOREM Funded == Spec => []FundedUnlessSpent
BY Invariant, PTL DEF IInv, Results

(* A plan of eth.uniswap.service.ts fails only of what changed since its   *)
(* quote, whatever the slippage, the amounts and the prices.               *)
THEOREM HasCause == Spec => []FailureHasCause
BY Invariant, PTL DEF IInv, Results

(* The gas limits of eth.testnet.service.ts:247 suffice for a swap of at   *)
(* most 400000, unless the need rose after it was estimated.               *)
THEOREM Gases == Spec => []GasSuffices
BY Invariant, PTL DEF IInv, Results

(* A WETH plan is only returned to a wallet that holds the amount already. *)
THEOREM Spare == Spec => []WrapIsSpare
BY Invariant, PTL DEF IInv, Results

(* A swap yields less than the slippage leaves of the quote the user saw   *)
(* (eth.uniswap.service.ts:107, bsc.service.ts:99) only if the price fell  *)
(* before prepare read its own, or the units of the BSC quote mislead.     *)
THEOREM Shortfall == Spec => []ShortfallNeedsMove
<1>1. IInv => ShortfallNeedsMove
  <2> SUFFICES ASSUME IInv, route \in Priced, outcome = "done",
                      got < Minimum(route, Shown(route, seen)), ~(quote < seen),
                      ~(route = "BNB" /\ OutUnit > InUnit)
               PROVE  FALSE
    BY DEF ShortfallNeedsMove
  <2>1. seen \in Nat /\ quote \in Nat /\ got \in Nat /\ Computable(route)
        /\ ~(got < Minimum(route, quote))
    BY DEF IInv, TypeOK, Yields, PlanOK
  <2>2. Shown(route, seen) \in Nat /\ Shown(route, seen) <= seen
    BY <2>1, ShownSays
  <2>3. Shown(route, seen) <= quote
    BY <2>1, <2>2
  <2>4. /\ Minimum(route, Shown(route, seen)) <= Minimum(route, quote)
        /\ Minimum(route, Shown(route, seen)) \in Nat /\ Minimum(route, quote) \in Nat
    BY <2>1, <2>2, <2>3, MinimumMonotone
  <2> QED
    BY <2>1, <2>4
<1> QED
  BY <1>1, Invariant, PTL
=============================================================================

----------------------------- MODULE ChainReads -----------------------------
(***************************************************************************)
(* Requests that ask the chains and answer what they saw: wallet info,     *)
(* balances, token info and transaction/prepare of eth.service.ts and      *)
(* bsc.service.ts, the nonce of eth.testnet.service.ts, the USDT swap, and *)
(* the quotes, plans and estimates of bsc.pancake.service.ts.              *)
(*                                                                         *)
(* A request makes some calls side by side (Promise.all) and others one    *)
(* after another, each at the endpoint its service was given at startup or *)
(* takes from the rotation.  Endpoints follow their chain at their own     *)
(* pace and never go back.                                                 *)
(***************************************************************************)
EXTENDS ProviderService, Sequences

CONSTANTS
    Bsc,              \* PROVIDER_RPC_BSC
    Requests,
    Traffic,          \* the requests of a behaviour: functions in
                      \* [Requests -> Body \cup {None}], None for one that never comes
    Turns,            \* the turns of the rotation the constructors may take
    Genesis,          \* the first block of each network
    Prices,           \* what the pair may yield for the amount
    PancakeSlippage,  \* PANCAKE_SLIPPAGE
    None,
    MaxBlocks         \* bound on the length of each chain

\* Which service, and so which provider, a request goes to.
Holder ==
    [ethInfo |-> "EthService", ethBalance |-> "EthService", ethSend |-> "EthService",
     ethTokens |-> "EthService", usdtSwap |-> "EthService",
     testnetSwap |-> "EthTestnetSwapService",
     bscInfo |-> "BscService", bscBalance |-> "BscService", bscSend |-> "BscService",
     bscTokens |-> "BscService", bscUsdt |-> "BscService",
     quote |-> "PancakeSwapService", create |-> "PancakeSwapService",
     gas |-> "PancakeSwapService"]
Ops == DOMAIN Holder
Holders == {Holder[op] : op \in Ops} \cup {"factoryContract", "quoterContract"}

Info == {"nonce", "fees"}
Send == {"nonce", "estimate", "fees", "network"}
Tokens == {"token1", "token2"}
Quote == {"inToken", "outToken", "quotePair"}
Again == {"inAgain", "outAgain"}
Plan == Quote \cup Again \cup {"pair", "count", "planFees", "allowance", "approvalFees"}
Calls ==
    [ethInfo |-> Info, ethBalance |-> {"native"}, ethSend |-> Send, ethTokens |-> Tokens,
     usdtSwap |-> {"pool", "poolFee", "quoted"},
     testnetSwap |-> {"nonce", "swapNetwork", "swapFees"},
     bscInfo |-> Info, bscBalance |-> {"native"}, bscSend |-> Send, bscTokens |-> Tokens,
     bscUsdt |-> {"native", "token1"},
     quote |-> Quote, create |-> Plan, gas |-> Plan \cup {"simulate"}]
AllCalls == UNION {Calls[op] : op \in Ops}

\* Calls for what no block changes, or for what nothing here depends on.
Fixed == {"inToken", "outToken", "inAgain", "outAgain", "count", "planFees", "approvalFees",
          "simulate"}

\* The calls that are awaited before this one is made.
Follows ==
    {<<"poolFee", "pool">>, <<"quoted", "poolFee">>,
     <<"swapNetwork", "nonce">>, <<"swapFees", "swapNetwork">>,
     <<"outToken", "inToken">>, <<"quotePair", "inToken">>, <<"quotePair", "outToken">>}
    \cup ({"pair", "count", "planFees"} \X ({"quotePair"} \cup Again))
    \cup ({"allowance"} \X {"pair", "count", "planFees"})
    \cup {<<"approvalFees", "allowance">>} \cup ({"simulate"} \X Plan)

\* Of a swap on BSC: which side is BNB, and the slippage in 1/1000 percent.
Body == [op : Ops, bnb : {{}, {"in"}, {"out"}}, slippage : Nat]
Block == [nonce : Nat, price : Prices, allowed : BOOLEAN]
Networks == {"ETH", "BSC"}
Endpoints == Urls \cup {Bsc, NoUrl}
Network(e) == IF e = Bsc THEN "BSC" ELSE "ETH"

ASSUME BscAssumption == Bsc \notin Urls \cup {NoUrl}
ASSUME TrafficAssumption == Traffic \subseteq [Requests -> Body \cup {None}]
ASSUME TurnsAssumption ==
    Turns \subseteq [{"EthService", "EthTestnetSwapService", "PancakeSwapService"} -> Nat]
ASSUME PricesAssumption == Prices \subseteq Nat /\ Genesis \in Block
ASSUME SlippageAssumption == None \notin Nat /\ PancakeSlippage \in Nat \cup {None}
ASSUME MaxBlocksAssumption == MaxBlocks \in Nat

VARIABLES
    provider,  \* the endpoint each service was given
    chain,     \* the blocks of each network
    height,    \* how many of them each endpoint knows
    pc,        \* where each request stands
    body,      \* what it asks
    drawn,     \* the endpoints it took from the rotation
    seen,      \* the height at which each of its calls was answered, 0 before
    top,       \* history: the highest nonce each service has answered
    floor,     \* history: top when the request began
    learnt     \* history: whether its provider's endpoint learnt a block since

rotation == <<counter, handed>>
chains == <<chain, height>>
vars == <<rotation, provider, chains, pc, body, drawn, seen, top, floor, learnt>>

TypeOK ==
    /\ counter \in Nat
    /\ provider \in [Holders -> Endpoints]
    /\ chain \in [Networks -> Seq(Block)]
    /\ height \in [Endpoints -> Nat]
    /\ \A e \in Endpoints : height[e] \in 1..Len(chain[Network(e)])
    /\ pc \in [Requests -> {"idle", "calls", "answered", "limit", "failed"}]
    /\ body \in [Requests -> Body \cup {None}]
    /\ \A r \in Requests : pc[r] # "idle" => body[r] \in Body
    /\ drawn \in [Requests -> Endpoints \X Endpoints]
    /\ seen \in [Requests -> [AllCalls -> Nat]]
    /\ top \in [Holders -> Nat] /\ floor \in [Requests -> [Holders -> Nat]]
    /\ learnt \in [Requests -> BOOLEAN]

\* Each constructor takes its endpoints in a row; the order of constructors is open.
Init ==
    /\ ProviderInit
    /\ \E turn \in Turns :
        provider = [h \in Holders |->
            IF h = "BscService" THEN Bsc
            ELSE IF h = "factoryContract" THEN Url(turn["EthService"] + 1)
            ELSE IF h = "quoterContract" THEN Url(turn["EthService"] + 2)
            ELSE Url(turn[h])]
    /\ chain = [n \in Networks |-> <<Genesis>>]
    /\ height = [e \in Endpoints |-> 1]
    /\ pc = [r \in Requests |-> "idle"]
    /\ body \in Traffic
    /\ drawn = [r \in Requests |-> <<NoUrl, NoUrl>>]
    /\ seen = [r \in Requests |-> [c \in AllCalls |-> 0]]
    /\ top = [h \in Holders |-> 0]
    /\ floor = [r \in Requests |-> top]
    /\ learnt = [r \in Requests |-> FALSE]

-----------------------------------------------------------------------------
(* What a request has to ask, and where.                                   *)

\* What the call saw.
BlockOf(e, h) == chain[Network(e)][h]

\* A contract for each token takes an endpoint of its own on Ethereum.
Drawn(r, c) == IF c = "token2" THEN drawn[r][2] ELSE drawn[r][1]

\* Mutant: the nonce is asked for at the next endpoint of the rotation.
NodeInTurn(r, c) ==
    IF c = "nonce" /\ body[r].op = "ethInfo" THEN Url(counter)
    ELSE IF body[r].op = "ethTokens" \/ c = "poolFee" THEN Drawn(r, c)
    ELSE IF c = "pool" THEN provider["factoryContract"]
    ELSE IF c = "quoted" THEN provider["quoterContract"]
    ELSE IF c \in {"quotePair", "pair"} THEN Bsc
    ELSE provider[Holder[body[r].op]]

\* Mutant: fees of BSC are asked for at the Ethereum endpoint.
NodeAcrossChains(r, c) ==
    IF c = "fees" /\ Holder[body[r].op] = "BscService" THEN provider["EthService"]
    ELSE IF body[r].op = "ethTokens" \/ c = "poolFee" THEN Drawn(r, c)
    ELSE IF c = "pool" THEN provider["factoryContract"]
    ELSE IF c = "quoted" THEN provider["quoterContract"]
    ELSE IF c \in {"quotePair", "pair"} THEN Bsc
    ELSE provider[Holder[body[r].op]]

\* The pair is read on BSC; everything else of PancakeSwap at an Ethereum endpoint.
Node(r, c) ==
    IF body[r].op = "ethTokens" \/ c = "poolFee" THEN Drawn(r, c)
    ELSE IF c = "pool" THEN provider["factoryContract"]
    ELSE IF c = "quoted" THEN provider["quoterContract"]
    ELSE IF c \in {"quotePair", "pair"} THEN Bsc
    ELSE provider[Holder[body[r].op]]

Saw(r, c) == BlockOf(Node(r, c), seen[r][c])

\* BNB needs no token read and no allowance; an allowance that suffices no approval.
Skipped(r, c) ==
    \/ "in" \in body[r].bnb /\ c \in {"inToken", "inAgain", "allowance", "approvalFees"}
    \/ "out" \in body[r].bnb /\ c \in {"outToken", "outAgain"}
    \/ c = "approvalFees" /\ seen[r]["allowance"] # 0 /\ Saw(r, "allowance").allowed

Made(r) == {c \in Calls[body[r].op] : ~Skipped(r, c)}
Open(r) == {c \in Made(r) : seen[r][c] = 0}

\* Its minimum: Percent(floor(slippage * 100), PANCAKE_SLIPPAGE), over 1 if unset.
\* Mutant: one digit too many.
PancakeMinimumLoose(r, out) ==
    (out * PancakeSlippage) \div (PancakeSlippage + body[r].slippage)
PancakeMinimum(r, out) ==
    LET over == IF PancakeSlippage = None THEN 1 ELSE PancakeSlippage
    IN  (out * over) \div (over + body[r].slippage \div 10)

-----------------------------------------------------------------------------
(* A request.                                                              *)

Begin(r) ==
    /\ pc[r] = "idle" /\ body[r] # None
    /\ pc' = [pc EXCEPT ![r] = "calls"]
    /\ IF body[r].op = "ethTokens"
       THEN /\ GetRpcUrlTwice
            /\ drawn' = [drawn EXCEPT ![r] = <<Url(counter), Url(counter + 1)>>]
       ELSE UNCHANGED <<rotation, drawn>>
    /\ floor' = [floor EXCEPT ![r] = top]
    /\ UNCHANGED <<provider, chains, body, seen, top, learnt>>

\* A call is answered.  The contract of a pool found takes an endpoint of its own.
Answered(r, c) ==
    /\ pc[r] = "calls" /\ c \in Open(r)
    /\ \A d \in Open(r) : <<c, d>> \notin Follows
    /\ Node(r, c) # NoUrl
    /\ seen' = [seen EXCEPT ![r][c] = IF c \in Fixed THEN 1 ELSE height[Node(r, c)]]
    /\ IF c = "pool"
       THEN GetRpcUrl /\ drawn' = [drawn EXCEPT ![r] = <<Url(counter), NoUrl>>]
       ELSE UNCHANGED <<rotation, drawn>>
    /\ UNCHANGED <<provider, chains, pc, body, top, floor, learnt>>

\* What it was answered so far is dropped.
Forget(r) ==
    /\ seen' = [seen EXCEPT ![r] = [c \in AllCalls |-> 0]]
    /\ UNCHANGED <<rotation, provider, chains, body, drawn, top, floor, learnt>>

\* A call rejects, and Promise.all with it; estimateSwapGas answers the usual limit.
Fails(r) ==
    /\ pc[r] = "calls"
    /\ pc' = [pc EXCEPT ![r] = IF body[r].op = "gas" THEN "limit" ELSE "failed"]
    /\ Forget(r)

\* All calls are answered.  The router contract of the USDT swap is undefined.
Return(r) ==
    /\ pc[r] = "calls" /\ Open(r) = {}
    /\ pc' = [pc EXCEPT ![r] = IF body[r].op = "usdtSwap" THEN "failed" ELSE "answered"]
    /\ top' = IF "nonce" \in Made(r) /\ Saw(r, "nonce").nonce > top[Holder[body[r].op]]
              THEN [top EXCEPT ![Holder[body[r].op]] = Saw(r, "nonce").nonce]
              ELSE top
    /\ UNCHANGED <<rotation, provider, chains, body, drawn, seen, floor, learnt>>

-----------------------------------------------------------------------------
(* The chains and their endpoints.                                         *)

Extend(n, b) ==
    /\ Len(chain[n]) < MaxBlocks
    /\ chain' = [chain EXCEPT ![n] = Append(@, b)]
    /\ UNCHANGED <<rotation, provider, height, pc, body, drawn, seen, top, floor, learnt>>

Newest(n) == chain[n][Len(chain[n])]

Mined(n, sent, p, a) == [nonce |-> Newest(n).nonce + sent, price |-> p, allowed |-> a]

MineEth == \E sent \in {0, 1}, a \in BOOLEAN :
    Extend("ETH", Mined("ETH", sent, Newest("ETH").price, a))
MineBsc == \E sent \in {0, 1}, p \in Prices :
    Extend("BSC", Mined("BSC", sent, p, Newest("BSC").allowed))

Learn(e) ==
    /\ height[e] < Len(chain[Network(e)])
    /\ height' = [height EXCEPT ![e] = @ + 1]
    /\ learnt' = [r \in Requests |->
                    learnt[r] \/ (pc[r] = "calls" /\ e = provider[Holder[body[r].op]])]
    /\ UNCHANGED <<rotation, provider, chain, pc, body, drawn, seen, top, floor>>

Step(r) ==
    \/ Return(r)
    \/ pc[r] = "calls" /\ \E c \in Calls[body[r].op] : Answered(r, c)

\* The server has nothing to do.
Idle == (\A r \in Requests : pc[r] # "calls") /\ UNCHANGED vars

Next ==
    \/ \E r \in Requests : Begin(r) \/ Step(r) \/ Fails(r)
    \/ MineEth \/ MineBsc \/ \E e \in Endpoints \ {NoUrl} : Learn(e)
    \/ Idle

Spec == Init /\ [][Next]_vars

-----------------------------------------------------------------------------
Done(r) == pc[r] = "answered"

(* The nonces a wallet is told never go back, in requests that follow one  *)
(* another, between services whose providers are of one endpoint: each     *)
(* keeps the provider of its constructor (eth.service.ts:75), and none     *)
(* asks another endpoint of the rotation.                                  *)
NonceNeverGoesBack ==
    \A r \in Requests : Done(r) /\ "nonce" \in Made(r) =>
        \A h \in Holders : provider[h] = provider[Holder[body[r].op]] =>
            Saw(r, "nonce").nonce >= floor[r][h]

\* Requests all of whose calls go to one endpoint.
OneNode == Ops \ {"ethTokens", "usdtSwap", "quote", "create", "gas"}

(* An answer put together by Promise.all is a snapshot: its parts are of   *)
(* one block unless the endpoint learnt another while they were read.  On  *)
(* Ethereum token info is none even so: each token has its own endpoint.   *)
TornNeedsBlock ==
    \A r \in Requests : Done(r) /\ body[r].op \in OneNode =>
        \A c, d \in Made(r) : seen[r][c] = seen[r][d] \/ learnt[r]

(* The minimum of a PancakeSwap plan is computed from a second read of the *)
(* pair (153), yet is no less, but for rounding, than the slippage leaves  *)
(* of the quote beside it, unless the price fell in between, or            *)
(* PANCAKE_SLIPPAGE is not 10000, the denominator of percents.             *)
MinimumHonoursSlippage ==
    \A r \in Requests : Done(r) /\ body[r].op = "create" =>
        LET quoted == Saw(r, "quotePair").price
            now == Saw(r, "pair").price
        IN  \/ now < quoted
            \/ PancakeSlippage # 10000
            \/ (PancakeMinimum(r, now) + 1) * 100000 >= quoted * (100000 - body[r].slippage)
=============================================================================

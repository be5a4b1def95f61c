---------------------------- MODULE MCChainReads ----------------------------
(***************************************************************************)
(* Two Ethereum endpoints.  A request of any kind alone, or two that ask   *)
(* for the nonce.                                                          *)
(***************************************************************************)
EXTENDS ChainReads, TLC

CONSTANTS e1, e2, r1, r2

MCEnv == [n \in {"PROVIDER_RPC_ETH_1", "PROVIDER_RPC_ETH_3"} |->
            IF n = "PROVIDER_RPC_ETH_1" THEN e1 ELSE e2]
Of(op, bnb, slippage) == [op |-> op, bnb |-> bnb, slippage |-> slippage]
Plain(op) == Of(op, {}, 0)
Alone == {Plain(op) : op \in Ops \ {"create", "gas"}}
    \cup {Of("create", {"in"}, 1000), Of("create", {"out"}, 505), Of("gas", {}, 1000)}
Pairs == {<<"ethInfo", "testnetSwap">>, <<"testnetSwap", "ethInfo">>, <<"bscSend", "bscInfo">>}
\* The constructors of the three services in this order or that.
MCTurns ==
    {[EthService |-> 1, EthTestnetSwapService |-> 4, PancakeSwapService |-> 0],
     [EthService |-> 3, EthTestnetSwapService |-> 1, PancakeSwapService |-> 2]}
MCTraffic == {(r1 :> b) @@ (r2 :> None) : b \in Alone}
    \cup {(r1 :> Plain(p[1])) @@ (r2 :> Plain(p[2])) : p \in Pairs}
MCPrices == {9900, 10000}
MCGenesis == [nonce |-> 0, price |-> 10000, allowed |-> FALSE]
=============================================================================

--------------------------- MODULE MCSwapExecution ---------------------------
(***************************************************************************)
(* The three environments: testnet calldata, Uniswap, PancakeSwap's router.*)
(***************************************************************************)
EXTENDS SwapExecution, TLC

Testnet == {"EthToUsdc", "UsdcToWeth"}
Uniswap == {"WETH", "ETH", "ERC20"}
Bsc == {"BNB"}

Symmetry == Permutations(Plans) \cup Permutations(Requests)
=============================================================================

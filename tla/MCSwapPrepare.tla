--------------------------- MODULE MCSwapPrepare ---------------------------
(***************************************************************************)
(* A swap of 1000000 at one or two a unit of gas: the least balance pays   *)
(* for nothing, the middle one for a plan at the low fee, the highest for  *)
(* any.  Swaps take less than the fallback, or more.                       *)
(***************************************************************************)
EXTENDS SwapPrepare

MCEths == {900000, 1300000, 2500000}
MCCoins == {0, 1000000}
MCPrices == {8900, 9500, 10000}
MCSwapGas == {150000, 185000, 450000}
MCFees == {1, 2}
=============================================================================

---------------------------- MODULE MCAllBridge ----------------------------
(***************************************************************************)
(* Three endpoints, the third variable left empty; the chain map of the    *)
(* SDK lists USDT and USDC on Ethereum and USDT on BSC.                    *)
(***************************************************************************)
EXTENDS AllBridge, TLC

CONSTANTS u1, u2, u3, blank, none

MCUrls == {u1, u2, u3}

\* An empty variable is kept in the environment and dropped by filter(Boolean).
ThreeUrls == [PROVIDER_RPC_ETH_1 |-> u1, PROVIDER_RPC_ETH_2 |-> u2,
              PROVIDER_RPC_ETH_3 |-> blank, PROVIDER_RPC_ETH_4 |-> u3]
TwoUrls == [PROVIDER_RPC_ETH_1 |-> u1, PROVIDER_RPC_ETH_2 |-> u2]

MCSymbols == {"USDT", "USDC", "BNB"}
MCListed == [ETH |-> {"USDT", "USDC"}, BNB |-> {"USDT"}]
MCBodies == {[kind |-> "prepare", wallet |-> "ETH", source |-> "USDC"],
             [kind |-> "prepare", wallet |-> "BNB", source |-> "BNB"],
             [kind |-> "quote", wallet |-> "ETH", source |-> "USDT"]}
RaceBodies == {b \in MCBodies : b.source # "BNB"}

Symmetry == Permutations(Requests)
=============================================================================

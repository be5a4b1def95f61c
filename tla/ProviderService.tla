--------------------------- MODULE ProviderService ---------------------------
(***************************************************************************)
(* provider/provider.service.ts: the Ethereum RPC endpoints read from the  *)
(* environment and the counter that hands them out in turn, shared by all  *)
(* services of the process.                                                *)
(***************************************************************************)
EXTENDS Naturals, FiniteSets

CONSTANTS
    Urls,  \* endpoints
    Env,   \* [names of variables set -> Urls], the environment of the process
    NoUrl  \* undefined, for which ethers falls back to http://localhost:8545

ASSUME NoUrlAssumption == NoUrl \notin Urls

EthNames == <<"PROVIDER_RPC_ETH_1", "PROVIDER_RPC_ETH_2", "PROVIDER_RPC_ETH_3",
              "PROVIDER_RPC_ETH_4", "PROVIDER_RPC_ETH_5">>

\* filter(Boolean): the positions of the names with a value, and those values in order.
Kept == {i \in 1..5 : EthNames[i] \in DOMAIN Env /\ Env[EthNames[i]] \in Urls}
Position(k) == CHOOSE i \in Kept : Cardinality(Kept \cap 1..i) = k
rpcUrls == [k \in 1..Cardinality(Kept) |-> Env[EthNames[Position(k)]]]

Slots == 1..Cardinality(Kept)

VARIABLES
    counter,  \* calls of getRpcUrl since the process started
    handed    \* history: how often each slot was handed out

\* Mutant: off by one, the last endpoint is never used.
SlotShort(n) == (n % (Cardinality(Kept) - 1)) + 1
Slot(n) == (n % Cardinality(Kept)) + 1

\* With no URL, counter % 0 is NaN and rpcUrls[NaN] undefined.
Url(n) == IF Kept = {} THEN NoUrl ELSE rpcUrls[Slot(n)]

\* The slot of call n counted in h.
HandOut(h, n) == [s \in Slots |-> IF s = Slot(n) THEN h[s] + 1 ELSE h[s]]

GetRpcUrl ==
    /\ counter' = counter + 1
    /\ handed' = HandOut(handed, counter)

GetRpcUrlTwice ==
    /\ counter' = counter + 2
    /\ handed' = HandOut(HandOut(handed, counter), counter + 1)

ProviderInit == counter = 0 /\ handed = [s \in Slots |-> 0]

(* No endpoint is ever two calls ahead of another, whoever calls.           *)
Balanced == \A s, t \in Slots : handed[s] <= handed[t] + 1
=============================================================================

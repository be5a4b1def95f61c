------------------------------ MODULE AllBridge ------------------------------
(***************************************************************************)
(* bridge/all-bridge/all-bridge.service.ts.  The service is a singleton    *)
(* with one sdk and one provider, both replaced by updateSdkRpc every time *)
(* a request (or a step of one) begins; requests interleave at each await  *)
(* and use whatever sdk and provider are there when they resume.           *)
(***************************************************************************)
EXTENDS ProviderService

CONSTANTS
    Requests,
    Bodies,      \* the DTOs that pass validation
    Symbols,     \* token symbols
    Listed,      \* [wallet type -> symbols of its chain in the SDK's map]
    NoToken,     \* undefined
    MaxCounter   \* bound on counter for the callers outside the bridge

ValidWalletType == {"ETH", "BNB"}

\* validations_token: the source tokens each wallet type accepts.
AllowedSource == [ETH |-> {"USDT", "USDC"}, BNB |-> {"USDT", "BNB"}]

Prepare == {[kind |-> "prepare", wallet |-> w, source |-> s] : w \in ValidWalletType, s \in Symbols}
Quote == {[kind |-> "quote", wallet |-> w, source |-> "USDT"] : w \in ValidWalletType}

ASSUME BodiesAssumption ==
    Bodies \subseteq Quote \cup {b \in Prepare : b.source \in AllowedSource[b.wallet]}
ASSUME SymbolsAssumption == NoToken \notin Symbols /\ "USDT" \in Symbols
ASSUME ListedAssumption == Listed \in [ValidWalletType -> SUBSET Symbols]
ASSUME MaxCounterAssumption == MaxCounter \in Nat

VARIABLES
    rpc,         \* the endpoint of this.sdk and this.provider
    pc,          \* where each request stands
    body,        \* its DTO
    coin,        \* the source token it found
    result,      \* how it ended
    own,         \* history: the endpoint it last took for the service
    used,        \* history: the endpoints its calls went to
    asked,       \* history: tokens whose allowance was asked for
    overlapped   \* history: requests whose sdk another one replaced before they used it

rotation == <<counter, handed>>
vars == <<counter, handed, rpc, pc, body, coin, result, own, used, asked, overlapped>>

Endpoints == Urls \cup {NoUrl}

Awaiting == {"chains", "source", "destination", "allowance", "amount", "tx", "meta"}

TypeOK ==
    /\ counter \in Nat
    /\ handed \in [Slots -> Nat]
    /\ rpc \in Endpoints
    /\ pc \in [Requests -> {"idle", "done"} \cup Awaiting]
    /\ body \in [Requests -> Bodies \cup {NoToken}]
    /\ coin \in [Requests -> Symbols \cup {NoToken}]
    /\ result \in [Requests -> {"none", "approve", "transfer", "quote", "failed"}]
    /\ own \in [Requests -> Endpoints]
    /\ used \in [Requests -> SUBSET Endpoints]
    /\ asked \in SUBSET (Symbols \cup {NoToken})
    /\ overlapped \in SUBSET Requests

Init ==
    /\ ProviderInit
    /\ rpc = NoUrl
    /\ pc = [r \in Requests |-> "idle"]
    /\ body = [r \in Requests |-> NoToken]
    /\ coin = [r \in Requests |-> NoToken]
    /\ result = [r \in Requests |-> "none"]
    /\ own = [r \in Requests |-> NoUrl]
    /\ used = [r \in Requests |-> {}]
    /\ asked = {}
    /\ overlapped = {}

\* Requests that took an endpoint and have calls to make.
Exposed == {r \in Requests : \/ pc[r] \in {"destination", "allowance", "tx"}
                             \/ pc[r] = "chains" /\ body[r].kind = "quote"}

Goto(r, label) == pc' = [pc EXCEPT ![r] = label]

\* The endpoint of the last call of getRpcUrl replaces sdk and provider.
ReplaceSdk(r) ==
    /\ rpc' = Url(counter' - 1)
    /\ own' = [own EXCEPT ![r] = rpc']
    /\ overlapped' = overlapped \cup (Exposed \ {r})

\* A call that r makes on this.sdk or this.provider as it is now.
Uses(r) == used' = [used EXCEPT ![r] = @ \cup {rpc}]

(* prepareTransaction runs updateSdkRpc, and so does the fetchTokens it     *)
(* calls at once; getSwapDetails runs it once.  Both await chainDetailsMap. *)
Begin(r) ==
    /\ pc[r] = "idle"
    /\ \E b \in Bodies :
        /\ body' = [body EXCEPT ![r] = b]
        /\ \/ b.kind = "prepare" /\ GetRpcUrlTwice
           \/ b.kind = "quote" /\ GetRpcUrl
    /\ ReplaceSdk(r)
    /\ Goto(r, "chains")
    /\ UNCHANGED <<coin, result, used, asked>>

Found(b) == IF b.source \in Listed[b.wallet] THEN b.source ELSE NoToken

FindSource(r) ==
    /\ pc[r] = "chains" /\ body[r].kind = "prepare"
    /\ coin' = [coin EXCEPT ![r] = Found(body[r])]
    /\ Goto(r, "source")
    /\ UNCHANGED <<rotation, rpc, body, result, own, used, asked, overlapped>>

\* Mutant: the early return of fetchTokens before updateSdkRpc.
FindDestinationOnly(r) ==
    /\ pc[r] = "source"
    /\ Goto(r, "destination")
    /\ UNCHANGED <<rotation, rpc, body, coin, result, own, used, asked, overlapped>>

\* fetchTokens(destinationToken): no wallet type, so always the Stellar token.
FindDestination(r) ==
    /\ pc[r] = "source"
    /\ GetRpcUrl
    /\ ReplaceSdk(r)
    /\ Goto(r, "destination")
    /\ UNCHANGED <<body, coin, result, used, asked>>

DestinationCoin == "USDC"

\* if (!sourceTokenCoin && !destinationTokenCoin) throw
Rejected(r) == coin[r] = NoToken /\ DestinationCoin = NoToken

CheckAllowance(r) ==
    /\ pc[r] = "destination" /\ ~Rejected(r)
    /\ asked' = asked \cup {coin[r]}
    /\ Uses(r)
    /\ Goto(r, "allowance")
    /\ UNCHANGED <<rotation, rpc, body, coin, result, own, overlapped>>

\* rawTxBuilder.approve or rawTxBuilder.send, as the allowance says.
BuildTransaction(r) ==
    /\ pc[r] = "allowance"
    /\ \E type \in {"approve", "transfer"} : result' = [result EXCEPT ![r] = type]
    /\ Uses(r)
    /\ Goto(r, "tx")
    /\ UNCHANGED <<rotation, rpc, body, coin, own, asked, overlapped>>

\* nonce, gas, fees and network, all of this.provider
ReadMeta(r) ==
    /\ pc[r] = "tx"
    /\ Uses(r)
    /\ Goto(r, "meta")
    /\ UNCHANGED <<rotation, rpc, body, coin, result, own, asked, overlapped>>

AskAmount(r) ==
    /\ pc[r] = "chains" /\ body[r].kind = "quote"
    /\ Found(body[r]) # NoToken
    /\ Uses(r)
    /\ result' = [result EXCEPT ![r] = "quote"]
    /\ Goto(r, "amount")
    /\ UNCHANGED <<rotation, rpc, body, coin, own, asked, overlapped>>

Answer(r) ==
    /\ pc[r] \in {"meta", "amount"}
    /\ Goto(r, "done")
    /\ UNCHANGED <<rotation, rpc, body, coin, result, own, used, asked, overlapped>>

\* The awaited call rejects, a guard throws, or a token is unknown to the SDK.
Fails(r) ==
    /\ pc[r] \in Awaiting
    /\ result' = [result EXCEPT ![r] = "failed"]
    /\ Goto(r, "done")
    /\ UNCHANGED <<rotation, rpc, body, coin, own, used, asked, overlapped>>

\* Another service of the process takes an endpoint: at startup, for a contract.
OtherCaller ==
    /\ counter < MaxCounter
    /\ GetRpcUrl
    /\ UNCHANGED <<rpc, pc, body, coin, result, own, used, asked, overlapped>>

Advance(r) ==
    \/ FindSource(r) \/ FindDestination(r) \/ CheckAllowance(r) \/ BuildTransaction(r)
    \/ ReadMeta(r) \/ AskAmount(r) \/ Answer(r) \/ Fails(r)

\* Nothing is asked of the server.
Idle == (\A r \in Requests : pc[r] \notin Awaiting) /\ UNCHANGED vars

Next == (\E r \in Requests : Begin(r) \/ Advance(r)) \/ OtherCaller \/ Idle

Spec == Init /\ [][Next]_vars

-----------------------------------------------------------------------------
(* Allowance, transaction, gas, nonce and fees (or the quote) come from the *)
(* endpoint the request itself took last, unless another bridge request     *)
(* replaced this.sdk and this.provider (254-260) between that and its last  *)
(* call: sharing them is the only way to mix endpoints.                     *)
EndpointIsItsOwn ==
    \A r \in Requests : \A e \in used[r] : e = own[r] \/ r \in overlapped

(* all-bridge.service.ts:115: "Either invalid source or destination token"  *)
(* is refused, so no allowance is asked for a token the SDK does not list.  *)
InvalidTokenRefused == NoToken \notin asked
=============================================================================

-------------------------- MODULE ChainReadsProofs --------------------------
(***************************************************************************)
(* For every set of requests, environment, order of constructors and       *)
(* length of the chains: the type invariant of ChainReads, that the nonces *)
(* told to a wallet never go back, that an answer is torn only by a block  *)
(* its endpoint learnt meanwhile, and that the minimum of an order leaves  *)
(* no more to slippage than was configured.                                *)
(***************************************************************************)
EXTENDS ChainReads, FiniteSetTheorems, SequenceTheorems, TLAPS

Own(r) == provider[Holder[body[r].op]]
Asks(r) == body[r] \in Body /\ body[r].op \in OneNode /\ "nonce" \in Calls[body[r].op]
NonceAt(r) == BlockOf(Own(r), seen[r]["nonce"]).nonce

\* The nonce a service would be told now.
Known(h) == BlockOf(provider[h], height[provider[h]]).nonce

ChainsGrow ==
    \A n \in Networks : \A i, j \in 1..Len(chain[n]) :
        i <= j => chain[n][i].nonce <= chain[n][j].nonce

Unasked == \A r \in Requests, c \in AllCalls : pc[r] = "idle" => seen[r][c] = 0

TopKnown == \A h \in Holders : top[h] <= Known(h)
FloorKnown == \A r \in Requests, h \in Holders : floor[r][h] <= Known(h)

\* A nonce answered is one its endpoint knows, and no less than any told before.
NonceSeen ==
    \A r \in Requests : pc[r] \in {"calls", "answered"} /\ Asks(r) =>
        /\ pc[r] = "answered" => seen[r]["nonce"] # 0
        /\ seen[r]["nonce"] # 0 =>
            /\ seen[r]["nonce"] \in 1..height[Own(r)]
            /\ \A h \in Holders : provider[h] = Own(r) => floor[r][h] <= NonceAt(r)

\* Until its endpoint learns a block, all of a request is of one height.
OneHeight ==
    \A r \in Requests : pc[r] = "calls" /\ body[r].op \in OneNode =>
        learnt[r] \/ \A c \in Calls[body[r].op] : seen[r][c] \in {0, height[Own(r)]}

\* The pair was read at a height its endpoint knew, and twice for a plan.
PriceCalls == {"quotePair", "pair"}
PricesSeen ==
    \A r \in Requests, c \in PriceCalls :
        /\ seen[r][c] \in 0..height[Bsc]
        /\ pc[r] = "answered" /\ body[r].op = "create" => seen[r][c] # 0

IInv == TypeOK /\ ChainsGrow /\ Unasked /\ TopKnown /\ FloorKnown /\ NonceSeen /\ OneHeight
        /\ TornNeedsBlock /\ PricesSeen

-----------------------------------------------------------------------------
(* There are at most five endpoints.                                       *)
LEMMA KeptIsFinite == Kept \subseteq 1..5 /\ IsFiniteSet(Kept) /\ Cardinality(Kept) \in Nat
<1>1. IsFiniteSet(1..5)
  <2>1. 1 \in Int /\ 5 \in Int
    OBVIOUS
  <2> QED
    BY <2>1, FS_Interval, Zenon
<1>2. Kept \in SUBSET (1..5)
  BY DEF Kept
<1>3. IsFiniteSet(Kept)
  BY <1>1, <1>2, FS_Subset
<1> QED
  BY <1>2, <1>3, FS_CardinalityType

(* Every slot has its variable: counting the kept names from the first to   *)
(* the fifth passes every number up to their total.                         *)
LEMMA PositionExists == \A k \in Slots : Position(k) \in Kept
<1> DEFINE upTo(i) == Cardinality(Kept \cap 1..i)
<1>1. ASSUME NEW i \in 0..4
      PROVE  upTo(i + 1) = IF i + 1 \in Kept THEN upTo(i) + 1 ELSE upTo(i)
  <2>1. IsFiniteSet(Kept \cap 1..i)
    BY KeptIsFinite, FS_Subset
  <2>2. i + 1 \notin Kept \cap 1..i
    OBVIOUS
  <2>3. Kept \cap 1..(i + 1) =
          IF i + 1 \in Kept THEN (Kept \cap 1..i) \cup {i + 1} ELSE Kept \cap 1..i
    OBVIOUS
  <2> QED
    BY <2>1, <2>2, <2>3, FS_AddElement
<1>2. upTo(0) = 0
  <2>1. Kept \cap 1..0 = {}
    OBVIOUS
  <2> QED
    BY <2>1, FS_EmptySet
<1>3. upTo(5) = Cardinality(Kept)
  <2>1. Kept \cap 1..5 = Kept
    BY KeptIsFinite
  <2> QED
    BY <2>1
<1> HIDE DEF upTo
<1>4. /\ upTo(1) = IF 1 \in Kept THEN upTo(0) + 1 ELSE upTo(0)
      /\ upTo(2) = IF 2 \in Kept THEN upTo(1) + 1 ELSE upTo(1)
      /\ upTo(3) = IF 3 \in Kept THEN upTo(2) + 1 ELSE upTo(2)
      /\ upTo(4) = IF 4 \in Kept THEN upTo(3) + 1 ELSE upTo(3)
      /\ upTo(5) = IF 5 \in Kept THEN upTo(4) + 1 ELSE upTo(4)
  <2>1. 0 + 1 = 1 /\ 1 + 1 = 2 /\ 2 + 1 = 3 /\ 3 + 1 = 4 /\ 4 + 1 = 5
    OBVIOUS
  <2> QED
    BY <1>1, <2>1
<1>5. ASSUME NEW k \in Slots PROVE \E i \in Kept : upTo(i) = k
  BY <1>2, <1>3, <1>4 DEF Slots
<1> QED
  BY <1>5 DEF Position, upTo

(* What a call hands out: an endpoint, or nothing when none is configured.  *)
LEMMA UrlType == ASSUME NEW n \in Nat PROVE Url(n) \in Urls \cup {NoUrl}
<1>1. ASSUME Kept # {} PROVE Slot(n) \in Slots
  <2>1. Cardinality(Kept) \in Nat /\ Cardinality(Kept) > 0
    BY <1>1, KeptIsFinite, FS_EmptySet
  <2> QED
    BY <2>1 DEF Slot, Slots
<1>2. ASSUME Kept # {} PROVE rpcUrls[Slot(n)] \in Urls
  BY <1>1, <1>2, PositionExists DEF rpcUrls, Slots, Kept
<1> QED
  BY <1>2 DEF Url

-----------------------------------------------------------------------------
(* What the tables say: a service's request, if it goes to one endpoint,   *)
(* skips no call, and none of its calls is of a value no block changes.    *)
LEMMA Tables ==
    /\ \A op \in Ops : Holder[op] \in Holders
    /\ \A op \in Ops : "nonce" \in Calls[op] => op \in OneNode
    /\ \A op \in OneNode : op \in Ops /\ op # "ethTokens"
    /\ \A op \in OneNode : Calls[op] \subseteq AllCalls
    /\ "nonce" \in AllCalls
    /\ \A op \in OneNode : Calls[op] \subseteq
        {"nonce", "fees", "native", "estimate", "network", "token1", "token2", "swapNetwork",
         "swapFees"}
<1>1. \A op \in Ops : Holder[op] \in Holders
  BY DEF Holders
<1>2. OneNode = {"ethInfo", "ethBalance", "ethSend", "testnetSwap", "bscInfo", "bscBalance",
                 "bscSend", "bscTokens", "bscUsdt"}
  BY DEF OneNode, Ops, Holder
<1>3. /\ Calls["ethInfo"] = {"nonce", "fees"} /\ Calls["ethBalance"] = {"native"}
      /\ Calls["ethSend"] = {"nonce", "estimate", "fees", "network"}
      /\ Calls["testnetSwap"] = {"nonce", "swapNetwork", "swapFees"}
      /\ Calls["bscInfo"] = {"nonce", "fees"} /\ Calls["bscBalance"] = {"native"}
      /\ Calls["bscSend"] = {"nonce", "estimate", "fees", "network"}
      /\ Calls["bscTokens"] = {"token1", "token2"} /\ Calls["bscUsdt"] = {"native", "token1"}
      /\ Calls["ethTokens"] = {"token1", "token2"}
      /\ Calls["usdtSwap"] = {"pool", "poolFee", "quoted"}
  BY DEF Calls, Info, Send, Tokens
<1>4. "nonce" \notin Calls["quote"] /\ "nonce" \notin Calls["create"] /\ "nonce" \notin Calls["gas"]
  BY DEF Calls, Quote, Plan, Again
<1>5. Ops = OneNode \cup {"ethTokens", "usdtSwap", "quote", "create", "gas"}
  BY DEF OneNode, Ops, Holder
<1>6. \A op \in Ops : Calls[op] \subseteq AllCalls
  BY DEF AllCalls
<1> QED
  BY <1>1, <1>2, <1>3, <1>4, <1>5, <1>6

LEMMA OneEndpoint ==
    ASSUME NEW r \in Requests, body[r] \in Body, body[r].op \in OneNode
    PROVE  /\ Made(r) = Calls[body[r].op]
           /\ \A c \in Calls[body[r].op] : Node(r, c) = Own(r) /\ c \notin Fixed
           /\ Holder[body[r].op] \in Holders
<1>1. \A c \in Calls[body[r].op] : c \in
        {"nonce", "fees", "native", "estimate", "network", "token1", "token2", "swapNetwork",
         "swapFees"}
  BY Tables
<1>2. \A c \in Calls[body[r].op] : Node(r, c) = Own(r) /\ c \notin Fixed
  BY <1>1, Tables DEF Node, Own, Fixed
<1>3. \A c \in Calls[body[r].op] : ~Skipped(r, c)
  BY <1>1 DEF Skipped
<1> QED
  BY <1>2, <1>3, Tables DEF Made

(* The pair is read for PancakeSwap only, on BSC, and never skipped.        *)
LEMMA PriceTable ==
    /\ PriceCalls \subseteq AllCalls /\ PriceCalls \subseteq Calls["create"]
    /\ PriceCalls \cap Fixed = {} /\ PriceCalls \cap Calls["ethTokens"] = {}
<1>1. PriceCalls \subseteq Calls["create"]
  BY DEF PriceCalls, Calls, Plan, Quote
<1>2. "create" \in Ops
  BY DEF Ops, Holder
<1>3. PriceCalls \subseteq AllCalls
  BY <1>1, <1>2 DEF AllCalls
<1>4. Calls["ethTokens"] = {"token1", "token2"}
  BY DEF Calls, Tokens
<1> QED
  BY <1>1, <1>3, <1>4 DEF PriceCalls, Fixed

LEMMA PairEndpoint ==
    ASSUME NEW r \in Requests, NEW c \in PriceCalls
    PROVE  /\ c \in Calls[body[r].op] => Node(r, c) = Bsc
           /\ body[r].op = "create" => c \in Made(r) /\ Node(r, c) = Bsc
<1>1. c \in Calls[body[r].op] => body[r].op # "ethTokens"
  BY PriceTable
<1>2. body[r].op # "ethTokens" => Node(r, c) = Bsc
  BY DEF Node, PriceCalls
<1>3. ~Skipped(r, c)
  BY DEF Skipped, PriceCalls
<1> QED
  BY <1>1, <1>2, <1>3, PriceTable DEF Made

LEMMA NextCases ==
    ASSUME TypeOK, [Next]_vars
    PROVE  \/ \E r \in Requests :
                \/ Begin(r) \/ Fails(r) \/ Return(r)
                \/ \E c \in AllCalls : Answered(r, c)
           \/ MineEth \/ MineBsc \/ (\E e \in Endpoints \ {NoUrl} : Learn(e)) \/ UNCHANGED vars
<1>1. ASSUME NEW r \in Requests, pc[r] = "calls" PROVE Calls[body[r].op] \subseteq AllCalls
  BY <1>1 DEF TypeOK, AllCalls, Body
<1> QED
  BY <1>1 DEF Next, Idle, Step

-----------------------------------------------------------------------------
(* The chains and their endpoints.                                          *)

\* What a step may do to them.
WorldGrows ==
    /\ provider' = provider /\ body' = body
    /\ chain' \in [Networks -> Seq(Block)] /\ height' \in [Endpoints -> Nat]
    /\ \A e \in Endpoints : height[e] <= height'[e] /\ height'[e] \in 1..Len(chain'[Network(e)])
    /\ \A n \in Networks : /\ Len(chain[n]) <= Len(chain'[n])
                           /\ \A i \in 1..Len(chain[n]) : chain'[n][i] = chain[n][i]
    /\ ChainsGrow'

LEMMA NewestIsBlock ==
    ASSUME TypeOK, NEW n \in Networks
    PROVE  Len(chain[n]) \in Nat \ {0} /\ Newest(n) \in Block
<1>1. PICK e \in Endpoints : Network(e) = n
  BY BscAssumption DEF Networks, Endpoints, Network
<1>2. chain[n] \in Seq(Block) /\ height[e] \in 1..Len(chain[n])
  BY <1>1 DEF TypeOK
<1> QED
  BY <1>2, ElementOfSeq DEF Newest

LEMMA ExtendGrows ==
    ASSUME TypeOK, ChainsGrow, NEW n \in Networks, NEW b \in Block,
           Newest(n).nonce <= b.nonce, Extend(n, b)
    PROVE  WorldGrows
<1> DEFINE old == chain[n]  new == Append(old, b)
<1>1. old \in Seq(Block) /\ Len(old) \in Nat \ {0} /\ Newest(n) = old[Len(old)] /\ Newest(n) \in Block
  BY NewestIsBlock DEF Newest, TypeOK
<1>2. /\ new \in Seq(Block) /\ Len(new) = Len(old) + 1
      /\ \A i \in 1..Len(old) : new[i] = old[i]
      /\ new[Len(old) + 1] = b
  BY <1>1, AppendProperties
<1>3. /\ chain' = [chain EXCEPT ![n] = new]
      /\ height' = height /\ provider' = provider /\ body' = body
  BY DEF Extend
<1>4. chain'[n] = new /\ \A m \in Networks \ {n} : chain'[m] = chain[m]
  BY <1>3 DEF TypeOK
<1>5. chain' \in [Networks -> Seq(Block)]
  BY <1>2, <1>3 DEF TypeOK
<1>6. ASSUME NEW i \in 1..Len(new), NEW j \in 1..Len(new), i <= j PROVE new[i].nonce <= new[j].nonce
  <2>1. ASSUME NEW k \in 1..Len(old) PROVE old[k] \in Block /\ old[k].nonce \in Nat
    <3>1. old[k] \in Block
      BY <1>1, ElementOfSeq
    <3> QED
      BY <3>1 DEF Block
  <2>2. \A k \in 1..Len(old) : old[k].nonce <= old[Len(old)].nonce
    BY <1>1 DEF ChainsGrow
  <2>3. b.nonce \in Nat
    BY DEF Block
  <2>4. \A k, l \in 1..Len(old) : k <= l => old[k].nonce <= old[l].nonce
    BY DEF ChainsGrow
  <2> HIDE DEF old, new
  <2>5. old[Len(old)].nonce <= b.nonce
    BY <1>1
  <2>6. CASE j \in 1..Len(old)
    BY <1>1, <1>2, <1>6, <2>4, <2>6
  <2>7. CASE j = Len(old) + 1 /\ i \in 1..Len(old)
    BY <1>1, <1>2, <2>1, <2>2, <2>3, <2>5, <2>7
  <2>8. CASE j = Len(old) + 1 /\ i = Len(old) + 1
    BY <1>2, <2>3, <2>8
  <2> QED
    BY <1>1, <1>2, <1>6, <2>6, <2>7, <2>8
<1>7. ChainsGrow'
  <2> SUFFICES ASSUME NEW m \in Networks, NEW i \in 1..Len(chain'[m]), NEW j \in 1..Len(chain'[m]), i <= j
               PROVE  chain'[m][i].nonce <= chain'[m][j].nonce
    BY DEF ChainsGrow
  <2> QED
    BY <1>4, <1>6 DEF ChainsGrow
<1> HIDE DEF old, new
<1>8. \A m \in Networks : /\ Len(chain[m]) \in Nat /\ Len(chain[m]) <= Len(chain'[m])
                          /\ \A i \in 1..Len(chain[m]) : chain'[m][i] = chain[m][i]
  <2>1. \A m \in Networks : Len(chain[m]) \in Nat
    BY NewestIsBlock
  <2>2. Len(chain[n]) <= Len(chain'[n]) /\ \A i \in 1..Len(chain[n]) : chain'[n][i] = chain[n][i]
    BY <1>1, <1>2, <1>4 DEF old
  <2> QED
    BY <1>4, <2>1, <2>2
<1>9. ASSUME NEW e \in Endpoints
      PROVE  height[e] <= height'[e] /\ height'[e] \in 1..Len(chain'[Network(e)])
  <2>1. Network(e) \in Networks /\ height[e] \in 1..Len(chain[Network(e)])
    BY DEF Network, Networks, TypeOK
  <2>2. Len(chain'[Network(e)]) \in Nat
    BY <1>5, <2>1, LenProperties
  <2> QED
    BY <1>3, <1>8, <2>1, <2>2
<1> QED
  BY <1>3, <1>5, <1>7, <1>8, <1>9 DEF WorldGrows, TypeOK

LEMMA Grows == ASSUME TypeOK, ChainsGrow, [Next]_vars PROVE WorldGrows
<1>1. CASE UNCHANGED <<provider, body, chain, height>>
  <2>1. \A n \in Networks : Len(chain[n]) \in Nat
    BY NewestIsBlock
  <2>2. ChainsGrow'
    BY <1>1 DEF ChainsGrow
  <2> QED
    BY <1>1, <2>1, <2>2 DEF WorldGrows, TypeOK
<1>2. CASE MineEth
  <2>1. PICK sent \in {0, 1}, a \in BOOLEAN :
          Extend("ETH", Mined("ETH", sent, Newest("ETH").price, a))
    BY <1>2 DEF MineEth
  <2> DEFINE b == Mined("ETH", sent, Newest("ETH").price, a)
  <2>2. Newest("ETH") \in Block
    BY NewestIsBlock DEF Networks
  <2>3. b \in Block /\ Newest("ETH").nonce <= b.nonce
    BY <2>2 DEF Block, Mined
  <2> QED
    BY <2>1, <2>3, ExtendGrows DEF Networks
<1>3. CASE MineBsc
  <2>1. PICK sent \in {0, 1}, p \in Prices :
          Extend("BSC", Mined("BSC", sent, p, Newest("BSC").allowed))
    BY <1>3 DEF MineBsc
  <2> DEFINE b == Mined("BSC", sent, p, Newest("BSC").allowed)
  <2>2. Newest("BSC") \in Block
    BY NewestIsBlock DEF Networks
  <2>3. b \in Block /\ Newest("BSC").nonce <= b.nonce
    BY <2>2 DEF Block, Mined
  <2> QED
    BY <2>1, <2>3, ExtendGrows DEF Networks
<1>4. ASSUME NEW e \in Endpoints, Learn(e) PROVE WorldGrows
  <2>1. /\ height' = [height EXCEPT ![e] = height[e] + 1] /\ height[e] < Len(chain[Network(e)])
        /\ provider' = provider /\ body' = body /\ chain' = chain
    BY <1>4 DEF Learn
  <2>2. \A n \in Networks : Len(chain[n]) \in Nat
    BY NewestIsBlock
  <2>3. ChainsGrow'
    BY <2>1 DEF ChainsGrow
  <2>4. \A x \in Endpoints : Network(x) \in Networks /\ height[x] \in 1..Len(chain[Network(x)])
    BY DEF Network, Networks, TypeOK
  <2>5. \A x \in Endpoints : height[x] <= height'[x] /\ height'[x] \in 1..Len(chain'[Network(x)])
    BY <2>1, <2>2, <2>4 DEF TypeOK
  <2> QED
    BY <2>1, <2>2, <2>3, <2>5 DEF WorldGrows, TypeOK
<1> QED
  BY NextCases, <1>1, <1>2, <1>3, <1>4
     DEF Begin, Answered, Fails, Forget, Return, vars, chains

(* What a service would be told now never goes back.                        *)
LEMMA KnownGrows ==
    ASSUME TypeOK, ChainsGrow, [Next]_vars, NEW h \in Holders
    PROVE  Known(h) \in Nat /\ Known(h)' \in Nat /\ Known(h) <= Known(h)'
<1> DEFINE e == provider[h]  n == Network(e)
<1>1. WorldGrows
  BY Grows
<1>2. e \in Endpoints /\ n \in Networks /\ provider'[h] = e
  BY <1>1 DEF WorldGrows, TypeOK, Network, Networks
<1> HIDE DEF e, n
<1>3. /\ height[e] \in 1..Len(chain[n]) /\ height'[e] \in 1..Len(chain'[n])
      /\ height[e] <= height'[e] /\ Len(chain[n]) \in Nat /\ Len(chain[n]) <= Len(chain'[n])
      /\ Len(chain'[n]) \in Nat /\ chain'[n][height[e]] = chain[n][height[e]]
      /\ chain[n] \in Seq(Block) /\ chain'[n] \in Seq(Block)
  <2>1. Len(chain[n]) \in Nat
    BY <1>2, NewestIsBlock
  <2>2. chain[n] \in Seq(Block) /\ chain'[n] \in Seq(Block)
    BY <1>1, <1>2 DEF WorldGrows, TypeOK
  <2>3. Len(chain'[n]) \in Nat
    BY <2>2, LenProperties
  <2> QED
    BY <1>1, <1>2, <2>1, <2>2, <2>3 DEF WorldGrows, TypeOK, n
<1>4. chain[n][height[e]] \in Block /\ chain'[n][height'[e]] \in Block
  BY <1>3, ElementOfSeq
<1>5. height[e] \in 1..Len(chain'[n])
  BY <1>3
<1>6. chain'[n][height[e]].nonce <= chain'[n][height'[e]].nonce
  BY <1>1, <1>2, <1>3, <1>5 DEF WorldGrows, ChainsGrow
<1> QED
  BY <1>2, <1>3, <1>4, <1>6 DEF Known, BlockOf, Block, e, n

-----------------------------------------------------------------------------
LEMMA IInvInit == Init => IInv
<1> SUFFICES ASSUME Init PROVE IInv
  OBVIOUS
<1>1. provider \in [Holders -> Endpoints]
  <2>1. PICK turn \in Turns :
          provider = [h \in Holders |->
            IF h = "BscService" THEN Bsc
            ELSE IF h = "factoryContract" THEN Url(turn["EthService"] + 1)
            ELSE IF h = "quoterContract" THEN Url(turn["EthService"] + 2)
            ELSE Url(turn[h])]
    BY DEF Init
  <2>2. /\ turn["EthService"] \in Nat /\ turn["EthTestnetSwapService"] \in Nat
        /\ turn["PancakeSwapService"] \in Nat
    BY TurnsAssumption
  <2>3. Holders = {"EthService", "EthTestnetSwapService", "BscService", "PancakeSwapService",
                   "factoryContract", "quoterContract"}
    BY DEF Holders, Ops, Holder
  <2>4. \A n \in Nat : Url(n) \in Urls \cup {NoUrl}
    BY UrlType
  <2>5. turn["EthService"] + 1 \in Nat /\ turn["EthService"] + 2 \in Nat
    BY <2>2
  <2>6. ASSUME NEW h \in Holders PROVE provider[h] \in Endpoints
    BY <2>1, <2>2, <2>3, <2>4, <2>5 DEF Endpoints
  <2> QED
    BY <2>1, <2>6
<1>2. <<Genesis>> \in Seq(Block) /\ Len(<<Genesis>>) = 1 /\ Genesis \in Block
  BY PricesAssumption
<1>3. /\ chain = [n \in Networks |-> <<Genesis>>] /\ height = [e \in Endpoints |-> 1]
      /\ chain \in [Networks -> Seq(Block)]
  BY <1>2 DEF Init
<1>4. \A e \in Endpoints : height[e] \in 1..Len(chain[Network(e)])
  BY <1>2, <1>3 DEF Network, Networks
<1>5. TypeOK
  <2>1. <<NoUrl, NoUrl>> \in Endpoints \X Endpoints
    BY DEF Endpoints
  <2>2. drawn \in [Requests -> Endpoints \X Endpoints]
    BY <2>1 DEF Init
  <2>3. seen \in [Requests -> [AllCalls -> Nat]] /\ top \in [Holders -> Nat]
    BY DEF Init
  <2>4. floor \in [Requests -> [Holders -> Nat]] /\ learnt \in [Requests -> BOOLEAN]
    BY <2>3 DEF Init
  <2>5. body \in [Requests -> Body \cup {None}] /\ height \in [Endpoints -> Nat]
    BY <1>3, TrafficAssumption DEF Init
  <2>6. /\ pc \in [Requests -> {"idle", "calls", "answered", "limit", "failed"}]
        /\ \A r \in Requests : pc[r] = "idle"
    BY DEF Init
  <2> QED
    BY <1>1, <1>3, <1>4, <2>2, <2>3, <2>4, <2>5, <2>6 DEF Init, ProviderInit, TypeOK
<1>6. ChainsGrow
  <2> SUFFICES ASSUME NEW n \in Networks, NEW i \in 1..Len(chain[n]), NEW j \in 1..Len(chain[n])
               PROVE  chain[n][i].nonce <= chain[n][j].nonce
    BY DEF ChainsGrow
  <2>1. chain[n] = <<Genesis>> /\ i = 1 /\ j = 1 /\ Genesis.nonce \in Nat
    BY <1>2, <1>3 DEF Block
  <2> QED
    BY <2>1
<1>7. TopKnown /\ FloorKnown
  <2>1. ASSUME NEW h \in Holders PROVE 0 <= Known(h)
    <3>1. provider[h] \in Endpoints /\ Network(provider[h]) \in Networks
      BY <1>1 DEF Network, Networks
    <3>2. Known(h) = Genesis.nonce /\ Genesis.nonce \in Nat
      BY <1>2, <1>3, <3>1 DEF Known, BlockOf, Block
    <3> QED
      BY <3>2
  <2> QED
    BY <2>1 DEF Init, TopKnown, FloorKnown
<1>8. Unasked /\ NonceSeen /\ OneHeight /\ TornNeedsBlock
  BY Tables DEF Init, Unasked, NonceSeen, OneHeight, TornNeedsBlock, Done
<1>9. PricesSeen
  BY <1>3, PriceTable DEF Init, PricesSeen, Endpoints
<1> QED
  BY <1>5, <1>6, <1>7, <1>8, <1>9 DEF IInv

(* A nonce answered is one its service knows.                               *)
LEMMA NonceIsKnown ==
    ASSUME TypeOK, ChainsGrow, NEW r \in Requests, Asks(r), seen[r]["nonce"] \in 1..height[Own(r)]
    PROVE  /\ NonceAt(r) \in Nat /\ Saw(r, "nonce").nonce = NonceAt(r)
           /\ NonceAt(r) <= Known(Holder[body[r].op])
<1> DEFINE e == Own(r)  n == Network(e)  i == seen[r]["nonce"]
<1>1. Node(r, "nonce") = Own(r) /\ Holder[body[r].op] \in Holders
  BY OneEndpoint DEF Asks
<1>2. e \in Endpoints /\ n \in Networks
  BY <1>1 DEF Own, TypeOK, Network, Networks
<1>3. /\ height[e] \in 1..Len(chain[n]) /\ Len(chain[n]) \in Nat /\ chain[n] \in Seq(Block)
  <2> HIDE DEF e
  <2> QED
    BY <1>2, NewestIsBlock DEF TypeOK
<1>4. i \in 1..height[e]
  OBVIOUS
<1> HIDE DEF e, n, i
<1>5. i \in 1..Len(chain[n]) /\ i <= height[e]
  BY <1>3, <1>4
<1>6. chain[n][i] \in Block /\ chain[n][i].nonce <= chain[n][height[e]].nonce
  BY <1>2, <1>3, <1>5, ElementOfSeq DEF ChainsGrow
<1> QED
  BY <1>1, <1>6 DEF NonceAt, Saw, BlockOf, Known, Own, Block, e, n, i

LEMMA ReturnNonce ==
    ASSUME TypeOK, ChainsGrow, NonceSeen, NEW r \in Requests, Return(r), "nonce" \in Made(r)
    PROVE  /\ Asks(r) /\ seen[r]["nonce"] \in 1..height[Own(r)]
           /\ Saw(r, "nonce").nonce \in Nat
           /\ Saw(r, "nonce").nonce <= Known(Holder[body[r].op])
<1>1. Asks(r)
  BY Tables DEF Asks, Made, Return, TypeOK, Body
<1>2. seen[r]["nonce"] # 0
  BY DEF Return, Open
<1>3. seen[r]["nonce"] \in 1..height[Own(r)]
  BY <1>1, <1>2 DEF NonceSeen, Return
<1> QED
  BY <1>1, <1>3, NonceIsKnown

LEMMA TypeOKStep == ASSUME TypeOK, ChainsGrow, NonceSeen, [Next]_vars PROVE TypeOK'
<1>1. WorldGrows
  BY Grows
<1>2. /\ provider' \in [Holders -> Endpoints] /\ body' \in [Requests -> Body \cup {None}]
      /\ chain' \in [Networks -> Seq(Block)] /\ height' \in [Endpoints -> Nat]
      /\ \A e \in Endpoints : height'[e] \in 1..Len(chain'[Network(e)])
  BY <1>1 DEF WorldGrows, TypeOK
<1> DEFINE Rest == /\ counter \in Nat
                   /\ pc \in [Requests -> {"idle", "calls", "answered", "limit", "failed"}]
                   /\ \A r \in Requests : pc[r] # "idle" => body[r] \in Body
                   /\ drawn \in [Requests -> Endpoints \X Endpoints]
                   /\ seen \in [Requests -> [AllCalls -> Nat]]
                   /\ top \in [Holders -> Nat] /\ floor \in [Requests -> [Holders -> Nat]]
                   /\ learnt \in [Requests -> BOOLEAN]
<1>3. \A n \in Nat : Url(n) \in Endpoints
  BY UrlType DEF Endpoints
<1>4. body' = body
  BY <1>1 DEF WorldGrows
<1>5. ASSUME NEW r \in Requests, Begin(r) PROVE Rest'
  <2>1. body[r] \in Body
    BY <1>5 DEF Begin, TypeOK
  <2>2. counter \in Nat /\ counter + 1 \in Nat /\ counter + 2 \in Nat
    BY DEF TypeOK
  <2>3. counter' \in Nat /\ drawn' \in [Requests -> Endpoints \X Endpoints]
    <3>1. <<Url(counter), Url(counter + 1)>> \in Endpoints \X Endpoints
      BY <1>3, <2>2
    <3>2. drawn' = drawn \/ drawn' = [drawn EXCEPT ![r] = <<Url(counter), Url(counter + 1)>>]
      BY <1>5 DEF Begin
    <3> DEFINE pair == <<Url(counter), Url(counter + 1)>>
    <3>3. drawn' \in [Requests -> Endpoints \X Endpoints]
      <4> HIDE DEF pair
      <4> QED
        BY <3>1, <3>2 DEF TypeOK, pair
    <3>4. counter' \in Nat
      BY <1>5, <2>2 DEF Begin, GetRpcUrlTwice, rotation
    <3> QED
      BY <3>3, <3>4
  <2> QED
    BY <1>5, <2>1, <2>3 DEF Begin, TypeOK
<1>6. ASSUME NEW r \in Requests, NEW c \in AllCalls, Answered(r, c) PROVE Rest'
  <2>1. Node(r, c) \in Endpoints
    <3>1. Holder[body[r].op] \in Holders /\ "factoryContract" \in Holders /\ "quoterContract" \in Holders
      BY <1>6, Tables DEF Answered, TypeOK, Body, Holders
    <3> QED
      BY <3>1 DEF Node, Drawn, TypeOK, Endpoints
  <2>2. counter \in Nat /\ counter + 1 \in Nat
    BY DEF TypeOK
  <2>3. counter' \in Nat /\ drawn' \in [Requests -> Endpoints \X Endpoints]
    <3>1. <<Url(counter), NoUrl>> \in Endpoints \X Endpoints
      BY <1>3, <2>2 DEF Endpoints
    <3>2. drawn' = drawn \/ drawn' = [drawn EXCEPT ![r] = <<Url(counter), NoUrl>>]
      BY <1>6 DEF Answered
    <3>3. drawn' \in [Requests -> Endpoints \X Endpoints]
      BY <3>1, <3>2 DEF TypeOK
    <3>4. counter' \in Nat
      BY <1>6, <2>2 DEF Answered, GetRpcUrl, rotation
    <3> QED
      BY <3>3, <3>4
  <2> DEFINE at == IF c \in Fixed THEN 1 ELSE height[Node(r, c)]
  <2>4. at \in Nat
    BY <2>1 DEF TypeOK
  <2>5. seen' = [seen EXCEPT ![r] = [seen[r] EXCEPT ![c] = at]]
    BY <1>6 DEF Answered
  <2>6. seen' \in [Requests -> [AllCalls -> Nat]]
    <3> HIDE DEF at
    <3> QED
      BY <2>4, <2>5 DEF TypeOK
  <2> QED
    BY <1>6, <2>3, <2>6 DEF Answered, TypeOK
<1>7. ASSUME NEW r \in Requests, Fails(r) PROVE Rest'
  BY <1>7 DEF Fails, Forget, rotation, TypeOK
<1>8. ASSUME NEW r \in Requests, Return(r) PROVE Rest'
  <2>1. Holder[body[r].op] \in Holders
    BY <1>8, Tables DEF Return, TypeOK, Body
  <2>2. top' \in [Holders -> Nat]
    <3>1. CASE top' = top
      BY <3>1 DEF TypeOK
    <3>2. CASE top' = [top EXCEPT ![Holder[body[r].op]] = Saw(r, "nonce").nonce] /\ "nonce" \in Made(r)
      <4>1. Saw(r, "nonce").nonce \in Nat
        BY <1>8, <3>2, ReturnNonce
      <4> QED
        BY <3>2, <4>1 DEF TypeOK
    <3> QED
      BY <1>8, <3>1, <3>2 DEF Return
  <2> QED
    BY <1>8, <2>2 DEF Return, rotation, TypeOK
<1>9. ASSUME NEW e \in Endpoints, Learn(e) PROVE Rest'
  BY <1>9 DEF Learn, rotation, TypeOK
<1>10. ASSUME MineEth \/ MineBsc \/ UNCHANGED vars PROVE Rest'
  <2>1. UNCHANGED <<counter, pc, body, drawn, seen, top, floor, learnt>>
    BY <1>10 DEF MineEth, MineBsc, Extend, vars, rotation
  <2>2. Rest
    BY DEF TypeOK
  <2> QED
    BY <2>1, <2>2
<1> HIDE DEF Rest
<1>11. Rest'
  BY NextCases, <1>5, <1>6, <1>7, <1>8, <1>9, <1>10
<1> QED
  BY <1>2, <1>11 DEF TypeOK, Rest

-----------------------------------------------------------------------------
(* What a step may do to one request.                                       *)
LEMMA RequestCases ==
    ASSUME TypeOK, [Next]_vars, NEW r \in Requests
    PROVE  \/ /\ pc'[r] = pc[r] /\ seen'[r] = seen[r] /\ floor'[r] = floor[r]
              /\ learnt[r] => learnt'[r]
           \/ Begin(r) \/ Fails(r) \/ Return(r) \/ \E c \in AllCalls : Answered(r, c)
<1> DEFINE Same == /\ pc'[r] = pc[r] /\ seen'[r] = seen[r] /\ floor'[r] = floor[r]
                   /\ learnt[r] => learnt'[r]
<1>1. ASSUME NEW q \in Requests, q # r, Begin(q) PROVE Same
  BY <1>1 DEF Begin, TypeOK
<1>2. ASSUME NEW q \in Requests, q # r, Fails(q) PROVE Same
  BY <1>2 DEF Fails, Forget, TypeOK
<1>3. ASSUME NEW q \in Requests, q # r, Return(q) PROVE Same
  BY <1>3 DEF Return, TypeOK
<1>4. ASSUME NEW q \in Requests, q # r, NEW c \in AllCalls, Answered(q, c) PROVE Same
  <2>1. seen'[r] = seen[r]
    BY <1>4 DEF Answered, TypeOK
  <2> QED
    BY <1>4, <2>1 DEF Answered
<1>5. ASSUME NEW e \in Endpoints, Learn(e) PROVE Same
  BY <1>5 DEF Learn, TypeOK
<1>6. ASSUME MineEth \/ MineBsc \/ UNCHANGED vars PROVE Same
  <2>1. UNCHANGED <<pc, seen, floor, learnt>>
    BY <1>6 DEF MineEth, MineBsc, Extend, vars
  <2> QED
    BY <2>1
<1> HIDE DEF Same
<1>7. Same \/ Begin(r) \/ Fails(r) \/ Return(r) \/ \E c \in AllCalls : Answered(r, c)
  BY NextCases, <1>1, <1>2, <1>3, <1>4, <1>5, <1>6
<1> QED
  BY <1>7 DEF Same

LEMMA UnaskedStep == ASSUME IInv, [Next]_vars PROVE Unasked'
<1> SUFFICES ASSUME NEW r \in Requests, NEW c \in AllCalls, pc'[r] = "idle"
             PROVE  seen'[r][c] = 0
  BY DEF Unasked
<1>1. pc[r] = "idle" /\ seen'[r] = seen[r]
  BY RequestCases DEF IInv, TypeOK, Begin, Fails, Return, Answered
<1> QED
  BY <1>1 DEF IInv, Unasked

LEMMA TopStep == ASSUME IInv, [Next]_vars PROVE TopKnown'
<1> SUFFICES ASSUME NEW h \in Holders PROVE top'[h] <= Known(h)'
  BY DEF TopKnown
<1>1. top[h] \in Nat /\ top[h] <= Known(h)
  BY DEF IInv, TypeOK, TopKnown
<1>2. Known(h) \in Nat /\ Known(h)' \in Nat /\ Known(h) <= Known(h)'
  BY KnownGrows DEF IInv
<1>3. CASE top' = top
  BY <1>1, <1>2, <1>3
<1>4. ASSUME NEW r \in Requests, Return(r), "nonce" \in Made(r),
             top' = [top EXCEPT ![Holder[body[r].op]] = Saw(r, "nonce").nonce]
      PROVE  top'[h] <= Known(h)'
  <2>1. /\ Saw(r, "nonce").nonce \in Nat
        /\ Saw(r, "nonce").nonce <= Known(Holder[body[r].op])
    BY <1>4, ReturnNonce DEF IInv
  <2>2. top'[h] = top[h] \/ (h = Holder[body[r].op] /\ top'[h] = Saw(r, "nonce").nonce)
    BY <1>4 DEF IInv, TypeOK
  <2> QED
    BY <1>1, <1>2, <2>1, <2>2
<1>5. \/ top' = top
      \/ \E r \in Requests : /\ Return(r) /\ "nonce" \in Made(r)
                             /\ top' = [top EXCEPT ![Holder[body[r].op]] = Saw(r, "nonce").nonce]
  BY NextCases DEF IInv, Begin, Fails, Forget, Return, Answered, MineEth, MineBsc, Extend, Learn, vars
<1> QED
  BY <1>3, <1>4, <1>5

LEMMA FloorStep == ASSUME IInv, [Next]_vars PROVE FloorKnown'
<1> SUFFICES ASSUME NEW r \in Requests, NEW h \in Holders PROVE floor'[r][h] <= Known(h)'
  BY DEF FloorKnown
<1>1. Known(h) \in Nat /\ Known(h)' \in Nat /\ Known(h) <= Known(h)'
  BY KnownGrows DEF IInv
<1>2. /\ top[h] \in Nat /\ top[h] <= Known(h)
      /\ floor[r][h] \in Nat /\ floor[r][h] <= Known(h)
  BY DEF IInv, TypeOK, TopKnown, FloorKnown
<1>3. floor'[r] = floor[r] \/ floor'[r] = top
  BY RequestCases DEF IInv, TypeOK, Begin, Fails, Forget, Return, Answered
<1> QED
  BY <1>1, <1>2, <1>3

(* What a request was told stays what it is, however the chain grows.       *)
LEMMA NonceStays ==
    ASSUME IInv, [Next]_vars, NEW r \in Requests, Asks(r), seen[r]["nonce"] \in 1..height[Own(r)],
           seen'[r]["nonce"] = seen[r]["nonce"]
    PROVE  /\ seen'[r]["nonce"] \in 1..height'[Own(r)]
           /\ NonceAt(r)' = NonceAt(r)
<1> DEFINE e == Own(r)  n == Network(e)  i == seen[r]["nonce"]
<1>1. WorldGrows
  BY Grows DEF IInv
<1>2. e \in Endpoints /\ n \in Networks /\ Own(r)' = e
  BY <1>1, OneEndpoint DEF WorldGrows, IInv, TypeOK, Own, Asks, Network, Networks
<1>3. i \in 1..height[e]
  OBVIOUS
<1> HIDE DEF e, n, i
<1>4. /\ height[e] \in 1..Len(chain[n]) /\ Len(chain[n]) \in Nat
      /\ height[e] <= height'[e] /\ height'[e] \in Nat
  BY <1>1, <1>2, NewestIsBlock DEF IInv, TypeOK, WorldGrows, n
<1>5. chain'[n][i] = chain[n][i] /\ i \in 1..height'[e]
  BY <1>1, <1>2, <1>3, <1>4 DEF WorldGrows
<1> QED
  BY <1>2, <1>5 DEF NonceAt, BlockOf, e, n, i

LEMMA NonceSeenStep == ASSUME IInv, [Next]_vars PROVE NonceSeen'
<1> SUFFICES ASSUME NEW r \in Requests, pc'[r] \in {"calls", "answered"}, Asks(r)'
             PROVE  /\ pc'[r] = "answered" => seen'[r]["nonce"] # 0
                    /\ seen'[r]["nonce"] # 0 =>
                        /\ seen'[r]["nonce"] \in 1..height'[Own(r)']
                        /\ \A h \in Holders : provider'[h] = Own(r)' => floor'[r][h] <= NonceAt(r)'
  BY DEF NonceSeen
<1>1. body' = body /\ provider' = provider /\ Own(r)' = Own(r) /\ Asks(r)
  BY Grows DEF IInv, WorldGrows, Own, Asks
<1>2. ASSUME pc[r] \in {"calls", "answered"}, pc'[r] = "answered" => seen[r]["nonce"] # 0,
             seen'[r]["nonce"] = seen[r]["nonce"], floor'[r] = floor[r]
      PROVE  /\ pc'[r] = "answered" => seen'[r]["nonce"] # 0
             /\ seen'[r]["nonce"] # 0 =>
                 /\ seen'[r]["nonce"] \in 1..height'[Own(r)']
                 /\ \A h \in Holders : provider'[h] = Own(r)' => floor'[r][h] <= NonceAt(r)'
  <2> SUFFICES ASSUME seen[r]["nonce"] # 0
               PROVE  /\ seen'[r]["nonce"] \in 1..height'[Own(r)']
                      /\ \A h \in Holders : provider'[h] = Own(r)' => floor'[r][h] <= NonceAt(r)'
    BY <1>2
  <2>1. /\ seen[r]["nonce"] \in 1..height[Own(r)]
        /\ \A h \in Holders : provider[h] = Own(r) => floor[r][h] <= NonceAt(r)
    BY <1>1, <1>2 DEF IInv, NonceSeen
  <2> QED
    BY <1>1, <1>2, <2>1, NonceStays
<1>3. CASE pc'[r] = pc[r] /\ seen'[r] = seen[r] /\ floor'[r] = floor[r]
  <2>1. pc'[r] = "answered" => seen[r]["nonce"] # 0
    BY <1>1, <1>3 DEF IInv, NonceSeen
  <2> QED
    BY <1>2, <1>3, <2>1
<1>4. CASE Begin(r)
  BY <1>4, Tables DEF Begin, IInv, TypeOK, Unasked
<1>5. CASE Fails(r)
  BY <1>5 DEF Fails, IInv, TypeOK
<1>6. CASE Return(r)
  <2>1. "nonce" \in Made(r)
    BY <1>1, OneEndpoint DEF Asks
  <2>2. seen[r]["nonce"] # 0
    BY <1>6, <2>1 DEF Return, Open
  <2> QED
    BY <1>2, <1>6, <2>2 DEF Return
<1>7. ASSUME NEW c \in AllCalls, Answered(r, c)
      PROVE  /\ pc'[r] = "answered" => seen'[r]["nonce"] # 0
             /\ seen'[r]["nonce"] # 0 =>
                 /\ seen'[r]["nonce"] \in 1..height'[Own(r)']
                 /\ \A h \in Holders : provider'[h] = Own(r)' => floor'[r][h] <= NonceAt(r)'
  <2>1. /\ pc[r] = "calls" /\ pc'[r] = "calls" /\ floor'[r] = floor[r]
        /\ height' = height /\ chain' = chain
    BY <1>7 DEF Answered, chains
  <2>2. CASE c = "nonce"
    <3>1. /\ Node(r, c) = Own(r) /\ c \notin Fixed /\ Holder[body[r].op] \in Holders
      BY <1>1, <2>2, OneEndpoint DEF Asks
    <3>2. Own(r) \in Endpoints
      BY <3>1 DEF Own, IInv, TypeOK
    <3> DEFINE e == Own(r)
    <3>3. seen'[r]["nonce"] = height[e]
      BY <1>7, <2>2, <3>1, Tables DEF Answered, IInv, TypeOK
    <3> HIDE DEF e
    <3>4. height[e] \in Nat \ {0}
      BY <3>2, NewestIsBlock DEF IInv, TypeOK, e
    <3>5. ASSUME NEW h \in Holders, provider'[h] = Own(r)' PROVE floor'[r][h] <= NonceAt(r)'
      <4>1. provider[h] = e /\ Own(r)' = e
        BY <1>1, <3>5 DEF e
      <4>2. NonceAt(r)' = Known(h)
        BY <2>1, <3>3, <4>1 DEF NonceAt, Known, BlockOf
      <4>3. floor[r][h] <= Known(h)
        BY DEF IInv, FloorKnown
      <4> QED
        BY <2>1, <4>2, <4>3
    <3>6. height'[Own(r)'] = height[e]
      BY <1>1, <2>1 DEF e
    <3> QED
      BY <2>1, <3>3, <3>4, <3>5, <3>6
  <2>3. CASE c # "nonce"
    <3>1. seen'[r]["nonce"] = seen[r]["nonce"]
      BY <1>7, <2>3, Tables DEF Answered, IInv, TypeOK
    <3> QED
      BY <1>2, <2>1, <3>1
  <2> QED
    BY <2>2, <2>3
<1> QED
  BY RequestCases, <1>3, <1>4, <1>5, <1>6, <1>7 DEF IInv

LEMMA OneHeightStep == ASSUME IInv, [Next]_vars PROVE OneHeight'
<1> SUFFICES ASSUME NEW r \in Requests, pc'[r] = "calls", body'[r].op \in OneNode, ~learnt'[r],
                    NEW c \in Calls[body'[r].op]
             PROVE  seen'[r][c] \in {0, height'[Own(r)']}
  BY DEF OneHeight
<1>1. body' = body /\ provider' = provider /\ Own(r)' = Own(r)
  BY Grows DEF IInv, WorldGrows, Own
<1>2. c \in AllCalls /\ body[r].op \in OneNode
  BY <1>1, Tables
<1> DEFINE e == Own(r)
<1>3. pc[r] = "calls" => height'[e] = height[e]
  <2>1. e \in Endpoints
    BY <1>1, <1>2, Tables DEF IInv, TypeOK, Own
  <2> SUFFICES ASSUME pc[r] = "calls" PROVE height'[e] = height[e]
    OBVIOUS
  <2>2. \/ height' = height
        \/ \E x \in Endpoints : x # e /\ height' = [height EXCEPT ![x] = height[x] + 1]
    <3>1. ASSUME NEW x \in Endpoints, Learn(x)
          PROVE  x # e /\ height' = [height EXCEPT ![x] = height[x] + 1]
      BY <3>1 DEF Learn, Own
    <3> QED
      BY NextCases, <3>1
         DEF IInv, Begin, Answered, Fails, Forget, Return, MineEth, MineBsc, Extend, vars, chains
  <2> HIDE DEF e
  <2>3. ASSUME NEW x \in Endpoints, height' = [height EXCEPT ![x] = height[x] + 1], x # e
        PROVE  height'[e] = height[e]
    BY <2>1, <2>3 DEF IInv, TypeOK
  <2> QED
    BY <2>2, <2>3
<1>4. ASSUME pc[r] = "calls", ~learnt[r] PROVE seen[r][c] \in {0, height[e]}
  BY <1>1, <1>2, <1>4 DEF IInv, OneHeight
<1> HIDE DEF e
<1>5. CASE pc'[r] = pc[r] /\ seen'[r] = seen[r] /\ (learnt[r] => learnt'[r])
  BY <1>1, <1>3, <1>4, <1>5 DEF e
<1>6. CASE Begin(r)
  <2>1. pc[r] = "idle" /\ seen' = seen
    BY <1>6 DEF Begin
  <2> QED
    BY <1>2, <2>1 DEF IInv, Unasked
<1>7. CASE Fails(r) \/ Return(r)
  BY <1>7 DEF Fails, Return, IInv, TypeOK
<1>8. ASSUME NEW d \in AllCalls, Answered(r, d) PROVE seen'[r][c] \in {0, height'[Own(r)']}
  <2>1. /\ pc[r] = "calls" /\ learnt' = learnt /\ height' = height /\ body[r] \in Body
    BY <1>8 DEF Answered, chains, IInv, TypeOK
  <2>2. CASE c # d
    <3>1. seen'[r][c] = seen[r][c]
      BY <1>2, <1>8, <2>2 DEF Answered, IInv, TypeOK
    <3> QED
      BY <1>1, <1>4, <2>1, <3>1 DEF e
  <2>3. CASE c = d
    <3>1. Node(r, c) = Own(r) /\ c \notin Fixed
      BY <1>1, <1>2, <2>1, OneEndpoint
    <3>2. seen'[r][c] = height[Own(r)]
      BY <1>2, <1>8, <2>3, <3>1 DEF Answered, IInv, TypeOK
    <3> QED
      BY <1>1, <2>1, <3>2
  <2> QED
    BY <2>2, <2>3
<1> QED
  BY RequestCases, <1>5, <1>6, <1>7, <1>8 DEF IInv

LEMMA TornStep == ASSUME IInv, [Next]_vars PROVE TornNeedsBlock'
<1> SUFFICES ASSUME NEW r \in Requests, pc'[r] = "answered", body'[r].op \in OneNode, ~learnt'[r],
                    NEW c \in Calls[body'[r].op], NEW d \in Calls[body'[r].op]
             PROVE  seen'[r][c] = seen'[r][d]
  BY DEF TornNeedsBlock, Done, Made
<1>1. body' = body
  BY Grows DEF IInv, WorldGrows
<1>2. pc[r] # "idle" => Made(r) = Calls[body[r].op]
  BY <1>1, OneEndpoint DEF IInv, TypeOK
<1>3. CASE pc'[r] = pc[r] /\ seen'[r] = seen[r] /\ (learnt[r] => learnt'[r])
  BY <1>1, <1>2, <1>3 DEF IInv, TornNeedsBlock, Done
<1>4. CASE Begin(r) \/ Fails(r) \/ \E x \in AllCalls : Answered(r, x)
  BY <1>4 DEF Begin, Fails, Answered, IInv, TypeOK
<1>5. CASE Return(r)
  <2>1. pc[r] = "calls" /\ seen' = seen /\ learnt' = learnt /\ Open(r) = {}
    BY <1>5 DEF Return
  <2>2. seen[r][c] # 0 /\ seen[r][d] # 0
    BY <1>1, <1>2, <2>1 DEF Open
  <2>3. seen[r][c] \in {0, height[Own(r)]} /\ seen[r][d] \in {0, height[Own(r)]}
    BY <1>1, <2>1 DEF IInv, OneHeight
  <2> QED
    BY <2>1, <2>2, <2>3
<1> QED
  BY RequestCases, <1>3, <1>4, <1>5 DEF IInv

LEMMA PricesSeenStep == ASSUME IInv, [Next]_vars PROVE PricesSeen'
<1> SUFFICES ASSUME NEW r \in Requests, NEW c \in PriceCalls
             PROVE  /\ seen'[r][c] \in 0..height'[Bsc]
                    /\ pc'[r] = "answered" /\ body'[r].op = "create" => seen'[r][c] # 0
  BY DEF PricesSeen
<1>1. body' = body /\ height[Bsc] \in Nat /\ height'[Bsc] \in Nat /\ height[Bsc] <= height'[Bsc]
  BY Grows DEF IInv, WorldGrows, TypeOK, Endpoints
<1>2. /\ seen[r][c] \in 0..height[Bsc] /\ c \in AllCalls
      /\ pc[r] = "answered" /\ body[r].op = "create" => seen[r][c] # 0
  BY PriceTable DEF IInv, PricesSeen
<1>3. CASE pc'[r] = pc[r] /\ seen'[r] = seen[r]
  BY <1>1, <1>2, <1>3
<1>4. CASE Begin(r)
  BY <1>1, <1>2, <1>4 DEF Begin, IInv, TypeOK
<1>5. CASE Fails(r)
  BY <1>1, <1>2, <1>5 DEF Fails, Forget, IInv, TypeOK
<1>6. CASE Return(r)
  <2>1. seen' = seen /\ Open(r) = {}
    BY <1>6 DEF Return
  <2>2. body[r].op = "create" => seen[r][c] # 0
    BY <2>1, PairEndpoint DEF Open
  <2> QED
    BY <1>1, <1>2, <2>1, <2>2
<1>7. ASSUME NEW d \in AllCalls, Answered(r, d)
      PROVE  /\ seen'[r][c] \in 0..height'[Bsc]
             /\ pc'[r] = "answered" /\ body'[r].op = "create" => seen'[r][c] # 0
  <2>1. pc'[r] = "calls" /\ height' = height
    BY <1>7 DEF Answered, chains
  <2>2. CASE c # d
    <3>1. seen'[r][c] = seen[r][c]
      BY <1>2, <1>7, <2>2 DEF Answered, IInv, TypeOK
    <3> QED
      BY <1>2, <2>1, <3>1
  <2>3. CASE c = d
    <3>1. Node(r, c) = Bsc /\ c \notin Fixed
      BY <1>7, <2>3, PairEndpoint, PriceTable DEF Answered, Open, Made
    <3>2. seen'[r][c] = height[Bsc]
      BY <1>2, <1>7, <2>3, <3>1 DEF Answered, IInv, TypeOK
    <3> QED
      BY <1>1, <2>1, <3>2
  <2> QED
    BY <2>2, <2>3
<1> QED
  BY RequestCases, <1>3, <1>4, <1>5, <1>6, <1>7 DEF IInv

-----------------------------------------------------------------------------
(* The invariant above holds in every state of every behaviour.             *)
THEOREM Invariant == Spec => []IInv
<1>1. IInv /\ [Next]_vars => IInv'
  <2> SUFFICES ASSUME IInv, [Next]_vars PROVE IInv'
    OBVIOUS
  <2>1. TypeOK' /\ ChainsGrow'
    BY TypeOKStep, Grows DEF IInv, WorldGrows
  <2>2. Unasked' /\ TopKnown' /\ FloorKnown' /\ NonceSeen' /\ OneHeight' /\ TornNeedsBlock'
    BY UnaskedStep, TopStep, FloorStep, NonceSeenStep, OneHeightStep, TornStep
  <2>3. PricesSeen'
    BY PricesSeenStep
  <2> QED
    BY <2>1, <2>2, <2>3 DEF IInv
<1> QED
  BY IInvInit, <1>1, PTL DEF Spec

(* Every variable stays in its range; no endpoint is ahead of its chain.    *)
THEOREM TypeCorrect == Spec => []TypeOK
<1>1. IInv => TypeOK
  BY DEF IInv
<1> QED
  BY Invariant, <1>1, PTL

(* The nonces told to a wallet never go back between services of one        *)
(* endpoint, however many requests, endpoints and blocks there are.         *)
THEOREM NoncesNeverGoBack == Spec => []NonceNeverGoesBack
<1>1. IInv => NonceNeverGoesBack
  <2> SUFFICES ASSUME IInv, NEW r \in Requests, Done(r), "nonce" \in Made(r), NEW h \in Holders,
                      provider[h] = provider[Holder[body[r].op]]
               PROVE  Saw(r, "nonce").nonce >= floor[r][h]
    BY DEF NonceNeverGoesBack
  <2>1. Asks(r)
    BY Tables DEF Asks, Made, Done, IInv, TypeOK, Body
  <2>2. seen[r]["nonce"] \in 1..height[Own(r)] /\ floor[r][h] <= NonceAt(r)
    BY <2>1 DEF IInv, NonceSeen, Done, Own
  <2>3. Saw(r, "nonce").nonce = NonceAt(r) /\ NonceAt(r) \in Nat /\ floor[r][h] \in Nat
    BY <2>1, <2>2, NonceIsKnown DEF IInv, TypeOK
  <2> QED
    BY <2>2, <2>3
<1> QED
  BY Invariant, <1>1, PTL

(* An answer is torn only by a block its endpoint learnt while it was made. *)
THEOREM TornByABlock == Spec => []TornNeedsBlock
<1>1. IInv => TornNeedsBlock
  BY DEF IInv
<1> QED
  BY Invariant, <1>1, PTL

-----------------------------------------------------------------------------
(* The minimum of a plan.                                                  *)

LEMMA Monotone == ASSUME NEW a \in Nat, NEW b \in Nat, NEW k \in Nat, a <= b PROVE a * k <= b * k
  OBVIOUS

\* Of a percentage over T, d was taken and s asked for, in tenths of it, d rounded down:
\* (T + d)(T - d) <= T * T.
LEMMA PercentTakesLess ==
    ASSUME NEW T \in Nat, NEW s \in Nat, s <= 10 * T, NEW d \in Nat, 10 * d <= s
    PROVE  (10 * T - s) * (T + d) <= 10 * (T * T)
<1> DEFINE D == T + d  k == 10 * T - s  l == 10 * T - 10 * d
<1>1. D \in Nat /\ k \in Nat /\ l \in Nat /\ k <= l
  OBVIOUS
<1>2. k * D <= l * D
  <2> HIDE DEF D, k, l
  <2> QED
    BY <1>1, Monotone
<1>3. l * D = 10 * (T * T) - 10 * (d * d) /\ d * d \in Nat /\ T * T \in Nat
  OBVIOUS
<1>4. ASSUME NEW a \in Int, NEW b \in Int, NEW x \in Nat, NEW y \in Nat,
             a <= b, b = 10 * x - 10 * y
      PROVE  a <= 10 * x
  BY <1>4
<1>5. k * D \in Int /\ l * D \in Int
  BY <1>1
<1> HIDE DEF D, k, l
<1>6. k * D <= 10 * (T * T)
  BY <1>2, <1>3, <1>4, <1>5
<1> QED
  BY <1>6 DEF D, k

LEMMA SlippageLeaves ==
    ASSUME NEW T \in Nat, T > 0, NEW q \in Nat, NEW n \in Nat, q <= n,
           NEW s \in Nat, NEW d \in Nat, 10 * d <= s
    PROVE  ((n * T) \div (T + d) + 1) * (10 * T) >= q * (10 * T - s)
<1> DEFINE D == T + d  x == n * T  m == x \div D  k == 10 * T - s
<1>1. D \in Nat /\ D > 0 /\ x \in Nat /\ k \in Int
  OBVIOUS
<1>2. m \in Nat /\ x < (m + 1) * D
  <2> HIDE DEF D, x
  <2> QED
    BY <1>1
<1> HIDE DEF m
<1>3. CASE k < 0
  <2> HIDE DEF k, x, D
  <2>1. q * k <= 0
    BY <1>1, <1>3
  <2>2. (m + 1) * (10 * T) >= 0 /\ (m + 1) * (10 * T) \in Int /\ q * k \in Int
    BY <1>1, <1>2
  <2>3. (m + 1) * (10 * T) >= q * k
    BY <2>1, <2>2
  <2> QED
    BY <2>3 DEF k, m, x, D
<1>4. CASE k >= 0
  <2>1. k * D <= 10 * (T * T)
    BY <1>4, PercentTakesLess
  <2>2. k * D \in Nat /\ T * T \in Nat
    BY <1>1, <1>4
  <2>3. 10 * (T * T) \in Nat
    BY <2>2
  <2> HIDE DEF k, D
  <2>4. (k * D) * q <= (10 * (T * T)) * q
    BY <2>1, <2>2, <2>3, Monotone
  <2>5. q * (10 * (T * T)) <= n * (10 * (T * T))
    BY <2>3, Monotone
  <2>6. /\ (10 * (T * T)) * q = q * (10 * (T * T))
        /\ n * (10 * (T * T)) = x * (10 * T)
    OBVIOUS
  <2>7. (k * D) * q <= x * (10 * T)
    <3>1. /\ (k * D) * q \in Nat /\ (10 * (T * T)) * q \in Nat
          /\ n * (10 * (T * T)) \in Nat
      BY <2>2, <2>3
    <3> HIDE DEF x
    <3> QED
      BY <2>4, <2>5, <2>6, <3>1
  <2> HIDE DEF x
  <2>8. ASSUME (m + 1) * (10 * T) < q * k PROVE FALSE
    <3> DEFINE y == (m + 1) * (10 * T)
    <3>1. y \in Nat /\ q * k \in Nat /\ y + 1 <= q * k
      BY <1>1, <1>2, <1>4, <2>8
    <3> HIDE DEF y
    <3>2. (y + 1) * D <= (q * k) * D
      BY <1>1, <3>1, Monotone
    <3>3. (q * k) * D = (k * D) * q
      BY <1>1
    <3>4. (y + 1) * D = y * D + D
      BY <1>1, <3>1
    <3>5. y * D = ((m + 1) * D) * (10 * T)
      BY <1>1, <1>2 DEF y
    <3>6. x * (10 * T) <= ((m + 1) * D) * (10 * T)
      BY <1>1, <1>2, Monotone
    <3>7. /\ x * (10 * T) \in Nat /\ y * D \in Nat /\ (y + 1) * D \in Nat
          /\ (k * D) * q \in Nat
      BY <1>1, <2>2, <3>1
    <3>8. (y + 1) * D <= x * (10 * T) /\ x * (10 * T) <= y * D
      BY <2>7, <3>2, <3>3, <3>5, <3>6, <3>7
    <3> QED
      BY <1>1, <3>4, <3>7, <3>8
  <2>9. q * k \in Nat /\ (m + 1) * (10 * T) \in Nat
    BY <1>1, <1>2, <1>4
  <2>10. (m + 1) * (10 * T) >= q * k
    BY <2>8, <2>9
  <2> QED
    BY <2>10 DEF k, m, x, D
<1> QED
  BY <1>1, <1>3, <1>4

LEMMA PriceIsNat ==
    ASSUME TypeOK, NEW r \in Requests, NEW c, Node(r, c) = Bsc, seen[r][c] \in 1..height[Bsc]
    PROVE  Saw(r, c).price \in Nat
<1> DEFINE i == seen[r][c]
<1>1. Network(Bsc) = "BSC" /\ Bsc \in Endpoints /\ "BSC" \in Networks
  BY DEF Network, Networks, Endpoints
<1>2. /\ height[Bsc] \in 1..Len(chain["BSC"]) /\ chain["BSC"] \in Seq(Block)
      /\ Len(chain["BSC"]) \in Nat
  BY <1>1, NewestIsBlock DEF TypeOK
<1> HIDE DEF i
<1>3. i \in 1..Len(chain["BSC"])
  BY <1>2 DEF i
<1>4. chain["BSC"][i] \in Block
  BY <1>2, <1>3, ElementOfSeq
<1> QED
  BY <1>1, <1>4, PricesAssumption DEF Saw, BlockOf, Block, i

(* A plan's minimum honours the slippage for every price, slippage and      *)
(* interleaving with the blocks: the rounded-down percentage of the second  *)
(* read is within one unit of what the slippage leaves of the quote, if the *)
(* price did not fall.                                                      *)
THEOREM SlippageHonoured == Spec => []MinimumHonoursSlippage
<1>1. IInv => MinimumHonoursSlippage
  <2> SUFFICES ASSUME IInv, NEW r \in Requests, Done(r), body[r].op = "create",
                      ~(Saw(r, "pair").price < Saw(r, "quotePair").price),
                      PancakeSlippage = 10000
               PROVE  (PancakeMinimum(r, Saw(r, "pair").price) + 1) * 100000
                        >= Saw(r, "quotePair").price * (100000 - body[r].slippage)
    BY DEF MinimumHonoursSlippage
  <2>1. ASSUME NEW c \in PriceCalls PROVE Saw(r, c).price \in Nat
    <3>1. Node(r, c) = Bsc
      BY PairEndpoint
    <3>2. seen[r][c] \in 0..height[Bsc] /\ seen[r][c] # 0 /\ height[Bsc] \in Nat
      BY DEF IInv, TypeOK, PricesSeen, Done, Endpoints
    <3>3. seen[r][c] \in 1..height[Bsc]
      BY <3>2
    <3> QED
      BY <3>1, <3>3, PriceIsNat DEF IInv
  <2> DEFINE q == Saw(r, "quotePair").price  n == Saw(r, "pair").price  s == body[r].slippage
             d == s \div 10  T == PancakeSlippage
  <2>2. q \in Nat /\ n \in Nat
    BY <2>1 DEF PriceCalls
  <2>3. s \in Nat
    BY DEF IInv, TypeOK, Done, Body
  <2>4. PancakeMinimum(r, n) = (n * T) \div (T + d)
    BY SlippageAssumption DEF PancakeMinimum
  <2>5. T \in Nat /\ T > 0 /\ 10 * T = 100000
    OBVIOUS
  <2>6. d \in Nat /\ 10 * d <= s
    BY <2>3
  <2> HIDE DEF q, n, s, d, T
  <2>7. q <= n
    BY <2>2 DEF q, n
  <2>8. ((n * T) \div (T + d) + 1) * (10 * T) >= q * (10 * T - s)
    BY <2>2, <2>3, <2>5, <2>6, <2>7, SlippageLeaves
  <2>9. (PancakeMinimum(r, n) + 1) * 100000 >= q * (100000 - s)
    BY <2>4, <2>5, <2>8
  <2> QED
    BY <2>9 DEF q, n, s
<1> QED
  BY Invariant, <1>1, PTL
=============================================================================

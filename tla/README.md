# A formal model of swift-ex-proxy-server

The repository is a NestJS server that stands between the SwiftEx wallet app and
the outside world: it receives webhooks (Moralis, Stellar, Alchemy Pay) and turns
them into push notices, prepares and relays swaps (Uniswap on Ethereum, PancakeSwap
on BSC), prepares bridge transactions (Allbridge), and reads transaction histories.
It runs as one Node process in an ECS task, next to Redis (ElastiCache) and MongoDB.

All paths below are relative to the repository. A line such as
`webhook.service.ts:129` is a line of `src/api/v1/webhook/webhook.service.ts`.

## 1. Inventory

| Part | State it keeps | Operations | Talks to |
|---|---|---|---|
| Moralis webhook (`webhook/webhook.service.ts` 77-165) | none of its own; one Redis key per transaction hash | `handleWebhookMoralis` | Redis (awaited GET, un-awaited SET), FCM (un-awaited send) |
| Stellar webhook (same file, 28-75) | none | `handleStellar` | FCM (awaited send) |
| Alchemy webhooks (`webhook/alchemyWebhook.service.ts`) | none of its own | `handleAlchemyOnRamp`, `handleAlchemyOffRamp` | orders, devices, FCM, each awaited |
| Orders (`orders/`) | Mongo collection, shared with a service outside the repository | `findOneByOrderNo`, `updateOrder` | Mongo |
| Devices, users (`device/`, `users/`) | Mongo collections, only read here | `findOne`, `findById` | Mongo |
| Redis client (`redis/redis.service.ts`) | one connection | `getKey`, `setKey`, `delKey`, start-up `ping` | Redis |
| Firebase (`notification/firebase/`) | the Firebase app | `sendNotification`, which rethrows | FCM |
| RPC rotation (`provider/provider.service.ts`) | `rpcUrls`, `counter` | `getRpcUrl`, `getBscProvider` | every service that needs a chain |
| Allbridge (`bridge/all-bridge/`) | `sdk`, `provider`, replaced on every request | `prepareTransaction`, `getSwapDetails` | RPC rotation, Allbridge SDK, chain |
| Ethereum swaps (`eth/`) | one provider per service, from the endpoints the rotation gave at startup | `getSwapQuote`, `prepareSwapTransaction` (the testnet builder when `ENVIRONMENT` is `dev`, Uniswap otherwise), `executeSwapTransactions`, `broadcastTransaction` | RPC rotation, chain |
| BSC swaps (`bsc/`) | one provider | `getSwapQuote`, `prepareSwapTransaction`, `broadcastTransaction` | PancakeSwap router, chain |
| Reads of both (`eth.service.ts` 94-180, 256-315, `bsc.service.ts` 158-251) | the same providers | `getWalletAddressInfo`, `getTokenInfo`, `prepareTransaction`, balances, `prepareUsdtSwapTransaction` | RPC rotation, chain |
| PancakeSwap (`bsc/pancake/`) | two providers, one from the rotation | `getSwapQuote`, `createUnsignedSwapTransaction`, `estimateSwapGas`; no controller calls them | RPC rotation, chain |
| Transaction history (`alchemy/`) | none | `getWalletTransactionHistory`: two queries side by side, merge, deduplicate, sort, decimals | Alchemy SDK |
| Device authentication (`common/middleware/`) | none | `use` | devices |
| Application (`main.ts`, `app.module.ts`) | none | `bootstrap`, which waits for MongoDB and not for Redis; the health routes | MongoDB, Redis |
| Deployment (`*.sh`, `.github/workflows/`) | SSM parameters, the container's environment | publish, fetch, start | AWS |

The parts meet in seven places.

* **One process.** Handlers of all requests interleave at every `await`. An
  unhandled rejection ends the process and every request in it.
* **Redis** joins deliveries of the same transaction: a key that exists silences
  the next delivery.
* **The order collection** joins ramp deliveries with the service that creates
  and edits orders; both write whole documents.
* **The rotation and the bridge's `sdk`** are singletons that requests share.
* **The wallet's nonces** join prepare requests, execute requests and whatever else the
  wallet signs: the server keeps none of them, it only reads the chain.
* **The chains** join reads of different services: each service asks the endpoint it was
  given at startup, and endpoints lag behind their chain by different amounts.
* **The Parameter Store** joins whoever publishes the configuration with the containers
  that start meanwhile.

### What is hard

| Behaviour | Where | Property or plan |
|---|---|---|
| check of a key, then act, then set it, with other deliveries in between | `webhook.service.ts` 129-156 | `DuplicateNeedsOverlapOrLoss`, `Promise` |
| a SET and a send nobody awaits, whose failure ends the process | 151-156 | `RepeatNeedsLoss`, `SilencedIsAccountedFor`, `OnlyMoralisKills` |
| a retry of a delivery that was already announced | 77-165 | `RepeatNeedsLoss` |
| whole-document read-modify-write across two awaits | `alchemyWebhook.service.ts` 33-59, 75-99 | `EditsSurviveUnlessRaced`, `NewerAnswerWins`, `StatusMatchesResponse` |
| one step of several failing (no device, dead token, failed write) | the same | `StoredWasShown`, `ToldIsStored`, `EventuallyAnswered` |
| a lookup with an undefined id, a number that several orders share | the same, 42 and 84; 34 and 76 | `NoticeGoesToTheOwner`, `StoredWasShown` |
| a singleton replaced while another request is suspended on it | `all-bridge.service.ts` 254-260 | `EndpointIsItsOwn` |
| `counter % 0`, off-by-one in the rotation | `provider.service.ts` 11-31 | `Balanced` |
| several signed transactions, broadcast one after the other, with failures in between | `eth.service.ts` 240-254 | `StepsInOrder`, `AnswerIsTrue` |
| the same signed transactions posted again | the same | `AbandonedForGood` |
| nonces read at one time and used at another, by several plans | `eth.testnet.service.ts` 111, `eth.uniswap.service.ts` 116, `bsc.service.ts` 114 | `GapNeedsDrop`, `StepsInOrder` |
| a wait without a deadline | `eth.service.ts` 247 | `EventuallyAnswered` of `SwapExecution` |
| two queries answered at different heights, each cut off at its own | `transaction-history.service.ts` 100-121 | `CompleteAboveCutoff`, `SpendingIsShown`, `OnceNewestFirst` |
| zero that counts as missing, a lookup that fails in part | the same, 59-73 and 146 | `SameTokenSameScale` |
| arithmetic commands under `set -e` | `setssmparameter.sh` 67, 95, 98 | `SecondPutNeedsInvalidFirst`, `EveryEntryIsPut` |
| a configuration read entry by entry while it is published | `start.sh` 34-66 | `TornNeedsTwoRuns` |
| a quote, an estimate and a balance read at four times, and used later still | `eth.uniswap.service.ts` 83-268 | `FailureHasCause`, `ShortfallNeedsMove`, `FundedUnlessSpent` |
| transactions estimated before the ones they build on are mined | `eth.uniswap.service.ts` 171, `eth.testnet.service.ts` 144-153, 250-258 | `WrapIsSpare`, `GasSuffices` |
| several reads put together by `Promise.all` while the endpoint learns new blocks | `eth.service.ts` 171, 295, `bsc.service.ts` 165, 186, 236 | `TornNeedsBlock` |
| services pinned to different endpoints, each at its own height | `eth.service.ts` 75, `eth.testnet.service.ts` 31 | `NonceNeverGoesBack` |
| a pair read twice for one plan | `bsc.pancake.service.ts` 111, 153 | `MinimumHonoursSlippage` |
| a ping nobody awaits, a boot that fails, dependencies that come and go | `redis.service.ts` 21, `main.ts` 8 | `ListensAgain` |
| a rejection that one handler catches and the other leaves to the process | `webhook.service.ts` 62, 151 | `OnlyMoralisKills` |
| a device looked up once and used after | `device-auth-token.middleware.ts` 38-46 | `VerdictWasTrue` |

`PROJECT.json` holds the full list of hazards, each at its line. Some of them the code does not
guard against at all. A property that forbade them would be false, so they are
either without a property or the exception one names:

| What the code allows | Where | In the model |
|---|---|---|
| an event whose lookup failed is acknowledged and never told | `webhook.service.ts` 158 | a `Fail` of `FundsNotice` |
| a second recipient of one transaction is silenced | 132 | `FundsNotice` promises one notice per transaction |
| a transfer in second place of a body is not read | 99 | `MoralisPayload` picks the first |
| an answer is lost with its refused notice | `alchemyWebhook.service.ts` 51 | `EventuallyAnswered` promises an answer to the ramp, no more |
| an off-ramp notice about an order without a device goes to any device | 83 | the exception in `NoticeGoesToTheOwner` |
| an answer goes to another order of its number | 34 | `OrdersOf`; the properties say that told and stored are of one order |
| a user is told twice after a death between notice and write | 56 | `severed`, the exception in `ToldIsStored` |
| a swap takes more than the fixed 400000 gas | `eth.testnet.service.ts` 250 | the exception in `GasSuffices` |
| a price falls before prepare reads its own quote; a BSC quote in the units of tokenIn | `eth.uniswap.service.ts` 88, `bsc.service.ts` 73 | the exceptions in `ShortfallNeedsMove` |
| a failed lookup, or metadata of zero decimals | `transaction-history.service.ts` 146 | the exceptions in `SameTokenSameScale` |
| the proceeds of a swap are not shown | 116 | `SpendingIsShown` says which leg is left |
| a price falls between the two reads of a pair; `PANCAKE_SLIPPAGE` is not 10000 | `bsc.pancake.service.ts` 153, 161 | the exceptions in `MinimumHonoursSlippage` |

## 2. Modules

| Module | Models | Extends |
|---|---|---|
| `MoralisPayload` | the body of a Moralis webhook and what the handler derives from it: the picked entry, its hash, whether it throws, whether it is for this wallet | - |
| `FundsNotice` | abstract specification: an event is told, silenced, ignored or failed once, and silenced only by a claimed hash | `MoralisPayload` |
| `MoralisWebhook` | the handler, the Redis connection, FCM, death and restart | `MoralisPayload`, instance of `FundsNotice` |
| `MoralisWebhookProofs` | theorems about it | `MoralisWebhook`, TLAPS |
| `AlchemyWebhook` | both ramp handlers over the order collection | - |
| `AlchemyWebhookProofs` | theorems about it | `AlchemyWebhook`, TLAPS |
| `ProviderService` | the environment, the rotation, its counter | - |
| `AllBridge` | the bridge service over the rotation | `ProviderService` |
| `AllBridgeProofs` | theorems about both | `AllBridge`, TLAPS |
| `ChainReads` | the reads of every chain service, at the endpoint each was given, over chains that grow | `ProviderService` |
| `ChainReadsProofs` | theorems about it | `ChainReads`, TLAPS |
| `SwapExecution` | plans of a wallet, the requests that execute them, the pool and the ledger of the chain | - |
| `SwapExecutionProofs` | theorems about it | `SwapExecution`, TLAPS |
| `SwapPrepare` | quote, prepare request and its plan, against a market and a wallet that change | - |
| `SwapPrepareProofs` | theorems about it | `SwapPrepare`, TLAPS |
| `TransactionHistory` | one history request over a growing ledger of the wallet's transactions | - |
| `TransactionHistoryProofs` | theorems about it | `TransactionHistory`, TLAPS |
| `SsmParameters` | `setssmparameter.sh`, the Parameter Store and `start.sh` | - |
| `Server` | the process: boot, ping, device middleware, which rejections end it | - |
| `DeploymentProofs` | theorems about both | `SsmParameters`, `Server`, TLAPS |
| `MC*` | the instances TLC checks | the module of that name |

Operators preceded by a comment "Mutant" are plausible bugs; no specification uses
them. They serve to show that each property can tell the code from a broken form.

### From code to action

`MoralisWebhook`. `pc[d]` says where the request of delivery `d` is. `Dismiss` is a
handler that returns or throws before line 129. `Ask` is everything up to the await
of line 129, `RedisGet` the answer on the connection, and `Silence`, `Ignore` and
`Notify` the three continuations (132-137, 138-144, 145-157). `Notify` hands the
notice to FCM and the SET to the connection in one step, since no `await` stands
between. ioredis sends commands in order over one connection, so `pipe` is a queue.
`FcmRejects` and `RedisSetFails` are rejections of promises nobody awaits, and `Die`
is what Node does with them: requests, unfinished sends and queued SETs are gone.
`Respond` is the 200 that the controller answers whatever the handler did. A request
cut off by a death goes back to "waiting": Moralis posts it again.

`AlchemyWebhook`. One action per await: `FindOrder` (with the refusals of line 36 and
40), `FindDevice`, `Send`, `Update`. `Fails` is any of them rejecting, caught by the
handler. `snapshot[d]` is the mongoose document the handler holds; `Update` writes it
back whole. `rest` stands for all fields the handlers do not set, counted by the edits
made to it. `CreateOrder` and `EditOrder` are the other service, which edits the orders in
`Edited`. `findOne` by order number returns any match, because nothing makes the number unique,
and the device lookup of an order without a device returns any device or none (`DevicesOf`).
Properties about a notice name its recipient (`ToldDevice`), so they do not take one order of a
number for the other.

`ProviderService`, `AllBridge`. `rpcUrls` is computed from `Env` as the constructor
does, empty values dropped. `Begin` includes both calls of `updateSdkRpc` a
`prepareTransaction` makes before its first await; `FindDestination` is the third.
`rpc` is the one endpoint of `this.sdk` and `this.provider`. `OtherCaller` is any
other service taking an endpoint.

`SwapExecution`. A plan is the answer of one prepare request: one, two or three
transactions with consecutive nonces (`Length`, `Nonce`), counted from
`getTransactionCount` with or without the pool (`CountsPending`). `Execute` is the app
posting a plan, for the first time or again; a plan of one transaction posted to
`broadcastTransaction` is the same loop with one turn. `SendAccepted`, `SendRejected`
and `SendUnanswered` are the three outcomes of the await of line 246 (the third: the
node took it and the answer was lost), `Receipt`, `Reverted` and `WaitFails` those of
line 247. ethers rejects `wait()` for a receipt of status 0 and for a replaced
transaction, so both are `Reverted`. `Enter`, `Mine`, `SendOther` and `Drop` are the
chain and the wallet's other apps: one transaction per nonce, mined in nonce order,
replaceable while pending. A node may refuse anything, so `SendRejected` has no guard.

`SwapPrepare`. One swap, from the quote the app shows to the last transaction of its plan.
`route` says which builder and which branch of it: tokenIn is WETH, ETH or another token
(Uniswap), BNB (BSC), or one of the two swap types of the testnet builder. Each await is a
step: `Requote` (line 88; `bsc.service.ts:91`), `ReadFees`, one `Estimate` for each
transaction, `CheckBalance`; `PrepareBnb` is the rest of the BSC handler, which depends on
nothing it asks for after its quote. `EstimateOrFallback` is `estimateGas` of the testnet builder with
its `catch`. `Fails` is any call rejecting, an estimate that reverts, or too low a balance:
the handler throws. `Verdict` is what the chain makes of an operation: out of gas, a
transfer it may not make, less than the minimum, past the deadline, or done. `Simulates`
is what `eth_estimateGas` says, before the transactions in front are mined. `Mines`, `Reverts` and
`Refused` are the chain and the node carrying the plan out; nonces and how a plan is
posted are the matter of `SwapExecution` and left out here. `WalletMoves`, `PriceMoves`, `GasMoves` and
`Expires` are everybody else and the clock. Amounts are naturals, and the products and
quotients of the code are written out, since the properties are about them.

`TransactionHistory`. The two queries of `Promise.all` are answered in any order
(`SentAnswered`, `ReceivedAnswered`), with `Mine` in between. `Newest` is Alchemy's
descending list cut at `maxCount`; `FirstOfHash` and `ByBlock` are lines 116 and 117.
All three list a finite set in a total order (`InOrder`): transfers newest first, the
first of each hash as they stand, and block descending with equal blocks as they stand, which
is what a stable sort does.
`FetchMetadata` is the second `Promise.all`: each lookup succeeds or fails, and nothing
reads the map before all have. `Decimals` is line 146 with JavaScript's `||`: the string
`"0x0"` counts, the number 0 does not. Amounts are abstracted to the decimals they are
shown with, so `formatTokenAmount`'s layout is left out.

`SsmParameters`. One action per turn of the publishing loop up to its `put-parameter`, and
one per outcome of it. `Survives` is the status of `((counter++))`: 0 only if the counter
was above 0 before. Where the command stands alone (lines 95 and 98), `set -e` ends the
script; inside the `&&` list of line 67 it only skips the `continue`, so `InvalidType`
goes on to the put. `List` and `Get` are the calls of `start.sh`, whose failures read as
an empty answer. A parameter's value is the number of the run that put it. One publisher
runs at a time; two at once are not modelled.

`ChainReads`. A request is a set of calls (`Calls`), some made only after others
(`Follows`), some not at all (`Skipped`: BNB is no contract, a sufficient allowance needs no
approval). `Answered` is one call coming back: `seen` is the height of the endpoint (`Node`)
at that moment, and `Saw` the block of that height. Calls for what no block changes
(`Fixed`: names and decimals), or for what no property depends on, are answered without one.
The four calls of `getErc20ContractInfo` are one, since only the balance changes.
`getContract` takes an endpoint of the rotation for each Ethereum contract, so `Begin` draws two
for two tokens (264-270) and the pool of the USDT swap one more (117). `Return` puts
the answer together; for the USDT swap it throws, as line 137 does. `Fails` is any call
rejecting: Nest answers 500, `estimateSwapGas` a constant. `MineEth`, `MineBsc` and `Learn`
are the chains and the nodes behind the endpoints. `PancakeMinimum` is lines 161-165 with both
roundings; the slippage has three decimals of a percent, one more than the code keeps. A
wallet of a PancakeSwap plan is left out, since its nonce, owner and recipient are the token's own address.

`Server`. `Boot` is `NestFactory.create` and `listen`, `GiveUp` Mongoose giving up its retries,
which ends the process; `Pong` and `PingFails` are the promise of line 21 of
`redis.service.ts`, which the boot does not await. `Authenticate` to `Proceed` are the middleware up to its await
and after it. The Stellar handler awaits its send inside a try (`StellarSent`, whatever FCM
says). The Moralis handler catches the rejected GET (`MoralisFails`) but awaits neither its send nor its
SET (`Moralis`): a rejection of either is nobody's (`FcmRejects`, `RedisSetFails`). The Alchemy webhooks await all they do inside
a try, as the Stellar handler does; `Handle` stands for the handlers behind the middleware, all
awaited by Nest. `Start` is ECS replacing a task.

What is abstracted: the text of notices, amounts, addresses and hashes (members of
small sets), decryption (a tag decrypts to a token and an address, or throws), and the
answers of the Allbridge SDK.

History variables (`sends`, `shown`, `dropped`, `lost`, `overlap`, `applied`, `after`,
`raced`, `severed`, `edits`, `handed`, `own`, `used`, `asked`, `overlapped`, `dropped` of `SwapExecution`, `sentAt`, `receivedAt`, `failed` of
`TransactionHistory`, `moved`, `spent` of `SwapPrepare`, `top`, `floor`, `learnt` of `ChainReads`, `was` of `Server`, `tried`, `refusals`, `listed`, `missed`, `seen`, `writers` of `SsmParameters`) record what
happened; no guard of a handler reads them. (`edits` also bounds `EditOrder`.)

## 3. Runs

| Run | Question | Instance |
|---|---|---|
| `moralis` | when can a transaction be announced twice, or be silenced with no announcement? Does the handler implement `FundsNotice`, and is an event to announce announced in the end? | 2 deliveries of every shape of body, 1 death |
| `alchemy` | what can stale writes do to an order, who is told, do told and stored belong together, and is every request answered? | 2 answers of either ramp, two orders of one number, one with a device and one without, 2 devices, 1 edit, 1 death |
| `bridge_race` | does the rotation stay balanced, and whose endpoint does a request use? | 3 requests, 3 endpoints and one blank variable, other callers |
| `bridge_token` | *violation*: is a token the SDK does not list refused? | 2 requests, source BNB |
| `swap_testnet` | is an approval always mined before its swap, and is an answer true? | 2 plans of two or three transactions, 3 requests, 1 foreign transaction, 1 drop, 1 death |
| `swap_uniswap` | do prepared nonces leave gaps, and can a cut plan be finished by posting it again, and is every execute request answered? | 2 plans, 2 requests, the same faults |
| `ssm_torn` | what does it take to tear a container's environment, and to reach a second put? | 2 parameters, 4 files, 3 runs, 2 starts |
| `ssm_publish` | *violation*: does the script put what the file holds? | 1 valid file, 1 run |
| `history_merge` | what does a history leave out or show twice, and on which scale does it show a token? | 3 transactions of 9 shapes, lists of 2 |
| `swap_prepare` | what can make a prepared swap fail, run out of gas or funds, or yield less than was shown? | one swap by each of six routes, two changes of wallet, price, gas or time |
| `chain_reads` | does a nonce go back, what tears an answer, does a plan keep to its slippage? | each of 14 requests alone, or two that ask for a nonce; 2 Ethereum endpoints and one of BSC, chains of 2 blocks, two orders of the constructors |
| `server` | does the server listen again, which request can end it, was the middleware's verdict ever true? | 2 requests of any kind, 1 device edited twice, 2 outages, 1 death from outside |

What the passing runs show, in words:

* A transaction is announced by two deliveries only if the later request arrived while
  the earlier was undecided, or the SET died with the process. So the check in Redis
  does its work except in that window. It is not an exactly-once guarantee, and the code
  has none.
* One delivery is announced twice only if its SET was lost.
* A silenced delivery is silenced by a real announcement, though that announcement may
  have died on the way to FCM: the key is set whether or not FCM took the notice.
* A key is never set for a delivery that is for somebody else; that is what makes the
  refinement hold. The handler reads only the first transfer of a body.
* An order holds a ramp's answer only after FCM accepted the notice about it for that order's
  own device, even if another order has the same number, and the
  stored status is the one of the stored answer. What was told is stored in an order of that
  device, unless a call failed or the process died in between. A notice never goes to a
  stranger, but for an off-ramp order that has no device. An old answer buries a newer one
  only when the two requests overlapped. An edit made elsewhere is lost only in the
  window between a handler's read and write.
* A bridge request uses an endpoint other than its own only if another bridge request
  replaced the shared `sdk` in its course.
* A transaction of a plan reaches the ledger only after every earlier one of its plan
  was mined and did not revert, whatever was retried, replaced or cut. A request
  answered with receipts carried out its whole plan, though maybe not alone: another
  request may have sent some of it.
* A plan whose first nonce is gone and that no request carries on is never finished.
  The loop always starts at the first transaction, which no node takes any more. After a
  death between approval and swap, the approval stays and the app has to prepare anew.
* The nonces the server hands out leave no gap in front of a pending transaction, unless a
  transaction fell out of the pool. That is also the only reason for a request to
  wait for ever.
* One publishing run cannot tear the environment of a starting container, for a poor
  reason: it ends at its first accepted put. A second put is tried at all only when the first line
  to be counted has an invalid type.
* The history has no hole above the block where the list that was cut off first ends. A
  transaction that spends and receives is shown by what it spends. One token appears on two
  scales only if its metadata failed, are missing or say zero.
* A plan of the Uniswap builder fails only of what changed since prepare read its quote: out
  of gas if the need rose, of a missing transfer if the wallet changed, of the minimum if
  the price moved. It can be paid for to the end unless the wallet spent something after the
  check of line 235. What protects the user is counted from the quote prepare
  reads, not from the one the app showed; a swap that yields less than the slippage leaves of that one
  needs a price that fell between the two, or a BSC quote in the wrong units.
* The swap of a WETH plan is estimated before its wrap is mined, so the plan is only returned for a
  wallet that already holds the WETH: the wrap is always spare.
* The fixed limits of the testnet builder suffice for swaps of up to 400000 gas.
* Requests that follow one another get nonces that never go back, as long as they go to services with
  the same endpoint. Services that drew different ones may well contradict each other; only the
  luck of the rotation at startup decides.
* An answer of `Promise.all` mixes two blocks only if the endpoint learnt one while it was being read.
  That the rotation does not reach into a request is what keeps it so; the token info of
  Ethereum, where each token has its own endpoint, has no such guarantee.
* The minimum of a PancakeSwap plan, computed from a second read of the pair, keeps to the slippage
  of the quote beside it, but for one unit of rounding, unless the price fell between the
  reads or `PANCAKE_SLIPPAGE` is not 10000.
* Once MongoDB and Redis stay up, the server listens and goes on listening: every failure of
  boot or ping ends the process, so ECS sees it. No request but a Moralis webhook can end it.
* The middleware's verdict was true at some time between the request and the answer of
  `findOne`, though the device may be gone when the handler runs.

### Bounds

Two deliveries overlap or follow one another, and each may be repeated after a death; a
property about a pair of deliveries needs no third. That more change nothing is proved: the
theorems of section 5 put no bound on deliveries, orders or deaths. One death separates
"before" and "after" for every history variable: each property is about one loss.
`MaxEdits = 1` gives a document that differs from its snapshot; `Edited` names the order with the
phone, since an edit of the other would show the same. In `alchemy` the order without a
device lets the unguarded lookup match the phone, the tablet or nothing, so a notice can be refused or go
astray; that it has the number of the other lets an answer meet either. Three
endpoints with a blank between exercise `filter(Boolean)` and let an off-by-one show.
`MaxCounter` bounds only callers outside the bridge. Each request of the bridge
runs once, so `counter` is finite. Symmetry is used in `bridge_race` (requests are
interchangeable, and the run checks invariants only), in `ssm_torn` for the starts, and in
`swap_testnet` for plans and requests alike. Two plans are the least that compete for a
nonce; a third request repeats a plan after two others, or carries it on beside them.
One foreign transaction takes, replaces or cancels a nonce; one drop opens a gap.
Three runs of the publisher are two writers and one before them; two parameters are the
least that can be torn. Three transactions and lists of two make a list that is cut off and one
that is not; the shapes have swaps with the spending leg first and second. `swap_prepare` has a
balance that pays for nothing, one that pays for a plan at the low fee and one for any, prices at,
above and below the minimum, and swaps that need less gas than the fallback and more;
`MaxMoves = 2` lets one thing change before prepare and another after it.
`MaxBlocks = 2` gives each chain a block that one endpoint knows and another does not, and a request
a block to learn in its course; `Traffic` pairs only requests that ask for a nonce, since
others do not affect each other; `Turns` has the constructors of three services draw
the same endpoint and different ones. `MaxOutages = 2` takes MongoDB or Redis away during a
boot and again after it; `MaxEdits = 2` removes the device and registers it again while it is looked up. Deadlock is
checked everywhere; `Idle` is the server with nothing to do.

### Fairness

* `MoralisWebhook!FairSpec`: weak fairness of each delivery's handler (Moralis posts
  until acknowledged and the event loop runs what is ready), of Redis's answers,
  and of `Restart` (ECS keeps the task count). No fairness of FCM or of any fault.
* `AlchemyWebhook!FairSpec`: weak fairness of the steps of a
  request that is being worked on; every awaited call settles, by an answer or a
  rejection (`Fails`). Nothing forces a request to come, be retried, or a call to
  succeed.
* `SwapExecution!FairSpec`: weak fairness of `Mine` (what can be mined is mined in the
  end) and of the steps of a request whose calls are answered (`Advance`); not of
  preparing, posting or any fault.
* `Server!FairServerSpec`: weak fairness of `Start` (ECS replaces a task that ended), of `Boot` and `GiveUp`
  (the driver's retries end), of the ping's two outcomes and of the steps of a request that
  has come. Nothing forces a recovery: `ListensAgain` assumes it.

## 4. Findings

* `bridge_token`: the guard of `all-bridge.service.ts:113` can never fire, since
  the destination token is a literal; its message (115) promises that either token is
  checked.
* `ssm_publish`: `((SUCCESS++))` has status 1 at zero, so under `set -e`
  `setssmparameter.sh` ends after its first accepted put; `README.md:146-149` says it
  creates and updates the parameters and shows a summary.

More observations that no run checks, because no order of steps matters
to them:

* `order.schema.ts:50` declares the status an `OrderStatus`, while
  `findByIdAndUpdate` stores the ramp's own word without running validators
  (`Statuses` and `OrderStatus` are separate in `AlchemyWebhook!Document` for this
  reason).
* The code reads `PROVIDER_RPC_ETH_1..5`, while `.env.example:10`, `README.md:116`
  and `ssmvalues.json.example:12` name `PROVIDER_RPC_ETH`. With such an environment `Kept`
  is empty and `Url` is `NoUrl`.
* `transaction-history.service.ts:146` turns metadata of zero decimals into 18 (`||`), where line
  64 keeps the zero (`??`); `SameTokenSameScale` excepts such tokens.
* `.env.example` names no `UNISWAP_SLIPPAGE`. Without it `10000 - slippageBps` of
  `eth.uniswap.service.ts:107` is NaN and every prepare request throws (`Computable`).
* `slippage` of `swapQuote.dto.ts:32` is read by `bsc.pancake.service.ts:140` alone, which no
  controller reaches.
* `.env.example` names no `PANCAKE_SLIPPAGE` either: without it `Percent` takes 1 for its
  denominator, and 1 % becomes 10000 %. `MinimumHonoursSlippage` excepts any value but 10000.
* `PancakeSwapService` is for BSC, and its `ethersProvider` is an Ethereum endpoint of the rotation
  (47). Nonce, owner and recipient of its plans are the address of the token sold, not the wallet
  (154, 182, 200, 215, 249).
* `/health` is the same whatever MongoDB and Redis do. `main.ts` enables no shutdown hooks, so
  `RedisService.onModuleDestroy` is never run.
* Keys in Redis never expire: no caller passes the third argument of `setKey`.
* `provider.service.ts:33`: with no usable URL, `counter % 0` is NaN, and ethers falls back to localhost.
* `EthService.swapRouterContract` is never assigned, so `prepareUsdtSwapTransaction`, the one
  route of `usdt.controller.ts`, throws at line 137 whatever the pool quotes.

## 5. Theorems

All are proved by TLAPS for every value of the constants under the named assumptions of
the modules (payloads have the stated shape, `None` is not a value, `OrderNo` and
`DeviceOf` are functions, `MaxCrashes` and `MaxEdits` are naturals). No bound is put on
the number of deliveries, orders or endpoints, except that the rotation has five names.

**MoralisWebhookProofs.** `TypeCorrect`, `NoDuplicate`, `NoRepeat`, `Accounted` are the
four invariants of `moralis`; `Refinement` is `Spec => Promise`. The
invariants are not inductive by themselves. The strengthening says where the SET of an announced
delivery is: on the connection, in `keys`, or in `lost`; that the connection carries
at most one GET of a request, exactly while it waits for it; that a "nil"
reply still to be acted on implies that every earlier announcement of that hash is
overlapped, queued behind, or lost; and that a key or a SET exists only
for a hash somebody announced. With that, `Notify` preserves the duplicate property
because the reply it acts on was computed when the key was absent.
The refinement follows from the same invariant: `RedisSet` is `Claim`, the
three continuations are `Tell`, nothing, and nothing (`Silence`, `Ignore` and `Fail` happen
at `Respond`, when the acknowledgement makes them final), and a repeated notice is a
stutter.

**AlchemyWebhookProofs.** `TypeCorrect`, `ToldBeforeStored`, `ToldThenStored`, `StatusOfResponse`,
`NewerWins`, `EditsSurvive`, `TellsTheOwner`. The strengthening carries each property
from the collection to the snapshots in flight: a snapshot is a document the order
once was (`Held`), a delivery in "update" has been shown to the device it holds (`Sent`, `Targeted`),
and nothing counts as begun after the end of a request that still works (`AfterEnded`), so what it
buries it overlapped. A request no death
cut off tells one device, and only right before its write (`Once`): that makes the order it
writes the one it told about.

**AllBridgeProofs.** `TypeCorrect`, `RotationBalanced`, `OwnEndpoint`. Balance needs
the closed form of the rotation: slot `s` has been handed out once for each number below
`counter` that is congruent to it, which the proof states with quotient and remainder
and lemmas on their successor. `HandOutInTurn` says that a hand-out takes the slots in turn.

**ChainReadsProofs.** `TypeCorrect`, `NoncesNeverGoBack`, `TornByABlock`, `SlippageHonoured`. A nonce is a monotone
function of the height, because a chain only grows and its nonces never fall (`ChainsGrow`). The
strengthening says that the highest nonce a service has answered is known to its endpoint
(`TopKnown`), so a later read there sees no less (`FloorKnown`, `NonceSeen`), and that the heights a
request has seen at its endpoint are the present one as long as it learnt nothing (`OneHeight`).
`SlippageHonoured` needs that an answered order has read both pairs (`PricesSeen`); the rest is
arithmetic: the minimum divides by `1 + d` where the user meant a factor `1 - s`, with `d` at most `s` since
it is rounded down, and `(1 - s)(1 + d)` is at most 1 (`PercentTakesLess`); the quotient loses less than one
(`SlippageLeaves`), for any price and any slippage.

**SwapExecutionProofs.** `TypeCorrect`, `InOrder`, `TrueAnswers`, `NoOtherGap`,
`NoResumption`: all but the liveness property of the two swap runs. The inductive
invariant follows a plan from the request to the pool to the ledger: a request at
position `k`, a pending transaction of step `k` and a mined one each imply that steps
`1..k-1` succeeded. Success is stable because the ledger only grows (`StaysOk`). For the gaps it adds that all
nonces from the ledger's length up to a plan's first one are used or were dropped.
Every action is first reduced to what it does to plans, to ledger and pool, and
to requests (lemma `Step`), so each part of the invariant has a short case split.

**SwapPrepareProofs.** `TypeCorrect`, `Funded`, `HasCause`, `Gases`, `Spare`, `Shortfall`: all
of `swap_prepare`. The inductive invariant says of every transaction built so far what the builder
found out when it added it, for as long as that very thing has not moved: its limit covers
its gas (`Margin`), its minimum is met (`Worth`), its transfer is allowed and covered, without
the wrap (`Holds`), and what is left of the plan can be paid for (`Funds`). A mined wrap only adds
to what `Holds` says, and costs at most what `Funds` set aside for it, by monotonicity of
products (`Monotone`). `Shortfall` needs that minimum and quotient are monotone
(`MinimumMonotone`, `Quotient`), for any slippage and any units. The assumptions are that
amounts, prices, gas and fees are naturals and the units are not zero.

**TransactionHistoryProofs.** `TypeCorrect`, `CompleteHolds`, `SpendingHolds`, `OnceHolds`, `ScaleHolds`:
all of `history_merge`. The ground is `InOrderSorts`: listing a finite set by how many
elements come before each meets every element once, in order. From it follow what Alchemy's list
leaves out (`IsList`: nothing, unless the list is full and then only what is not newer than its last),
that `FirstOfHash` keeps every hash once, by its first transfer, and that `ByBlock` only permutes, with
blocks descending (`MergedKeeps`), which is all `OnceHolds` needs. The inductive invariant says
that both lists are such lists of the ledger as it was when each was asked for, which later blocks do not disturb, because
blocks only rise (`BlocksRise`); that the map holds what was answered for every token of the merged list
(`KnownOK`); and that the answer is the merged list, patched (`AnswerOK`). `CompleteHolds` then
compares heights: what a full list left out is not above its last entry's block, hence not above
the higher cutoff. `SpendingHolds` needs no order but that sent come before received.
`ScaleHolds` rests on `DecimalsAssumption`: the decimals Alchemy sends with a transfer and those
it gives for the token's contract are the same contract's. `NoneAssumption` says that "no answer yet" is
not a list.

**DeploymentProofs.** Of `SsmParameters`: `TypeCorrect`, `SecondPut`, `TornByTwo`. A run that is still going
has had no put accepted, so an accepted put adds a new writer to every start that
is fetching. While a start has one writer, the store differs in at most one key from
a state it has seen, and what was got agrees with that state or with the store; either way
the next value got keeps it so.
Of `Server`: `ServerTypeCorrect`, `VerdictHolds`, `KilledByMoralis`. The strengthening says of a request in the
middleware that the device has been as it is now (`lookup`) or as it was found (`read`) at some time since
it came in (`LookupOK`), and that only Moralis webhooks have a send or a SET nobody awaits
(`KindsOK`). `KilledByMoralis` is an action property: each action of `ServerNext` that ends a process that is
up is a kill, the rejected ping, or a rejection of such a send or, with Redis away, of such a SET.

A module of proofs is checked with all it extends, so the two lemmas on the endpoints that are set
stand in both `AllBridgeProofs` and `ChainReadsProofs`.

Only model-checked: `EventuallyAnnounced`, the two `EventuallyAnswered` and `ListensAgain` (liveness under
fairness is out of the prover's reach), and the violations.

## 6. Not modelled

DTO decorators (they restrict the constants `Payloads`, `Bodies` and `Traffic`), logging, ABIs and chain
constants. A chain is never reorganised: what `SwapExecution!Mine` put into the ledger, and what an
endpoint of `ChainReads` has shown, stays, as `wait()` with its default of one confirmation takes
for granted. Of PancakeSwap, `broadcastTransaction` (280-298), which is `BscService`'s at another
endpoint, and WBNB given by its own address instead of as native. `delKey` and the TTL branch of
`setKey` have no caller. The users collection has none that keeps state. `fetch-ssm.sh` reads the parameters as
`start.sh` does; `setup.sh` and the workflow only call AWS and docker.

## 7. Plan

1. *Done*: Moralis webhook and its abstract promise; ramp webhooks over orders;
   rotation and bridge; their proofs.
2. *Done*: `SwapExecution`, its runs and its proofs.
3. *Done*: `SwapPrepare`, its run and its proofs. Left: an abstract promise of a swap that
   `SwapPrepare` and `SwapExecution` both implement.
4. *Done*: `TransactionHistory`; `SsmParameters`; their proofs.
5. *Done*: `ChainReads`, its run and its proofs.
6. *Done*: `Server`, which joins boot, ping, middleware and the two notification handlers, and its proofs.
7. *Done*: every safety property of a passing run is a theorem. What could still be added are
   theorems about what no run asks, such as who may write an order.

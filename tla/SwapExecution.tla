--------------------------- MODULE SwapExecution ---------------------------
(***************************************************************************)
(* Swaps of one wallet: transactions are prepared with the wallet's nonce  *)
(* (eth.testnet.service.ts, eth.uniswap.service.ts, bsc.service.ts), signed*)
(* by the app, and posted back to executeSwapTransactions or               *)
(* broadcastTransaction (eth.service.ts, bsc.service.ts), which send one   *)
(* and wait until it is mined before they send the next.                   *)
(*                                                                         *)
(* A plan is what one prepare request answered.  The app may post a plan   *)
(* more than once: a user tries again, or a gateway gave up waiting.  The  *)
(* chain is external: a pool of transactions that are mined in nonce order.*)
(***************************************************************************)
EXTENDS Naturals, Sequences, FiniteSets

CONSTANTS
    Plans,       \* prepare requests
    Requests,    \* execute or broadcast requests
    Kinds,       \* kinds of swap the environment offers
    None,
    MaxOthers,   \* bound on transactions the wallet sends from elsewhere
    MaxDrops,    \* bound on transactions that fall out of the pool
    MaxCrashes   \* bound on process deaths

\* ENVIRONMENT = dev takes the client's calldata; otherwise tokenIn.symbol decides.
TestnetLength == [EthToUsdc |-> 3, UsdcToWeth |-> 2]
UniswapLength == [WETH |-> 2, ETH |-> 1, ERC20 |-> 1]
BscLength == [BNB |-> 1]

Length(k) ==
    CASE k \in DOMAIN TestnetLength -> TestnetLength[k]
      [] k \in DOMAIN UniswapLength -> UniswapLength[k]
      [] OTHER -> BscLength["BNB"]

\* The block tag of getTransactionCount: "latest" by default.
CountsPending(k) == k \in DOMAIN UniswapLength

ASSUME KindsAssumption ==
    Kinds \in {DOMAIN TestnetLength, DOMAIN UniswapLength, DOMAIN BscLength}
ASSUME PlansAssumption == None \notin Plans /\ None \notin Kinds
ASSUME BoundAssumption == MaxOthers \in Nat /\ MaxDrops \in Nat /\ MaxCrashes \in Nat

VARIABLES
    ledger,   \* mined transactions of the wallet; the i-th has nonce i - 1
    pool,     \* its pending transactions
    kind,     \* kind of each plan, None until prepared
    base,     \* its first nonce
    pc,       \* where each request stands
    plan,     \* the plan it executes
    at,       \* the position of its loop
    result,   \* how it ended
    others,   \* transactions sent from elsewhere so far
    dropped,  \* history: nonces of transactions that fell out of the pool
    drops, crashes

chainVars == <<ledger, pool>>
planVars == <<kind, base>>
requestVars == <<pc, plan, at, result>>
boundVars == <<others, dropped, drops, crashes>>
vars == <<chainVars, planVars, requestVars, boundVars>>

\* Mutant: the nonces of a plan begin one too late.
NonceLate(p, k) == base[p] + k
Nonce(p, k) == base[p] + (k - 1)

Tx(p, k) == [plan |-> p, step |-> k, nonce |-> Nonce(p, k)]
OtherTx(n) == [plan |-> None, step |-> 0, nonce |-> n]
Txs == [plan : Plans \cup {None}, step : 0..3, nonce : Nat]

Prepared == {p \in Plans : kind[p] # None}
Active == {r \in Requests : pc[r] \in {"send", "wait"}}
Current(r) == Tx(plan[r], at[r])

TypeOK ==
    /\ ledger \in Seq([tx : Txs, ok : BOOLEAN])
    /\ pool \in SUBSET Txs
    /\ kind \in [Plans -> Kinds \cup {None}]
    /\ base \in [Plans -> Nat]
    /\ pc \in [Requests -> {"idle", "send", "wait", "done"}]
    /\ plan \in [Requests -> Plans \cup {None}]
    /\ at \in [Requests -> 1..3]
    /\ result \in [Requests -> {"none", "ok", "failed", "cut"}]
    /\ \A r \in Active : plan[r] \in Prepared /\ at[r] <= Length(kind[plan[r]])
    /\ others \in 0..MaxOthers
    /\ dropped \in SUBSET Nat
    /\ drops \in 0..MaxDrops
    /\ crashes \in 0..MaxCrashes

Init ==
    /\ ledger = <<>> /\ pool = {}
    /\ kind = [p \in Plans |-> None]
    /\ base = [p \in Plans |-> 0]
    /\ pc = [r \in Requests |-> "idle"]
    /\ plan = [r \in Requests |-> None]
    /\ at = [r \in Requests |-> 1]
    /\ result = [r \in Requests |-> "none"]
    /\ others = 0 /\ dropped = {} /\ drops = 0 /\ crashes = 0

Used(n) == \E t \in pool : t.nonce = n

\* What getTransactionCount(wallet, "pending") may answer: the first nonce that
\* neither the chain nor the pool uses.
NextPending == {n \in Len(ledger)..(Len(ledger) + Cardinality(pool)) :
                    ~Used(n) /\ \A m \in Len(ledger)..(n - 1) : Used(m)}

Mined(t) == t.nonce < Len(ledger) /\ ledger[t.nonce + 1].tx = t
Succeeded(t) == Mined(t) /\ ledger[t.nonce + 1].ok

-----------------------------------------------------------------------------
(* A prepare request reads the nonce and numbers its transactions from it. *)
Prepare(p) ==
    /\ kind[p] = None
    /\ \E k \in Kinds :
        /\ kind' = [kind EXCEPT ![p] = k]
        /\ \E n \in IF CountsPending(k) THEN NextPending ELSE {Len(ledger)} :
              base' = [base EXCEPT ![p] = n]
    /\ UNCHANGED <<chainVars, requestVars, boundVars>>

\* Mutant: a retry takes up where the chain stands.
ExecuteFromNext(r) ==
    /\ pc[r] = "idle"
    /\ \E p \in Prepared :
        /\ plan' = [plan EXCEPT ![r] = p]
        /\ \E k \in 1..Length(kind[p]) :
            /\ \A j \in 1..(k - 1) : Succeeded(Tx(p, j))
            /\ k = Length(kind[p]) \/ ~Succeeded(Tx(p, k))
            /\ at' = [at EXCEPT ![r] = k]
    /\ pc' = [pc EXCEPT ![r] = "send"]
    /\ UNCHANGED <<chainVars, planVars, result, boundVars>>

\* The app posts the signed transactions of a plan, for the first time or again.
Execute(r) ==
    /\ pc[r] = "idle"
    /\ \E p \in Prepared : plan' = [plan EXCEPT ![r] = p]
    /\ pc' = [pc EXCEPT ![r] = "send"]
    /\ UNCHANGED <<chainVars, planVars, at, result, boundVars>>

End(r, how) ==
    /\ pc' = [pc EXCEPT ![r] = "done"]
    /\ result' = [result EXCEPT ![r] = how]
    /\ UNCHANGED <<plan, at>>

\* The loop goes on, or its responses are answered.
Proceed(r) ==
    \/ /\ at[r] < Length(kind[plan[r]])
       /\ at' = [at EXCEPT ![r] = @ + 1]
       /\ pc' = [pc EXCEPT ![r] = "send"]
       /\ UNCHANGED <<plan, result>>
    \/ /\ at[r] = Length(kind[plan[r]])
       /\ End(r, "ok")

\* A node takes a transaction it knows, or one for a nonce not yet mined, in the
\* place of a pending one with the same nonce if its fees are higher.
Enter(t) ==
    /\ t.nonce >= Len(ledger)
    /\ pool' = {u \in pool : u.nonce # t.nonce} \cup {t}
    /\ UNCHANGED ledger

\* Mutant: the receipt is not waited for.
SendAndProceed(r) ==
    /\ pc[r] = "send"
    /\ Enter(Current(r))
    /\ Proceed(r)
    /\ UNCHANGED <<planVars, boundVars>>

(* await this.provider.broadcastTransaction(signedTx)                      *)
SendAccepted(r) ==
    /\ pc[r] = "send"
    /\ Enter(Current(r))
    /\ pc' = [pc EXCEPT ![r] = "wait"]
    /\ UNCHANGED <<planVars, plan, at, result, boundVars>>

\* Nonce too low, already known, underpriced, or no answer: the loop is left.
SendRejected(r) ==
    /\ pc[r] = "send"
    /\ End(r, "failed")
    /\ UNCHANGED <<chainVars, planVars, boundVars>>

\* The node took it, and the call failed all the same.
SendUnanswered(r) ==
    /\ pc[r] = "send"
    /\ Enter(Current(r))
    /\ End(r, "failed")
    /\ UNCHANGED <<planVars, boundVars>>

\* Mutant: the status of the receipt is not looked at.
ReceiptAny(r) ==
    /\ pc[r] = "wait" /\ Mined(Current(r))
    /\ Proceed(r)
    /\ UNCHANGED <<chainVars, planVars, boundVars>>

(* await txResponse.wait(): one confirmation, and no deadline.             *)
Receipt(r) ==
    /\ pc[r] = "wait" /\ Succeeded(Current(r))
    /\ Proceed(r)
    /\ UNCHANGED <<chainVars, planVars, boundVars>>

\* Mutant: a transaction that was replaced is not noticed.
RevertedOnly(r) ==
    /\ pc[r] = "wait"
    /\ Mined(Current(r)) /\ ~Succeeded(Current(r))
    /\ End(r, "failed")
    /\ UNCHANGED <<chainVars, planVars, boundVars>>

\* It was mined and reverted, or another transaction took its nonce: wait rejects.
Reverted(r) ==
    /\ pc[r] = "wait"
    /\ Current(r).nonce < Len(ledger) /\ ~Succeeded(Current(r))
    /\ End(r, "failed")
    /\ UNCHANGED <<chainVars, planVars, boundVars>>

\* The endpoint does not answer, or answers null: "failed or not mined".
WaitFails(r) ==
    /\ pc[r] = "wait"
    /\ End(r, "failed")
    /\ UNCHANGED <<chainVars, planVars, boundVars>>

-----------------------------------------------------------------------------
(* The chain, the wallet's other apps, and the host.                       *)
Mine ==
    /\ \E t \in pool : \E ok \in BOOLEAN :
        /\ t.nonce = Len(ledger)
        /\ ledger' = Append(ledger, [tx |-> t, ok |-> ok])
    /\ pool' = {t \in pool : t.nonce # Len(ledger)}
    /\ UNCHANGED <<planVars, requestVars, boundVars>>

\* A new transaction, or a replacement that speeds up or cancels a pending one.
SendOther ==
    /\ others < MaxOthers
    /\ others' = others + 1
    /\ \E n \in NextPending \cup {t.nonce : t \in pool} : Enter(OtherTx(n))
    /\ UNCHANGED <<planVars, requestVars, dropped, drops, crashes>>

Drop ==
    /\ drops < MaxDrops
    /\ drops' = drops + 1
    /\ \E t \in pool : pool' = pool \ {t} /\ dropped' = dropped \cup {t.nonce}
    /\ UNCHANGED <<ledger, planVars, requestVars, others, crashes>>

\* The process dies: its loops end where they stand.
Kill ==
    /\ crashes < MaxCrashes
    /\ crashes' = crashes + 1
    /\ pc' = [r \in Requests |-> IF r \in Active THEN "done" ELSE pc[r]]
    /\ result' = [r \in Requests |-> IF r \in Active THEN "cut" ELSE result[r]]
    /\ UNCHANGED <<chainVars, planVars, plan, at, others, dropped, drops>>

\* The server has nothing to do.
Idle == Active = {} /\ UNCHANGED vars

\* The steps of a request whose calls are answered.
Advance(r) ==
    \/ SendAccepted(r) \/ SendRejected(r) \/ SendUnanswered(r)
    \/ Receipt(r) \/ Reverted(r)

Next ==
    \/ \E p \in Plans : Prepare(p)
    \/ \E r \in Requests : Execute(r) \/ Advance(r) \/ WaitFails(r)
    \/ Mine \/ SendOther \/ Drop \/ Kill
    \/ Idle

Spec == Init /\ [][Next]_vars

(* RPC calls settle, the event loop runs what is ready, and miners take    *)
(* what can be mined.                                                      *)
FairSpec == Spec /\ WF_vars(Mine) /\ \A r \in Requests : WF_vars(Advance(r))

-----------------------------------------------------------------------------
(* Whatever requests, retries, replacements and deaths do, a transaction of *)
(* a plan is mined only after every earlier one of that plan was mined and  *)
(* did not revert: lines 245-252 wait before the next is sent.              *)
StepsInOrder ==
    \A i \in 1..Len(ledger) : LET t == ledger[i].tx IN
        t.step > 1 => \A k \in 1..(t.step - 1) : Succeeded(Tx(t.plan, k))

(* A request answered with receipts executed its whole plan.                *)
AnswerIsTrue ==
    \A r \in Requests : result[r] = "ok" =>
        \A k \in 1..Length(kind[plan[r]]) : Succeeded(Tx(plan[r], k))

(* A transaction waits in the pool behind a nonce nobody uses only if the   *)
(* one that had it fell out: prepared nonces leave no gap.                  *)
GapNeedsDrop ==
    \A t \in pool : \A n \in Len(ledger)..t.nonce : Used(n) \/ n \in dropped

\* The first nonce of the plan is gone and nobody carries the plan on.
Abandoned(p) ==
    /\ p \in Prepared /\ base[p] < Len(ledger)
    /\ \A t \in pool : t.plan # p
    /\ \A r \in Active : plan[r] = p => pc[r] = "send" /\ at[r] = 1

DoneSteps(p) == {k \in 1..3 : Succeeded(Tx(p, k))}

(* A plan cut short by a death, a failed call or a retry is not finished by *)
(* posting it again: the loop starts over at its first transaction, which   *)
(* no node takes any more.                                                  *)
AbandonedForGood ==
    [][\A p \in Plans : Abandoned(p) => Abandoned(p)' /\ DoneSteps(p)' = DoneSteps(p)]_vars

(* A request is answered unless a transaction fell out of the pool: wait()  *)
(* has no deadline.                                                         *)
EventuallyAnswered ==
    \A r \in Requests : r \in Active ~> r \notin Active \/ dropped # {}
=============================================================================

------------------------ MODULE SwapExecutionProofs ------------------------
(***************************************************************************)
(* Theorems about SwapExecution, for any number of plans and requests: type*)
(* correctness, the order of the steps, the truth of the answers, the      *)
(* absence of nonce gaps, and what becomes of a plan that was cut short.   *)
(*                                                                         *)
(* The strengthening follows a plan from the request to the pool to the    *)
(* ledger: wherever a transaction is, the earlier ones of its plan have    *)
(* succeeded, because the ledger only grows.                               *)
(***************************************************************************)
EXTENDS SwapExecution, SequenceTheorems, TLAPS

Ok(p, k) == Succeeded(Tx(p, k))

RequestsOK ==
    \A r \in Requests :
        /\ pc[r] = "idle" => at[r] = 1 /\ result[r] = "none"
        /\ pc[r] # "idle" => plan[r] \in Prepared
        /\ result[r] = "ok" => pc[r] = "done"

Carried ==
    \A r \in Active : \A p \in Plans :
        plan[r] = p => \A k \in 1..(at[r] - 1) : Ok(p, k)

\* A transaction of a plan has its nonce, and the earlier ones have succeeded.
Follows(t) ==
    /\ t.plan = None => t.step = 0
    /\ \A p \in Plans : t.plan = p =>
        /\ p \in Prepared /\ t.step \in 1..3 /\ t.nonce = Nonce(p, t.step)
        /\ \A k \in 1..(t.step - 1) : Ok(p, k)

Pooled == \A t \in pool : Follows(t)

Ledgered == \A i \in 1..Len(ledger) : Follows(ledger[i].tx)

Answered ==
    \A r \in Requests : \A p \in Plans :
        result[r] = "ok" /\ plan[r] = p => \A k \in 1..Length(kind[p]) : Ok(p, k)

Filled(n) == Used(n) \/ n \in dropped

NoGapBefore ==
    \A p \in Prepared : \A n \in Len(ledger)..(base[p] - 1) : Filled(n)

OrderInv == RequestsOK /\ Carried /\ Pooled /\ Ledgered /\ Answered

IInv == TypeOK /\ OrderInv /\ NoGapBefore /\ GapNeedsDrop

-----------------------------------------------------------------------------
(* Every kind of swap has one, two or three transactions.                  *)
LEMMA LengthType == \A k \in Kinds : Length(k) \in 1..3
  BY KindsAssumption DEF Length, TestnetLength, UniswapLength, BscLength

Grows == ledger' = ledger \/ \E e : ledger' = Append(ledger, e)

(* The ledger is only appended to: what has succeeded stays.               *)
LEMMA StaysOk ==
    ASSUME TypeOK, Grows, NEW p \in Plans, NEW k \in 1..3, base'[p] = base[p], Ok(p, k)
    PROVE  Ok(p, k)'
<1> DEFINE n == base[p] + (k - 1)
<1>1. n \in Nat /\ Len(ledger) \in Nat
  BY DEF TypeOK
<1>2. n < Len(ledger) /\ ledger[n + 1].tx = Tx(p, k) /\ ledger[n + 1].ok
  BY DEF Ok, Succeeded, Mined, Tx, Nonce
<1>3. Tx(p, k)' = Tx(p, k) /\ Tx(p, k).nonce = n
  BY DEF Tx, Nonce
<1>4. n < Len(ledger') /\ ledger'[n + 1] = ledger[n + 1]
  <2>1. CASE ledger' = ledger
    BY <2>1, <1>2
  <2>2. ASSUME NEW e, ledger' = Append(ledger, e) PROVE <1>4!1 /\ <1>4!2
    <3>1. Len(ledger') = Len(ledger) + 1
      BY <2>2, AppendProperties DEF TypeOK
    <3>2. n + 1 \in 1..Len(ledger)
      BY <1>1, <1>2
    <3>3. ledger'[n + 1] = ledger[n + 1]
      BY <2>2, <3>2 DEF TypeOK
    <3> QED
      BY <3>1, <3>3, <1>1, <1>2
  <2> QED
    BY <2>1, <2>2 DEF Grows
<1> QED
  BY <1>2, <1>3, <1>4 DEF Ok, Succeeded, Mined

-----------------------------------------------------------------------------
(* Type correctness.                                                       *)
LEMMA TypeInit == Init => TypeOK
  BY BoundAssumption DEF Init, TypeOK, Active, chainVars

LEMMA NonceTypes ==
    ASSUME TypeOK
    PROVE  /\ Len(ledger) \in Nat
           /\ \A t \in pool : t.nonce \in Nat
           /\ \A p \in Plans : base[p] \in Nat
  BY DEF TypeOK, Txs

LEMMA NextPendingType ==
    ASSUME TypeOK, NEW n \in NextPending
    PROVE  n \in Nat /\ Len(ledger) <= n /\ \A m \in Len(ledger)..(n - 1) : Used(m)
<1>1. Len(ledger) \in Nat
  BY DEF TypeOK
<1>2. n \in Len(ledger)..(Len(ledger) + Cardinality(pool))
        /\ \A m \in Len(ledger)..(n - 1) : Used(m)
  BY DEF NextPending
<1> QED
  BY <1>1, <1>2

LEMMA CurrentType ==
    ASSUME TypeOK, NEW r \in Active
    PROVE  /\ plan[r] \in Plans /\ plan[r] \in Prepared
           /\ kind[plan[r]] \in Kinds /\ at[r] \in 1..3
           /\ Current(r) \in Txs
<1>1. r \in Requests /\ plan[r] \in Prepared /\ at[r] \in 1..3
  BY DEF TypeOK, Active
<1>2. plan[r] \in Plans /\ kind[plan[r]] \in Kinds /\ base[plan[r]] \in Nat
  BY <1>1 DEF TypeOK, Prepared
<1>3. base[plan[r]] + (at[r] - 1) \in Nat
  BY <1>1, <1>2
<1> QED
  BY <1>1, <1>2, <1>3 DEF Current, Tx, Nonce, Txs

LEMMA TypeNext == TypeOK /\ RequestsOK /\ [Next]_vars => TypeOK'
<1> SUFFICES ASSUME TypeOK, RequestsOK, [Next]_vars PROVE TypeOK'
  OBVIOUS
<1> USE PlansAssumption, BoundAssumption
<1>1. ASSUME NEW p \in Plans, Prepare(p) PROVE TypeOK'
  <2>1. PICK k \in Kinds :
          /\ kind' = [kind EXCEPT ![p] = k]
          /\ \E n \in IF CountsPending(k) THEN NextPending ELSE {Len(ledger)} :
                base' = [base EXCEPT ![p] = n]
    BY <1>1 DEF Prepare
  <2>2. PICK n \in Nat : base' = [base EXCEPT ![p] = n]
    <3>1. Len(ledger) \in Nat /\ \A n \in NextPending : n \in Nat
      BY NextPendingType DEF TypeOK
    <3> QED
      BY <2>1, <3>1
  <2>3. \A q \in Prepared : q # p
    BY <1>1 DEF Prepare, Prepared
  <2>4. \A r \in Active' : plan'[r] \in Prepared' /\ at'[r] <= Length(kind'[plan'[r]])
    BY <1>1, <2>1, <2>3 DEF Prepare, TypeOK, Active, Prepared, requestVars
  <2>5. kind' \in [Plans -> Kinds \cup {None}] /\ base' \in [Plans -> Nat]
    BY <2>1, <2>2 DEF TypeOK
  <2> QED
    BY <1>1, <2>4, <2>5 DEF Prepare, TypeOK, chainVars, requestVars, boundVars
<1>2. ASSUME NEW r \in Requests, Execute(r) PROVE TypeOK'
  <2>1. PICK p \in Prepared : plan' = [plan EXCEPT ![r] = p]
    BY <1>2 DEF Execute
  <2>2. p \in Plans /\ kind[p] \in Kinds
    BY DEF Prepared, TypeOK
  <2>3. at[r] = 1
    BY <1>2 DEF Execute, RequestsOK
  <2>4. \A s \in Active' : plan'[s] \in Prepared' /\ at'[s] <= Length(kind'[plan'[s]])
    <3>1. 1 <= Length(kind[p])
      BY <2>2, LengthType
    <3> QED
      BY <1>2, <2>1, <2>3, <3>1 DEF Execute, TypeOK, Active, Prepared, planVars
  <2> QED
    BY <1>2, <2>1, <2>2, <2>4
    DEF Execute, TypeOK, chainVars, planVars, boundVars
<1>3. ASSUME NEW r \in Requests, SendAccepted(r) \/ SendUnanswered(r) PROVE TypeOK'
  <2>1. r \in Active
    BY <1>3 DEF SendAccepted, SendUnanswered, Active
  <2>2. Current(r) \in Txs
    BY <2>1, CurrentType
  <2>3. pool' \in SUBSET Txs
    BY <1>3, <2>2 DEF SendAccepted, SendUnanswered, Enter, TypeOK
  <2>4. \A s \in Active' : s \in Active
    BY <1>3, <2>1 DEF SendAccepted, SendUnanswered, End, Active, TypeOK
  <2> QED
    BY <1>3, <2>3, <2>4
    DEF SendAccepted, SendUnanswered, Enter, End, TypeOK, Prepared, planVars, boundVars
<1>4. ASSUME NEW r \in Requests, SendRejected(r) \/ Reverted(r) \/ WaitFails(r) PROVE TypeOK'
  <2>1. \A s \in Active' : s \in Active
    BY <1>4 DEF SendRejected, Reverted, WaitFails, End, Active, TypeOK
  <2> QED
    BY <1>4, <2>1
    DEF SendRejected, Reverted, WaitFails, End, TypeOK, Prepared, chainVars, planVars, boundVars
<1>5. ASSUME NEW r \in Requests, Receipt(r) PROVE TypeOK'
  <2>1. r \in Active
    BY <1>5 DEF Receipt, Active
  <2>2. kind[plan[r]] \in Kinds /\ at[r] \in 1..3 /\ Length(kind[plan[r]]) \in 1..3
    BY <2>1, CurrentType, LengthType
  <2>3. CASE at[r] < Length(kind[plan[r]]) /\ at' = [at EXCEPT ![r] = @ + 1]
              /\ pc' = [pc EXCEPT ![r] = "send"] /\ UNCHANGED <<plan, result>>
    <3>1. at[r] + 1 \in 1..3 /\ at[r] + 1 <= Length(kind[plan[r]])
      BY <2>2, <2>3
    <3>2. \A s \in Active' : s \in Active
      BY <2>1, <2>3 DEF Active, TypeOK
    <3>3. \A s \in Active' : plan'[s] \in Prepared' /\ at'[s] <= Length(kind'[plan'[s]])
      BY <1>5, <2>3, <3>1, <3>2 DEF Receipt, TypeOK, Active, Prepared, planVars
    <3> QED
      BY <1>5, <2>3, <3>1, <3>3 DEF Receipt, TypeOK, chainVars, planVars, boundVars
  <2>4. CASE End(r, "ok")
    <3>1. \A s \in Active' : s \in Active
      BY <2>4 DEF End, Active, TypeOK
    <3> QED
      BY <1>5, <2>4, <3>1 DEF Receipt, End, TypeOK, Prepared, chainVars, planVars, boundVars
  <2> QED
    BY <1>5, <2>3, <2>4 DEF Receipt, Proceed
<1>6. CASE Mine
  <2>1. PICK t \in pool, ok \in BOOLEAN : ledger' = Append(ledger, [tx |-> t, ok |-> ok])
    BY <1>6 DEF Mine
  <2>2. [tx |-> t, ok |-> ok] \in [tx : Txs, ok : BOOLEAN]
    BY DEF TypeOK
  <2>3. ledger' \in Seq([tx : Txs, ok : BOOLEAN])
    BY <2>1, <2>2, AppendProperties DEF TypeOK
  <2> QED
    BY <1>6, <2>3 DEF Mine, TypeOK, Active, Prepared, planVars, requestVars, boundVars
<1>7. CASE SendOther
  <2>1. PICK n \in NextPending \cup {t.nonce : t \in pool} : Enter(OtherTx(n))
    BY <1>7 DEF SendOther
  <2>2. n \in Nat
    BY <2>1, NextPendingType DEF TypeOK, Txs
  <2>3. OtherTx(n) \in Txs
    BY <2>2 DEF OtherTx, Txs
  <2>4. pool' \in SUBSET Txs /\ ledger' = ledger
    BY <2>1, <2>3 DEF Enter, TypeOK
  <2>5. others' \in 0..MaxOthers
    BY <1>7 DEF SendOther, TypeOK
  <2> QED
    BY <1>7, <2>4, <2>5 DEF SendOther, TypeOK, Active, Prepared, planVars, requestVars
<1>8. CASE Drop
  <2>1. PICK t \in pool : pool' = pool \ {t} /\ dropped' = dropped \cup {t.nonce}
    BY <1>8 DEF Drop
  <2>2. t.nonce \in Nat
    BY DEF TypeOK, Txs
  <2>3. pool' \in SUBSET Txs /\ dropped' \in SUBSET Nat
    BY <2>1, <2>2 DEF TypeOK
  <2>4. drops' \in 0..MaxDrops
    BY <1>8 DEF Drop, TypeOK
  <2> QED
    BY <1>8, <2>3, <2>4 DEF Drop, TypeOK, Active, Prepared, planVars, requestVars
<1>9. CASE Kill
  <2>1. Active' = {}
    BY <1>9 DEF Kill, Active, TypeOK
  <2> QED
    BY <1>9, <2>1 DEF Kill, TypeOK, chainVars, planVars
<1>10. CASE UNCHANGED vars
  BY <1>10
  DEF TypeOK, Active, Prepared, vars, chainVars, planVars, requestVars, boundVars
<1> QED
  BY <1>1, <1>2, <1>3, <1>4, <1>5, <1>6, <1>7, <1>8, <1>9, <1>10 DEF Next, Advance, Idle

-----------------------------------------------------------------------------
(* What a step can do, seen from a plan, the ledger, the pool, a request.  *)
PlansStay ==
    \A p \in Prepared : p \in Prepared' /\ base'[p] = base[p] /\ kind'[p] = kind[p]

MinesOne ==
    \/ ledger' = ledger
    \/ \E t \in pool, ok \in BOOLEAN :
          t.nonce = Len(ledger) /\ ledger' = Append(ledger, [tx |-> t, ok |-> ok])

Enters(t) == t.nonce >= Len(ledger) /\ ledger' = ledger

PoolStep ==
    \A t \in pool' :
        \/ t \in pool
        \/ \E r \in Active : t = Current(r) /\ pc[r] = "send" /\ Enters(t)
        \/ t.plan = None /\ t.step = 0

RequestStep ==
    \A r \in Active' :
        \/ /\ r \in Active /\ plan'[r] = plan[r] /\ at'[r] = at[r]
           /\ pc'[r] = pc[r] \/ (pc[r] = "send" /\ Enters(Current(r)))
        \/ at'[r] = 1 /\ pc'[r] = "send"
        \/ /\ r \in Active /\ plan'[r] = plan[r] /\ at'[r] = at[r] + 1
           /\ pc[r] = "wait" /\ Succeeded(Current(r))

AnswerStep ==
    \A r \in Requests : result'[r] = "ok" =>
        \/ result[r] = "ok" /\ plan'[r] = plan[r]
        \/ /\ r \in Active /\ plan'[r] = plan[r]
           /\ at[r] = Length(kind[plan[r]]) /\ Succeeded(Current(r))

LEMMA Step ==
    ASSUME TypeOK, RequestsOK, [Next]_vars
    PROVE  PlansStay /\ MinesOne /\ PoolStep /\ RequestStep /\ AnswerStep
<1> USE PlansAssumption
<1>1. ASSUME NEW p \in Plans, Prepare(p)
      PROVE  PlansStay /\ MinesOne /\ PoolStep /\ RequestStep /\ AnswerStep
  <2>1. PICK k \in Kinds : kind' = [kind EXCEPT ![p] = k]
    BY <1>1 DEF Prepare
  <2>2. PICK n : base' = [base EXCEPT ![p] = n]
    BY <1>1 DEF Prepare
  <2>3. PlansStay
    BY <1>1, <2>1, <2>2 DEF Prepare, PlansStay, Prepared, TypeOK
  <2> QED
    BY <1>1, <2>3
    DEF Prepare, MinesOne, PoolStep, RequestStep, AnswerStep, Active, chainVars, requestVars
<1>2. ASSUME NEW r \in Requests, Execute(r)
      PROVE  PlansStay /\ MinesOne /\ PoolStep /\ RequestStep /\ AnswerStep
  <2>1. PICK p \in Prepared : plan' = [plan EXCEPT ![r] = p]
    BY <1>2 DEF Execute
  <2>2. RequestStep
    BY <1>2, <2>1 DEF Execute, RequestStep, RequestsOK, Active, TypeOK
  <2>3. AnswerStep
    BY <1>2, <2>1 DEF Execute, AnswerStep, RequestsOK, TypeOK
  <2> QED
    BY <1>2, <2>2, <2>3 DEF Execute, PlansStay, MinesOne, PoolStep, Prepared, chainVars, planVars
<1>3. ASSUME NEW r \in Requests, SendAccepted(r) \/ SendUnanswered(r)
      PROVE  PlansStay /\ MinesOne /\ PoolStep /\ RequestStep /\ AnswerStep
  <2>1. r \in Active /\ pc[r] = "send" /\ Enter(Current(r))
    BY <1>3 DEF SendAccepted, SendUnanswered, Active
  <2>2. PoolStep
    BY <2>1 DEF PoolStep, Enter, Enters
  <2>3. RequestStep /\ AnswerStep
    BY <1>3, <2>1
    DEF SendAccepted, SendUnanswered, End, Enter, Enters, RequestStep, AnswerStep, Active, TypeOK
  <2> QED
    BY <1>3, <2>1, <2>2, <2>3
    DEF SendAccepted, SendUnanswered, Enter, PlansStay, MinesOne, Prepared, planVars
<1>4. ASSUME NEW r \in Requests, SendRejected(r) \/ Reverted(r) \/ WaitFails(r)
      PROVE  PlansStay /\ MinesOne /\ PoolStep /\ RequestStep /\ AnswerStep
  <2>1. RequestStep /\ AnswerStep
    BY <1>4
    DEF SendRejected, Reverted, WaitFails, End, RequestStep, AnswerStep, Active, TypeOK
  <2> QED
    BY <1>4, <2>1
    DEF SendRejected, Reverted, WaitFails, PlansStay, MinesOne, PoolStep, Prepared, chainVars,
        planVars
<1>5. ASSUME NEW r \in Requests, Receipt(r)
      PROVE  PlansStay /\ MinesOne /\ PoolStep /\ RequestStep /\ AnswerStep
  <2>1. r \in Active /\ pc[r] = "wait" /\ Succeeded(Current(r)) /\ at[r] \in 1..3
    BY <1>5 DEF Receipt, Active, TypeOK
  <2>2. RequestStep
    BY <1>5, <2>1 DEF Receipt, Proceed, End, RequestStep, Active, TypeOK
  <2>3. AnswerStep
    BY <1>5, <2>1 DEF Receipt, Proceed, End, AnswerStep, TypeOK
  <2> QED
    BY <1>5, <2>2, <2>3
    DEF Receipt, PlansStay, MinesOne, PoolStep, Prepared, chainVars, planVars
<1>6. CASE Mine
  BY <1>6
  DEF Mine, PlansStay, MinesOne, PoolStep, RequestStep, AnswerStep, Prepared, Active, planVars,
      requestVars
<1>7. CASE SendOther
  <2>1. PICK n : Enter(OtherTx(n))
    BY <1>7 DEF SendOther
  <2>2. PoolStep
    BY <2>1 DEF PoolStep, Enter, OtherTx
  <2> QED
    BY <1>7, <2>1, <2>2
    DEF SendOther, Enter, PlansStay, MinesOne, RequestStep, AnswerStep, Prepared, Active,
        planVars, requestVars
<1>8. CASE Drop
  BY <1>8
  DEF Drop, PlansStay, MinesOne, PoolStep, RequestStep, AnswerStep, Prepared, Active, planVars,
      requestVars
<1>9. CASE Kill
  <2>1. Active' = {} /\ AnswerStep
    BY <1>9 DEF Kill, Active, AnswerStep, TypeOK
  <2> QED
    BY <1>9, <2>1
    DEF Kill, PlansStay, MinesOne, PoolStep, RequestStep, Prepared, chainVars, planVars
<1>10. CASE UNCHANGED vars
  BY <1>10
  DEF PlansStay, MinesOne, PoolStep, RequestStep, AnswerStep, Prepared, Active, vars,
      chainVars, planVars, requestVars
<1> QED
  BY <1>1, <1>2, <1>3, <1>4, <1>5, <1>6, <1>7, <1>8, <1>9, <1>10 DEF Next, Advance, Idle

-----------------------------------------------------------------------------
(* The order of the steps, conjunct by conjunct.                           *)
LEMMA OkStays ==
    ASSUME TypeOK, PlansStay, MinesOne, NEW p \in Prepared, NEW k \in 1..3, Ok(p, k)
    PROVE  Ok(p, k)'
<1>1. p \in Plans /\ base'[p] = base[p]
  BY DEF Prepared, PlansStay
<1>2. Grows
  BY DEF MinesOne, Grows
<1> QED
  BY <1>1, <1>2, StaysOk

LEMMA CurrentOk ==
    ASSUME NEW r \in Active, NEW p, plan[r] = p, Succeeded(Current(r))
    PROVE  Ok(p, at[r])
  BY DEF Ok, Current

LEMMA RequestsNext ==
    ASSUME TypeOK, RequestsOK, [Next]_vars
    PROVE  RequestsOK'
<1>0. PlansStay
  BY Step
<1>1. ASSUME NEW r \in Requests, Execute(r) PROVE RequestsOK'
  <2>1. PICK p \in Prepared : plan' = [plan EXCEPT ![r] = p]
    BY <1>1 DEF Execute
  <2> QED
    BY <1>0, <1>1, <2>1 DEF Execute, RequestsOK, PlansStay, TypeOK
<1>2. ASSUME NEW r \in Requests, Advance(r) \/ WaitFails(r) PROVE RequestsOK'
  <2>1. pc[r] \in {"send", "wait"} /\ pc'[r] # "idle" /\ plan' = plan
        /\ \A s \in Requests \ {r} : pc'[s] = pc[s] /\ at'[s] = at[s] /\ result'[s] = result[s]
    BY <1>2
    DEF Advance, SendAccepted, SendRejected, SendUnanswered, Receipt, Reverted, WaitFails,
        Proceed, End, TypeOK
  <2>2. result'[r] = "ok" => pc'[r] = "done"
    BY <1>2
    DEF Advance, SendAccepted, SendRejected, SendUnanswered, Receipt, Reverted, WaitFails,
        Proceed, End, TypeOK, RequestsOK
  <2> QED
    BY <1>0, <2>1, <2>2 DEF RequestsOK, PlansStay
<1>3. CASE Kill
  BY <1>0, <1>3 DEF Kill, RequestsOK, PlansStay, Active, TypeOK
<1>4. CASE UNCHANGED requestVars
  BY <1>0, <1>4 DEF requestVars, RequestsOK, PlansStay
<1> QED
  BY <1>1, <1>2, <1>3, <1>4
  DEF Next, Prepare, Mine, SendOther, Drop, Idle, vars

LEMMA CarriedNext ==
    ASSUME TypeOK, TypeOK', RequestsOK, Carried, [Next]_vars
    PROVE  Carried'
<1>1. PlansStay /\ MinesOne /\ RequestStep
  BY Step
<1> SUFFICES ASSUME NEW r \in Active', NEW p \in Plans, plan'[r] = p,
                    NEW k \in 1..(at'[r] - 1)
             PROVE  Ok(p, k)'
  BY DEF Carried
<1>2. r \in Requests /\ at'[r] \in 1..3 /\ k \in 1..3
  BY DEF Active, TypeOK
<1>3. at'[r] # 1
  BY <1>2
<1>4. r \in Active /\ plan[r] = p
  BY <1>1, <1>3 DEF RequestStep
<1>5. p \in Prepared /\ at[r] \in 1..3
  BY <1>4, CurrentType
<1>6. Ok(p, k)
  <2>1. CASE at'[r] = at[r]
    BY <1>4, <2>1 DEF Carried
  <2>2. CASE at'[r] = at[r] + 1 /\ Succeeded(Current(r))
    <3>1. k = at[r] \/ k \in 1..(at[r] - 1)
      BY <1>5, <2>2
    <3>2. Ok(p, at[r])
      BY <1>4, <2>2, CurrentOk
    <3> QED
      BY <1>4, <3>1, <3>2 DEF Carried
  <2> QED
    BY <1>1, <1>3, <2>1, <2>2 DEF RequestStep
<1> QED
  BY <1>1, <1>2, <1>5, <1>6, OkStays

LEMMA FollowsStays ==
    ASSUME TypeOK, PlansStay, MinesOne, NEW t, Follows(t)
    PROVE  Follows(t)'
<1> SUFFICES ASSUME NEW p \in Plans, t.plan = p
             PROVE  /\ p \in Prepared' /\ t.nonce = Nonce(p, t.step)'
                    /\ \A k \in 1..(t.step - 1) : Ok(p, k)'
  BY DEF Follows
<1>1. p \in Prepared /\ t.step \in 1..3 /\ t.nonce = Nonce(p, t.step)
        /\ \A k \in 1..(t.step - 1) : Ok(p, k)
  BY DEF Follows
<1>2. p \in Prepared' /\ base'[p] = base[p]
  BY <1>1 DEF PlansStay
<1>3. \A k \in 1..(t.step - 1) : k \in 1..3
  BY <1>1
<1>4. \A k \in 1..(t.step - 1) : Ok(p, k)'
  BY <1>1, <1>3, OkStays
<1> QED
  BY <1>1, <1>2, <1>4 DEF Nonce

LEMMA CurrentFollows ==
    ASSUME TypeOK, Carried, NEW r \in Active
    PROVE  Follows(Current(r))
<1>1. plan[r] \in Plans /\ plan[r] \in Prepared /\ at[r] \in 1..3
  BY CurrentType
<1>2. Current(r) = [plan |-> plan[r], step |-> at[r], nonce |-> Nonce(plan[r], at[r])]
  BY DEF Current, Tx
<1>3. plan[r] # None
  BY <1>1, PlansAssumption
<1>4. \A k \in 1..(at[r] - 1) : Ok(plan[r], k)
  BY <1>1 DEF Carried
<1> QED
  BY <1>1, <1>2, <1>3, <1>4 DEF Follows

LEMMA PooledNext ==
    ASSUME TypeOK, RequestsOK, Carried, Pooled, [Next]_vars
    PROVE  Pooled'
<1>1. PlansStay /\ MinesOne /\ PoolStep
  BY Step
<1>2. \A t \in pool : Follows(t)
  BY DEF Pooled
<1>3. ASSUME NEW t \in pool' PROVE Follows(t)'
  <2>1. CASE t \in pool
    BY <1>1, <1>2, <2>1, FollowsStays
  <2>2. CASE \E r \in Active : t = Current(r)
    <3>1. Follows(t)
      BY <2>2, CurrentFollows
    <3> QED
      BY <1>1, <3>1, FollowsStays
  <2>3. CASE t.plan = None /\ t.step = 0
    BY <2>3, PlansAssumption DEF Follows
  <2> QED
    BY <1>1, <2>1, <2>2, <2>3 DEF PoolStep
<1> QED
  BY <1>3 DEF Pooled

LEMMA LedgeredNext ==
    ASSUME TypeOK, RequestsOK, Pooled, Ledgered, [Next]_vars
    PROVE  Ledgered'
<1>1. PlansStay /\ MinesOne
  BY Step
<1> SUFFICES ASSUME NEW i \in 1..Len(ledger'), NEW t, t = ledger'[i].tx
             PROVE  Follows(t)'
  BY DEF Ledgered
<1>2. CASE ledger' = ledger
  BY <1>1, <1>2, FollowsStays DEF Ledgered
<1>3. ASSUME NEW u \in pool, NEW ok \in BOOLEAN,
             ledger' = Append(ledger, [tx |-> u, ok |-> ok])
      PROVE  Follows(t)'
  <2>1. /\ Len(ledger') = Len(ledger) + 1
        /\ \A j \in 1..Len(ledger) : ledger'[j] = ledger[j]
        /\ ledger'[Len(ledger) + 1] = [tx |-> u, ok |-> ok]
    <3>1. [tx |-> u, ok |-> ok] \in [tx : Txs, ok : BOOLEAN]
      BY DEF TypeOK
    <3> QED
      BY <1>3, <3>1, AppendProperties DEF TypeOK
  <2>2. i \in 1..Len(ledger) \/ i = Len(ledger) + 1
    BY <2>1, NonceTypes
  <2>3. Follows(t)
    BY <2>1, <2>2 DEF Pooled, Ledgered
  <2> QED
    BY <1>1, <2>3, FollowsStays
<1> QED
  BY <1>1, <1>2, <1>3 DEF MinesOne

LEMMA AnsweredNext ==
    ASSUME TypeOK, RequestsOK, Carried, Answered, [Next]_vars
    PROVE  Answered'
<1>1. PlansStay /\ MinesOne /\ AnswerStep
  BY Step
<1> SUFFICES ASSUME NEW r \in Requests, NEW p \in Plans, result'[r] = "ok", plan'[r] = p,
                    NEW k \in 1..Length(kind'[p])
             PROVE  Ok(p, k)'
  BY DEF Answered
<1>2. plan[r] = p /\ pc[r] # "idle"
  BY <1>1 DEF AnswerStep, RequestsOK, Active
<1>3. p \in Prepared /\ kind'[p] = kind[p]
  BY <1>1, <1>2 DEF RequestsOK, PlansStay
<1>4. Length(kind[p]) \in 1..3
  BY <1>3, LengthType DEF Prepared, TypeOK
<1>5. Ok(p, k)
  <2>1. CASE result[r] = "ok"
    BY <1>2, <1>3, <2>1 DEF Answered
  <2>2. CASE r \in Active /\ at[r] = Length(kind[plan[r]]) /\ Succeeded(Current(r))
    <3>1. k = at[r] \/ k \in 1..(at[r] - 1)
      BY <1>2, <1>3, <1>4, <2>2
    <3>2. Ok(p, at[r])
      BY <1>2, <2>2, CurrentOk
    <3> QED
      BY <1>2, <2>2, <3>1, <3>2 DEF Carried
  <2> QED
    BY <1>1, <2>1, <2>2 DEF AnswerStep
<1> QED
  BY <1>1, <1>3, <1>4, <1>5, OkStays

-----------------------------------------------------------------------------
(* Nonces: what is filled stays filled until it is mined.                  *)
LEMMA MineLength ==
    ASSUME TypeOK, Mine
    PROVE  Len(ledger') = Len(ledger) + 1
<1>1. PICK t \in pool, ok \in BOOLEAN : ledger' = Append(ledger, [tx |-> t, ok |-> ok])
  BY DEF Mine
<1>2. [tx |-> t, ok |-> ok] \in [tx : Txs, ok : BOOLEAN]
  BY DEF TypeOK
<1> QED
  BY <1>1, <1>2, AppendProperties DEF TypeOK

LEMMA FilledStays ==
    ASSUME TypeOK, [Next]_vars
    PROVE  /\ Len(ledger') \in Nat /\ Len(ledger) <= Len(ledger')
           /\ \A n : Filled(n) /\ n # Len(ledger) => Filled(n)'
           /\ ledger' = ledger => \A n : Filled(n) => Filled(n)'
<1>1. ASSUME NEW t, Enter(t), UNCHANGED dropped
      PROVE  ledger' = ledger /\ \A n : Filled(n) => Filled(n)'
  BY <1>1 DEF Enter, Filled, Used
<1>2. Len(ledger) \in Nat
  BY NonceTypes
<1>3. ASSUME NEW r \in Requests, SendAccepted(r) \/ SendUnanswered(r)
      PROVE  ledger' = ledger /\ \A n : Filled(n) => Filled(n)'
  BY <1>1, <1>3 DEF SendAccepted, SendUnanswered, boundVars
<1>4. CASE SendOther
  BY <1>1, <1>2, <1>4 DEF SendOther
<1>5. CASE Drop
  <2>1. ledger' = ledger /\ \A n : Filled(n) => Filled(n)'
    BY <1>5 DEF Drop, Filled, Used
  <2> QED
    BY <1>2, <2>1
<1>6. CASE Mine
  <2>3. Len(ledger') = Len(ledger) + 1
    BY <1>6, MineLength
  <2>4. \A n : Filled(n) /\ n # Len(ledger) => Filled(n)'
    BY <1>6 DEF Mine, Filled, Used, boundVars
  <2>5. ledger' # ledger
    BY <1>2, <2>3
  <2> QED
    BY <1>2, <2>3, <2>4, <2>5
<1>7. CASE UNCHANGED <<ledger, pool, dropped>>
  BY <1>2, <1>7 DEF Filled, Used
<1> QED
  BY <1>2, <1>3, <1>4, <1>5, <1>6, <1>7
  DEF Next, Prepare, Execute, Advance, SendRejected, Receipt, Reverted, WaitFails, Kill, Idle,
      vars, chainVars, boundVars

LEMMA NoGapNext ==
    ASSUME TypeOK, RequestsOK, NoGapBefore, [Next]_vars
    PROVE  NoGapBefore'
<1>1. PlansStay
  BY Step
<1> SUFFICES ASSUME NEW p \in Prepared', NEW n \in Len(ledger')..(base'[p] - 1)
             PROVE  Filled(n)'
  BY DEF NoGapBefore
<1>2. p \in Plans /\ Len(ledger) \in Nat
  BY NonceTypes DEF Prepared
<1>3. CASE p \in Prepared
  <2>1. base'[p] = base[p] /\ base[p] \in Nat
    BY <1>1, <1>2, <1>3, NonceTypes DEF PlansStay
  <2>2. n \in Len(ledger)..(base[p] - 1)
    BY <1>2, <2>1, FilledStays
  <2>3. Filled(n)
    BY <1>3, <2>2 DEF NoGapBefore
  <2>4. n # Len(ledger) \/ ledger' = ledger
    <3>1. CASE Mine
      BY <1>2, <3>1, MineLength
    <3>2. CASE ~Mine
      BY <3>2
      DEF Next, Prepare, Execute, Advance, SendAccepted, SendUnanswered, SendRejected, Enter,
          Receipt, Reverted, WaitFails, SendOther, Drop, Kill, Idle, vars, chainVars
    <3> QED
      BY <3>1, <3>2
  <2> QED
    BY <2>3, <2>4, FilledStays
<1>4. CASE p \notin Prepared
  <2>1. Prepare(p)
    <3>1. kind'[p] # kind[p]
      BY <1>2, <1>4 DEF Prepared
    <3>2. PICK q \in Plans : Prepare(q)
      BY <3>1
      DEF Next, Execute, Advance, SendAccepted, SendUnanswered, SendRejected, Receipt,
          Reverted, WaitFails, Mine, SendOther, Drop, Kill, Idle, vars, planVars
    <3>3. kind' = [kind EXCEPT ![q] = kind'[q]]
      BY <3>2 DEF Prepare, TypeOK
    <3>4. q = p
      BY <1>2, <3>1, <3>3 DEF TypeOK
    <3> QED
      BY <3>2, <3>4
  <2>2. PICK k \in Kinds :
          \E m \in IF CountsPending(k) THEN NextPending ELSE {Len(ledger)} :
              base' = [base EXCEPT ![p] = m]
    BY <2>1 DEF Prepare
  <2>3. PICK m \in NextPending \cup {Len(ledger)} : base' = [base EXCEPT ![p] = m]
    BY <2>2
  <2>4. base'[p] = m
    BY <1>2, <2>3 DEF TypeOK
  <2>5. ledger' = ledger /\ pool' = pool
    BY <2>1 DEF Prepare, chainVars
  <2>6. m \in NextPending
    BY <1>2, <2>3, <2>4, <2>5
  <2>7. m \in Nat /\ \A i \in Len(ledger)..(m - 1) : Used(i)
    BY <2>6, NextPendingType
  <2> QED
    BY <2>4, <2>5, <2>7 DEF Filled, Used
<1> QED
  BY <1>3, <1>4

LEMMA GapNext ==
    ASSUME TypeOK, RequestsOK, Carried, NoGapBefore, GapNeedsDrop, [Next]_vars
    PROVE  GapNeedsDrop'
<1>1. Len(ledger) \in Nat /\ Len(ledger') \in Nat /\ Len(ledger) <= Len(ledger')
  BY NonceTypes, FilledStays
<1> SUFFICES ASSUME NEW t \in pool', NEW n \in Len(ledger')..t.nonce
             PROVE  Filled(n)'
  BY DEF GapNeedsDrop, Filled
<1>2. CASE t \in pool /\ (n # Len(ledger) \/ ledger' = ledger)
  <2>1. n \in Len(ledger)..t.nonce
    BY <1>1, <1>2, NonceTypes
  <2> QED
    BY <1>2, <2>1, FilledStays DEF GapNeedsDrop, Filled
<1>3. ASSUME NEW u, Enter(u), t = u, \A m \in Len(ledger)..(u.nonce - 1) : Filled(m),
             u.nonce \in Nat
      PROVE  Filled(n)'
  <2>1. CASE n = u.nonce
    BY <1>3, <2>1 DEF Filled, Used
  <2>2. CASE n # u.nonce
    <3>1. ledger' = ledger
      BY <1>3 DEF Enter
    <3>2. n \in Len(ledger)..(u.nonce - 1)
      BY <1>1, <1>3, <2>2, <3>1
    <3> QED
      BY <1>3, <3>1, <3>2, FilledStays
  <2> QED
    BY <2>1, <2>2
<1>4. ASSUME NEW r \in Requests, SendAccepted(r) \/ SendUnanswered(r) PROVE Filled(n)'
  <2>1. r \in Active /\ Enter(Current(r))
    BY <1>4 DEF SendAccepted, SendUnanswered, Active
  <2>2. plan[r] \in Plans /\ plan[r] \in Prepared /\ at[r] \in 1..3
    BY <2>1, CurrentType
  <2>3. Current(r).nonce = base[plan[r]] + (at[r] - 1) /\ base[plan[r]] \in Nat
    BY <2>2, NonceTypes DEF Current, Tx, Nonce
  <2>4. ASSUME NEW m \in Len(ledger)..(Current(r).nonce - 1) PROVE Filled(m)
    <3>1. CASE at[r] = 1
      BY <2>2, <2>3, <3>1 DEF NoGapBefore
    <3>2. CASE at[r] # 1
      <4>1. at[r] - 1 \in 1..(at[r] - 1)
        BY <2>2, <3>2
      <4>2. Ok(plan[r], at[r] - 1)
        BY <2>1, <2>2, <4>1 DEF Carried
      <4>3. base[plan[r]] + ((at[r] - 1) - 1) < Len(ledger)
        BY <4>2 DEF Ok, Succeeded, Mined, Tx, Nonce
      <4> QED
        BY <1>1, <2>2, <2>3, <4>3
    <3> QED
      BY <3>1, <3>2
  <2>5. ledger' = ledger /\ (t \in pool \/ t = Current(r))
    BY <2>1 DEF Enter
  <2>6. Current(r).nonce \in Nat
    BY <2>2, <2>3
  <2> QED
    BY <1>2, <1>3, <2>1, <2>4, <2>5, <2>6
<1>5. CASE SendOther
  <2>1. PICK i \in NextPending \cup {u.nonce : u \in pool} : Enter(OtherTx(i))
    BY <1>5 DEF SendOther
  <2>2. i \in Nat /\ \A m \in Len(ledger)..(i - 1) : Filled(m)
    <3>1. CASE i \in NextPending
      BY <3>1, NextPendingType DEF Filled
    <3>2. CASE \E u \in pool : i = u.nonce
      BY <1>1, <3>2, NonceTypes DEF GapNeedsDrop, Filled
    <3> QED
      BY <2>1, <3>1, <3>2
  <2>3. OtherTx(i).nonce = i
    BY DEF OtherTx
  <2>4. ledger' = ledger /\ (t \in pool \/ t = OtherTx(i))
    BY <2>1 DEF Enter
  <2> QED
    BY <1>2, <1>3, <2>1, <2>2, <2>3, <2>4
<1>6. CASE Mine
  <2>1. Len(ledger') = Len(ledger) + 1
    BY <1>6, MineLength
  <2>2. t \in pool /\ n # Len(ledger)
    BY <1>1, <1>6, <2>1 DEF Mine
  <2> QED
    BY <1>2, <2>2
<1>7. CASE Drop
  BY <1>2, <1>7 DEF Drop
<1>8. CASE UNCHANGED <<ledger, pool>>
  BY <1>2, <1>8
<1> QED
  BY <1>4, <1>5, <1>6, <1>7, <1>8
  DEF Next, Prepare, Execute, Advance, SendRejected, Receipt, Reverted, WaitFails, Kill, Idle,
      vars, chainVars

-----------------------------------------------------------------------------
LEMMA InvInit == Init => IInv
<1> SUFFICES ASSUME Init PROVE IInv
  OBVIOUS
<1>1. TypeOK
  BY TypeInit
<1>2. Active = {} /\ Prepared = {} /\ pool = {} /\ Len(ledger) = 0
  BY DEF Init, Active, Prepared
<1>3. OrderInv
  BY <1>2 DEF Init, OrderInv, RequestsOK, Carried, Pooled, Ledgered, Answered
<1> QED
  BY <1>1, <1>2, <1>3 DEF IInv, NoGapBefore, GapNeedsDrop

LEMMA InvNext == IInv /\ [Next]_vars => IInv'
<1> SUFFICES ASSUME IInv, [Next]_vars PROVE IInv'
  OBVIOUS
<1> USE DEF IInv, OrderInv
<1>1. TypeOK'
  BY TypeNext
<1>2. RequestsOK' /\ Carried' /\ Pooled' /\ Ledgered' /\ Answered'
  BY <1>1, RequestsNext, CarriedNext, PooledNext, LedgeredNext, AnsweredNext
<1> QED
  BY <1>1, <1>2, NoGapNext, GapNext

(* The inductive invariant holds in every behaviour.                       *)
THEOREM Invariant == Spec => []IInv
  BY InvInit, InvNext, PTL DEF Spec

(* Type correctness of the requests, the pool and the ledger.              *)
THEOREM TypeCorrect == Spec => []TypeOK
<1>1. IInv => TypeOK
  BY DEF IInv
<1> QED
  BY Invariant, <1>1, PTL

(* A transaction is mined only after all earlier ones of its plan succeeded.*)
THEOREM InOrder == Spec => []StepsInOrder
<1>1. IInv => StepsInOrder
  <2> SUFFICES ASSUME IInv, NEW i \in 1..Len(ledger), ledger[i].tx.step > 1,
                      NEW k \in 1..(ledger[i].tx.step - 1)
               PROVE  Ok(ledger[i].tx.plan, k)
    BY DEF StepsInOrder, Ok
  <2>1. ledger[i].tx \in Txs
    <3>1. ledger[i] \in [tx : Txs, ok : BOOLEAN]
      BY ElementOfSeq DEF IInv, TypeOK
    <3> QED
      BY <3>1
  <2>2. Follows(ledger[i].tx)
    BY DEF IInv, OrderInv, Ledgered
  <2>3. ledger[i].tx.plan \in Plans
    BY <2>1, <2>2 DEF Follows, Txs
  <2> QED
    BY <2>2, <2>3 DEF Follows
<1> QED
  BY Invariant, <1>1, PTL

(* An answer with receipts is an executed plan.                            *)
THEOREM TrueAnswers == Spec => []AnswerIsTrue
<1>1. IInv => AnswerIsTrue
  <2> SUFFICES ASSUME IInv, NEW r \in Requests, result[r] = "ok",
                      NEW k \in 1..Length(kind[plan[r]])
               PROVE  Ok(plan[r], k)
    BY DEF AnswerIsTrue, Ok
  <2>1. plan[r] \in Plans
    BY DEF IInv, OrderInv, RequestsOK, Prepared
  <2> QED
    BY <2>1 DEF IInv, OrderInv, Answered
<1> QED
  BY Invariant, <1>1, PTL

(* A nonce in front of a pending transaction is unused only after a drop.  *)
THEOREM NoOtherGap == Spec => []GapNeedsDrop
<1>1. IInv => GapNeedsDrop
  BY DEF IInv
<1> QED
  BY Invariant, <1>1, PTL

(* An abandoned plan stays as it is, however often it is posted again.     *)
THEOREM NoResumption == Spec => AbandonedForGood
<1> DEFINE Stays == \A p \in Plans :
        Abandoned(p) => Abandoned(p)' /\ DoneSteps(p)' = DoneSteps(p)
<1>1. ASSUME IInv, [Next]_vars, NEW p \in Plans, Abandoned(p)
      PROVE  Abandoned(p)' /\ DoneSteps(p)' = DoneSteps(p)
  <2>1. PlansStay /\ MinesOne /\ PoolStep /\ RequestStep
    BY <1>1, Step DEF IInv, OrderInv
  <2>2. p \in Prepared /\ p # None /\ base[p] \in Nat /\ base[p] < Len(ledger)
    BY <1>1, PlansAssumption DEF Abandoned, IInv, TypeOK
  <2>3. p \in Prepared' /\ base'[p] = base[p] /\ base'[p] < Len(ledger')
    BY <1>1, <2>1, <2>2, FilledStays, NonceTypes DEF PlansStay, IInv
  <2>4. ASSUME NEW r \in Active, Current(r).plan = p, pc[r] = "send" PROVE ~Enters(Current(r))
    <3>1. plan[r] = p /\ at[r] = 1
      BY <1>1, <2>4 DEF Abandoned, Current, Tx
    <3>2. Current(r).nonce = base[p] + (1 - 1)
      BY <3>1 DEF Current, Tx, Nonce
    <3> QED
      BY <1>1, <2>2, <3>2, NonceTypes DEF Enters, IInv
  <2>5. \A t \in pool' : t.plan # p
    BY <1>1, <2>1, <2>2, <2>4 DEF PoolStep, Abandoned
  <2>6. ASSUME NEW r \in Active', plan'[r] = p PROVE pc'[r] = "send" /\ at'[r] = 1
    <3>1. r \in Active /\ plan[r] = p => pc[r] = "send" /\ at[r] = 1 /\ Current(r).plan = p
      BY <1>1 DEF Abandoned, Current, Tx
    <3> QED
      BY <2>1, <2>4, <2>6, <3>1 DEF RequestStep
  <2>7. ASSUME NEW k \in 1..3 PROVE Ok(p, k)' <=> Ok(p, k)
    <3>1. Ok(p, k) => Ok(p, k)'
      BY <1>1, <2>1, <2>2, OkStays DEF IInv
    <3>2. ASSUME Ok(p, k)' PROVE Ok(p, k)
      <4>1. Tx(p, k)' = Tx(p, k) /\ Tx(p, k).plan = p /\ Tx(p, k).nonce = base[p] + (k - 1)
        BY <2>3 DEF Tx, Nonce
      <4>2. CASE ledger' = ledger
        BY <3>2, <4>1, <4>2 DEF Ok, Succeeded, Mined
      <4>3. ASSUME NEW t \in pool, NEW ok \in BOOLEAN, t.plan # p,
                   ledger' = Append(ledger, [tx |-> t, ok |-> ok])
            PROVE  Ok(p, k)
        <5>1. [tx |-> t, ok |-> ok] \in [tx : Txs, ok : BOOLEAN]
          BY <1>1 DEF IInv, TypeOK
        <5>2. /\ Len(ledger') = Len(ledger) + 1
              /\ \A i \in 1..Len(ledger) : ledger'[i] = ledger[i]
              /\ ledger'[Len(ledger) + 1] = [tx |-> t, ok |-> ok]
          BY <1>1, <4>3, <5>1, AppendProperties DEF IInv, TypeOK
        <5> DEFINE n == base[p] + (k - 1)
        <5>3. n < Len(ledger') /\ ledger'[n + 1].tx = Tx(p, k) /\ ledger'[n + 1].ok
          BY <3>2, <4>1 DEF Ok, Succeeded, Mined
        <5>4. n + 1 # Len(ledger) + 1
          BY <4>1, <4>3, <5>2, <5>3
        <5>5. n + 1 \in 1..Len(ledger)
          BY <1>1, <2>2, <5>2, <5>3, <5>4, NonceTypes DEF IInv
        <5>6. n < Len(ledger)
          BY <1>1, <2>2, <5>5, NonceTypes DEF IInv
        <5> QED
          BY <4>1, <5>2, <5>3, <5>5, <5>6 DEF Ok, Succeeded, Mined
      <4> QED
        BY <1>1, <2>1, <4>2, <4>3 DEF MinesOne, Abandoned
    <3> QED
      BY <3>1, <3>2
  <2> QED
    BY <2>3, <2>5, <2>6, <2>7 DEF Abandoned, DoneSteps, Ok
<1>2. IInv /\ [Next]_vars => [Stays]_vars
  BY <1>1
<1> QED
  BY Invariant, <1>2, PTL DEF Spec, AbandonedForGood

=============================================================================

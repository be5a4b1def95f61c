--------------------------- MODULE AllBridgeProofs ---------------------------
(***************************************************************************)
(* For every environment, set of requests and bound: the type invariant of *)
(* AllBridge, the balance of the endpoint rotation, and that a request     *)
(* mixes endpoints only when another one replaced the sdk under it.        *)
(***************************************************************************)
EXTENDS AllBridge, FiniteSetTheorems, TLAPS

\* After n calls every slot was handed out q times, the first n % N once more.
InTurn(h, n) ==
    \E q \in Nat : \A s \in Slots :
        h[s] = IF s <= n % Cardinality(Kept) THEN q + 1 ELSE q

\* An exposed request is overlapped, or the sdk is still the one it built.
Fresh == \A r \in Exposed : r \in overlapped \/ rpc = own[r]

\* A request has made no call before it took its last endpoint.
NotYet ==
    \A r \in Requests :
        /\ pc[r] \in {"idle", "chains", "source", "destination"} => used[r] = {}
        /\ pc[r] = "chains" => body[r] \in Bodies

IInv == TypeOK /\ InTurn(handed, counter) /\ Fresh /\ NotYet /\ EndpointIsItsOwn

-----------------------------------------------------------------------------
(* Quotient and remainder, and that they are the only ones.                 *)
LEMMA Division ==
    ASSUME NEW N \in Nat, N > 0, NEW n \in Nat
    PROVE  \E q \in Int, r \in 0..(N - 1) : n % N = r /\ n = N * q + r
<1>1. n % N \in 0..(N - 1) /\ n \div N \in Int
  OBVIOUS
<1>2. ASSUME NEW q \in Int, NEW r \in Int, q = n \div N, r = n % N
      PROVE  n = N * q + r
  BY <1>2
<1> QED
  BY <1>1, <1>2

LEMMA Remainder ==
    ASSUME NEW N \in Nat, N > 0, NEW n \in Nat, NEW q \in Int, NEW r \in 0..(N - 1),
           n = N * q + r
    PROVE  n % N = r
  OBVIOUS

(* One more call moves the remainder by one, or back to zero.               *)
LEMMA NextRemainder ==
    ASSUME NEW N \in Nat, N > 0, NEW n \in Nat
    PROVE  /\ n % N \in 0..(N - 1)
           /\ (n + 1) % N = IF n % N = N - 1 THEN 0 ELSE (n % N) + 1
<1>1. PICK q \in Int, r \in 0..(N - 1) : n % N = r /\ n = N * q + r
  BY Division
<1>2. CASE r = N - 1
  <2>1. N * (q + 1) = N * q + N
    OBVIOUS
  <2>2. n + 1 = N * (q + 1) + 0
    <3>1. ASSUME NEW m \in Int, NEW k \in Int, m = N * q, k = N * (q + 1), k = m + N
          PROVE  n + 1 = k + 0
      BY <1>1, <1>2, <3>1
    <3> QED
      BY <2>1, <3>1
  <2>3. 0 \in 0..(N - 1) /\ q + 1 \in Int /\ n + 1 \in Nat
    OBVIOUS
  <2>4. (n + 1) % N = 0
    BY <2>2, <2>3, Remainder
  <2> QED
    BY <1>1, <1>2, <2>4
<1>3. CASE r # N - 1
  <2>1. n + 1 = N * q + (r + 1) /\ r + 1 \in 0..(N - 1) /\ n + 1 \in Nat
    <3>1. ASSUME NEW m \in Int, m = N * q PROVE n + 1 = m + (r + 1)
      BY <1>1, <3>1
    <3>2. N * q \in Int
      OBVIOUS
    <3> QED
      BY <1>3, <3>1, <3>2
  <2>2. (n + 1) % N = r + 1
    BY <2>1, Remainder
  <2> QED
    BY <1>1, <1>3, <2>2
<1> QED
  BY <1>2, <1>3

(* There are at most five endpoints.                                       *)
LEMMA KeptIsFinite == Kept \subseteq 1..5 /\ IsFiniteSet(Kept) /\ Cardinality(Kept) \in Nat
<1>1. IsFiniteSet(1..5)
  <2>1. 1 \in Int /\ 5 \in Int
    OBVIOUS
  <2> QED
    BY <2>1, FS_Interval, Zenon
<1>2. Kept \in SUBSET (1..5)
  BY DEF Kept
<1>3. IsFiniteSet(Kept)
  BY <1>1, <1>2, FS_Subset
<1> QED
  BY <1>2, <1>3, FS_CardinalityType

(* Every slot has its variable: counting the kept names from the first to   *)
(* the fifth passes every number up to their total.                         *)
LEMMA PositionExists == \A k \in Slots : Position(k) \in Kept
<1> DEFINE upTo(i) == Cardinality(Kept \cap 1..i)
<1>1. ASSUME NEW i \in 0..4
      PROVE  upTo(i + 1) = IF i + 1 \in Kept THEN upTo(i) + 1 ELSE upTo(i)
  <2>1. IsFiniteSet(Kept \cap 1..i)
    BY KeptIsFinite, FS_Subset
  <2>2. i + 1 \notin Kept \cap 1..i
    OBVIOUS
  <2>3. Kept \cap 1..(i + 1) =
          IF i + 1 \in Kept THEN (Kept \cap 1..i) \cup {i + 1} ELSE Kept \cap 1..i
    OBVIOUS
  <2> QED
    BY <2>1, <2>2, <2>3, FS_AddElement
<1>2. upTo(0) = 0
  <2>1. Kept \cap 1..0 = {}
    OBVIOUS
  <2> QED
    BY <2>1, FS_EmptySet
<1>3. upTo(5) = Cardinality(Kept)
  <2>1. Kept \cap 1..5 = Kept
    BY KeptIsFinite
  <2> QED
    BY <2>1
<1> HIDE DEF upTo
<1>4. /\ upTo(1) = IF 1 \in Kept THEN upTo(0) + 1 ELSE upTo(0)
      /\ upTo(2) = IF 2 \in Kept THEN upTo(1) + 1 ELSE upTo(1)
      /\ upTo(3) = IF 3 \in Kept THEN upTo(2) + 1 ELSE upTo(2)
      /\ upTo(4) = IF 4 \in Kept THEN upTo(3) + 1 ELSE upTo(3)
      /\ upTo(5) = IF 5 \in Kept THEN upTo(4) + 1 ELSE upTo(4)
  <2>1. 0 + 1 = 1 /\ 1 + 1 = 2 /\ 2 + 1 = 3 /\ 3 + 1 = 4 /\ 4 + 1 = 5
    OBVIOUS
  <2> QED
    BY <1>1, <2>1
<1>5. ASSUME NEW k \in Slots PROVE \E i \in Kept : upTo(i) = k
  BY <1>2, <1>3, <1>4 DEF Slots
<1> QED
  BY <1>5 DEF Position, upTo

(* What a call hands out: an endpoint, or nothing when none is configured.  *)
LEMMA SlotType ==
    ASSUME NEW n \in Nat
    PROVE  /\ Url(n) \in Urls \cup {NoUrl}
           /\ Kept # {} => Cardinality(Kept) > 0 /\ Slot(n) \in Slots
<1>1. Kept # {} => Cardinality(Kept) > 0
  BY KeptIsFinite, FS_EmptySet
<1>2. Kept # {} => Slot(n) \in Slots
  BY <1>1, KeptIsFinite, NextRemainder DEF Slot, Slots
<1>3. ASSUME Kept # {} PROVE rpcUrls[Slot(n)] \in Urls
  BY <1>2, <1>3, PositionExists DEF rpcUrls, Slots, Kept
<1> QED
  BY <1>1, <1>2, <1>3 DEF Url

(* One call of getRpcUrl keeps the rotation in turn.                        *)
LEMMA HandOutInTurn ==
    ASSUME NEW h \in [Slots -> Nat], NEW n \in Nat, InTurn(h, n)
    PROVE  HandOut(h, n) \in [Slots -> Nat] /\ InTurn(HandOut(h, n), n + 1)
<1>1. HandOut(h, n) \in [Slots -> Nat]
  BY DEF HandOut
<1>2. CASE Kept = {}
  <2>1. Slots = {}
    BY <1>2, FS_EmptySet DEF Slots
  <2> QED
    BY <1>1, <2>1 DEF InTurn
<1>3. CASE Kept # {}
  <2> DEFINE N == Cardinality(Kept)
  <2>1. N \in Nat /\ N > 0
    BY <1>3, KeptIsFinite, SlotType
  <2>2. /\ n % N \in 0..(N - 1)
        /\ (n + 1) % N = IF n % N = N - 1 THEN 0 ELSE (n % N) + 1
    BY <2>1, NextRemainder
  <2>3. PICK q \in Nat : \A s \in Slots : h[s] = IF s <= n % N THEN q + 1 ELSE q
    BY DEF InTurn
  <2>4. \A s \in Slots : HandOut(h, n)[s] = IF s = (n % N) + 1 THEN h[s] + 1 ELSE h[s]
    BY DEF HandOut, Slot
  <2>5. Slots = 1..N
    BY DEF Slots
  <2> HIDE DEF N
  <2>6. CASE n % N = N - 1
    <3>1. \A s \in Slots : HandOut(h, n)[s] = IF s <= (n + 1) % N THEN (q + 1) + 1 ELSE q + 1
      BY <2>1, <2>2, <2>3, <2>4, <2>5, <2>6
    <3> QED
      BY <1>1, <3>1 DEF InTurn, N
  <2>7. CASE n % N # N - 1
    <3>1. \A s \in Slots : HandOut(h, n)[s] = IF s <= (n + 1) % N THEN q + 1 ELSE q
      BY <2>1, <2>2, <2>3, <2>4, <2>5, <2>7
    <3> QED
      BY <1>1, <3>1 DEF InTurn, N
  <2> QED
    BY <2>6, <2>7
<1> QED
  BY <1>2, <1>3

LEMMA RotationStep ==
    ASSUME IInv, GetRpcUrl \/ GetRpcUrlTwice
    PROVE  /\ counter' \in Nat /\ counter' - 1 \in Nat
           /\ handed' \in [Slots -> Nat]
           /\ InTurn(handed', counter')
           /\ Url(counter' - 1) \in Endpoints
<1>1. counter \in Nat /\ handed \in [Slots -> Nat] /\ InTurn(handed, counter)
  BY DEF IInv, TypeOK
<1>2. /\ HandOut(handed, counter) \in [Slots -> Nat]
      /\ InTurn(HandOut(handed, counter), counter + 1)
  BY <1>1, HandOutInTurn
<1>3. CASE GetRpcUrl
  BY <1>1, <1>2, <1>3, SlotType DEF Endpoints, GetRpcUrl
<1>4. CASE GetRpcUrlTwice
  <2>1. /\ HandOut(HandOut(handed, counter), counter + 1) \in [Slots -> Nat]
        /\ InTurn(HandOut(HandOut(handed, counter), counter + 1), (counter + 1) + 1)
    BY <1>1, <1>2, HandOutInTurn
  <2>2. (counter + 1) + 1 = counter + 2 /\ counter + 2 \in Nat /\ (counter + 2) - 1 \in Nat
    BY <1>1
  <2> QED
    BY <1>4, <2>1, <2>2, SlotType DEF Endpoints, GetRpcUrlTwice
<1> QED
  BY <1>3, <1>4

LEMMA NextCases ==
    ASSUME [Next]_vars
    PROVE  \/ \E r \in Requests :
               \/ Begin(r) \/ FindSource(r) \/ FindDestination(r) \/ CheckAllowance(r)
               \/ BuildTransaction(r) \/ ReadMeta(r) \/ AskAmount(r) \/ Answer(r) \/ Fails(r)
           \/ OtherCaller \/ UNCHANGED vars
  BY DEF Next, Advance, Idle

LEMMA IInvInit == Init => IInv
<1> SUFFICES ASSUME Init PROVE IInv
  OBVIOUS
<1>1. TypeOK
  BY DEF Init, ProviderInit, TypeOK, Endpoints
<1>2. InTurn(handed, counter)
  <2>1. \A s \in Slots : handed[s] = IF s <= counter % Cardinality(Kept) THEN 0 + 1 ELSE 0
    <3> SUFFICES ASSUME NEW s \in Slots
                 PROVE  handed[s] = IF s <= counter % Cardinality(Kept) THEN 0 + 1 ELSE 0
      OBVIOUS
    <3>1. Cardinality(Kept) \in Nat /\ Cardinality(Kept) > 0 /\ s > 0 /\ s \in Nat
      BY KeptIsFinite DEF Slots
    <3>2. 0 = Cardinality(Kept) * 0 + 0 /\ 0 \in 0..(Cardinality(Kept) - 1)
      BY <3>1
    <3>3. 0 % Cardinality(Kept) = 0
      BY <3>1, <3>2, Remainder
    <3> QED
      BY <3>1, <3>3 DEF Init, ProviderInit
  <2> QED
    BY <2>1 DEF InTurn
<1>3. Fresh /\ NotYet /\ EndpointIsItsOwn
  BY DEF Init, Fresh, NotYet, EndpointIsItsOwn, Exposed
<1> QED
  BY <1>1, <1>2, <1>3 DEF IInv

(* Begin and FindDestination, as far as the invariant is concerned.         *)
LEMMA TakeCases ==
    ASSUME IInv, NEW r \in Requests, Begin(r) \/ FindDestination(r)
    PROVE  /\ GetRpcUrl \/ GetRpcUrlTwice
           /\ ReplaceSdk(r)
           /\ used[r] = {}
           /\ pc' = [pc EXCEPT ![r] = "chains"] \/ pc' = [pc EXCEPT ![r] = "destination"]
           /\ body' \in [Requests -> Bodies \cup {NoToken}]
           /\ pc'[r] = "chains" => body'[r] \in Bodies
           /\ \A x \in Requests \ {r} : body'[x] = body[x]
           /\ UNCHANGED <<coin, result, used, asked>>
<1>1. CASE Begin(r)
  BY <1>1 DEF Begin, Goto, IInv, NotYet, TypeOK
<1>2. CASE FindDestination(r)
  BY <1>2 DEF FindDestination, Goto, IInv, NotYet, TypeOK
<1> QED
  BY <1>1, <1>2

LEMMA TypeOKStep == ASSUME IInv, [Next]_vars PROVE TypeOK'
<1> USE DEF IInv
<1>1. ASSUME NEW r \in Requests, Begin(r) \/ FindDestination(r) PROVE TypeOK'
  <2>1. /\ counter' \in Nat /\ handed' \in [Slots -> Nat]
        /\ rpc' \in Endpoints
        /\ own' \in [Requests -> Endpoints]
    BY <1>1, TakeCases, RotationStep DEF ReplaceSdk, TypeOK
  <2>2. pc' \in [Requests -> {"idle", "done"} \cup Awaiting]
    BY <1>1, TakeCases DEF TypeOK, Awaiting
  <2>3. overlapped' \in SUBSET Requests
    BY <1>1, TakeCases DEF ReplaceSdk, TypeOK, Exposed
  <2> QED
    BY <1>1, <2>1, <2>2, <2>3, TakeCases DEF TypeOK
<1>2. ASSUME NEW r \in Requests, FindSource(r) PROVE TypeOK'
  <2>1. Found(body[r]) \in Symbols \cup {NoToken}
    <3>1. body[r] \in Bodies
      BY <1>2 DEF FindSource, NotYet
    <3>2. Listed[body[r].wallet] \subseteq Symbols
      BY <3>1, BodiesAssumption, ListedAssumption DEF Quote, Prepare
    <3> QED
      BY <3>2 DEF Found
  <2> QED
    BY <1>2, <2>1 DEF FindSource, Goto, rotation, TypeOK, Awaiting
<1>3. ASSUME NEW r \in Requests,
             \/ CheckAllowance(r) \/ BuildTransaction(r) \/ ReadMeta(r) \/ AskAmount(r)
             \/ Answer(r) \/ Fails(r)
      PROVE  TypeOK'
  BY <1>3 DEF CheckAllowance, BuildTransaction, ReadMeta, AskAmount, Answer, Fails, Uses, Goto,
     rotation, TypeOK, Awaiting
<1>4. CASE OtherCaller
  BY <1>4, RotationStep DEF OtherCaller, TypeOK
<1>5. CASE UNCHANGED vars
  BY <1>5 DEF vars, TypeOK
<1> QED
  BY <1>1, <1>2, <1>3, <1>4, <1>5, NextCases

LEMMA InTurnStep == ASSUME IInv, [Next]_vars PROVE InTurn(handed, counter)'
<1>1. CASE GetRpcUrl \/ GetRpcUrlTwice
  BY <1>1, RotationStep DEF InTurn, Slots
<1>2. CASE UNCHANGED rotation
  BY <1>2 DEF IInv, rotation, InTurn, Slots
<1> QED
  BY <1>1, <1>2, NextCases, TakeCases DEF FindSource, CheckAllowance, BuildTransaction,
     ReadMeta, AskAmount, Answer, Fails, OtherCaller, vars, rotation

LEMMA FreshStep == ASSUME IInv, [Next]_vars PROVE Fresh'
<1> USE DEF IInv
<1>1. ASSUME NEW r \in Requests, Begin(r) \/ FindDestination(r) PROVE Fresh'
  <2>1. rpc' = own'[r]
    BY <1>1, TakeCases DEF ReplaceSdk, TypeOK
  <2>2. ASSUME NEW x \in Exposed', x # r PROVE x \in overlapped'
    <3>1. x \in Exposed
      BY <1>1, <2>2, TakeCases DEF Exposed, TypeOK
    <3> QED
      BY <1>1, <2>2, <3>1, TakeCases DEF ReplaceSdk
  <2> QED
    BY <2>1, <2>2 DEF Fresh
<1>2. ASSUME Exposed' \subseteq Exposed, UNCHANGED <<rpc, own, overlapped>> PROVE Fresh'
  BY <1>2 DEF Fresh
<1>3. ASSUME NEW r \in Requests,
             \/ FindSource(r) \/ CheckAllowance(r) \/ BuildTransaction(r) \/ ReadMeta(r)
             \/ AskAmount(r) \/ Answer(r) \/ Fails(r)
      PROVE  Fresh'
  <2>1. UNCHANGED <<rpc, own, overlapped>>
    BY <1>3 DEF FindSource, CheckAllowance, BuildTransaction, ReadMeta, AskAmount, Answer, Fails
  <2>2. Exposed' \subseteq Exposed
    BY <1>3 DEF FindSource, CheckAllowance, BuildTransaction, ReadMeta, AskAmount, Answer,
       Fails, Goto, Exposed, TypeOK
  <2> QED
    BY <1>2, <2>1, <2>2
<1>4. CASE OtherCaller \/ UNCHANGED vars
  BY <1>2, <1>4 DEF OtherCaller, vars, Exposed
<1> QED
  BY <1>1, <1>3, <1>4, NextCases

LEMMA NotYetStep == ASSUME IInv, [Next]_vars PROVE NotYet'
<1> USE DEF IInv
<1>1. ASSUME NEW r \in Requests, Begin(r) \/ FindDestination(r) PROVE NotYet'
  BY <1>1, TakeCases DEF NotYet, TypeOK
<1>2. ASSUME NEW r \in Requests,
             \/ FindSource(r) \/ CheckAllowance(r) \/ BuildTransaction(r) \/ ReadMeta(r)
             \/ AskAmount(r) \/ Answer(r) \/ Fails(r)
      PROVE  NotYet'
  <2>1. /\ \A x \in Requests \ {r} : pc'[x] = pc[x] /\ used'[x] = used[x]
        /\ UNCHANGED body
    BY <1>2 DEF FindSource, CheckAllowance, BuildTransaction, ReadMeta, AskAmount, Answer,
       Fails, Goto, Uses, TypeOK
  <2>2. \/ pc[r] = "chains" /\ pc'[r] = "source" /\ used'[r] = used[r]
        \/ pc'[r] \in {"allowance", "tx", "meta", "amount", "done"}
    BY <1>2 DEF FindSource, CheckAllowance, BuildTransaction, ReadMeta, AskAmount, Answer,
       Fails, Goto, TypeOK
  <2> QED
    BY <2>1, <2>2 DEF NotYet
<1>3. CASE OtherCaller \/ UNCHANGED vars
  BY <1>3 DEF OtherCaller, vars, NotYet
<1> QED
  BY <1>1, <1>2, <1>3, NextCases

LEMMA EndpointStep == ASSUME IInv, [Next]_vars PROVE EndpointIsItsOwn'
<1> USE DEF IInv
<1>1. ASSUME NEW r \in Requests, Begin(r) \/ FindDestination(r) PROVE EndpointIsItsOwn'
  <2>1. /\ used[r] = {} /\ UNCHANGED used
        /\ \A x \in Requests \ {r} : own'[x] = own[x]
        /\ overlapped \subseteq overlapped'
    BY <1>1, TakeCases DEF ReplaceSdk, TypeOK
  <2> QED
    BY <2>1 DEF EndpointIsItsOwn
<1>2. ASSUME NEW r \in Requests,
             \/ CheckAllowance(r) \/ BuildTransaction(r) \/ ReadMeta(r) \/ AskAmount(r)
      PROVE  EndpointIsItsOwn'
  <2>1. /\ r \in Exposed /\ Uses(r)
        /\ UNCHANGED <<rpc, own, overlapped>>
    BY <1>2 DEF CheckAllowance, BuildTransaction, ReadMeta, AskAmount, Exposed
  <2>2. rpc = own[r] \/ r \in overlapped
    BY <2>1 DEF Fresh
  <2>3. used' = [used EXCEPT ![r] = used[r] \cup {rpc}]
    BY <2>1 DEF Uses
  <2> QED
    BY <2>1, <2>2, <2>3 DEF EndpointIsItsOwn, TypeOK
<1>3. ASSUME UNCHANGED <<own, used, overlapped>> PROVE EndpointIsItsOwn'
  BY <1>3 DEF EndpointIsItsOwn
<1> QED
  BY <1>1, <1>2, <1>3, NextCases DEF FindSource, Answer, Fails, OtherCaller, vars

-----------------------------------------------------------------------------
(* The inductive invariant holds in every behaviour.                        *)
THEOREM Invariant == Spec => []IInv
<1>1. IInv /\ [Next]_vars => IInv'
  BY TypeOKStep, InTurnStep, FreshStep, NotYetStep, EndpointStep DEF IInv
<1> QED
  BY <1>1, IInvInit, PTL DEF Spec

(* Type correctness.                                                        *)
THEOREM TypeCorrect == Spec => []TypeOK
BY Invariant, PTL DEF IInv

(* Whatever the number of endpoints set, and whoever asks for one, no       *)
(* endpoint is handed out two times more often than another.                *)
THEOREM RotationBalanced == Spec => []Balanced
<1>1. IInv => Balanced
  <2> SUFFICES ASSUME IInv PROVE Balanced
    OBVIOUS
  <2>1. PICK q \in Nat : \A s \in Slots :
          handed[s] = IF s <= counter % Cardinality(Kept) THEN q + 1 ELSE q
    BY DEF IInv, InTurn
  <2>2. \A s \in Slots : handed[s] \in {q, q + 1}
    BY <2>1
  <2> QED
    BY <2>2 DEF Balanced
<1> QED
  BY <1>1, Invariant, PTL

(* A bridge request mixes endpoints only if another one replaced its sdk.   *)
THEOREM OwnEndpoint == Spec => []EndpointIsItsOwn
BY Invariant, PTL DEF IInv
=============================================================================

----------------------- MODULE TransactionHistoryProofs -----------------------
(***************************************************************************)
(* For every ledger, list length and metadata: the type invariant of       *)
(* TransactionHistory, that the history has no hole above the cutoff, that *)
(* a transaction is shown by what it spends, and that two transfers of a   *)
(* token are on one scale.                                                 *)
(***************************************************************************)
EXTENDS TransactionHistory, FunctionTheorems, FiniteSetTheorems, SequenceTheorems, TLAPS

OutWays == {"out", "self"}
InWays == {"in", "self"}

BlocksRise == \A h, k \in 1..Len(ledger) : h <= k => ledger[h].block <= ledger[k].block

\* Of a list that was asked for when L had `at' transactions: whence its transfers are,
\* and that it leaves out none but below the last of a full list.
IsList(L, s, at, ways) ==
    /\ s \in Seq(Transfer) /\ Len(s) <= MaxCount
    /\ \A n \in 1..Len(s) :
        /\ s[n].hash \in 1..at /\ s[n].block = L[s[n].hash].block
        /\ s[n].leg.way \in ways
        /\ \E legs \in Shapes : \E i \in DOMAIN legs : s[n].leg = legs[i]
    /\ \A h \in 1..at : (\E i \in DOMAIN L[h].legs : L[h].legs[i].way \in ways) =>
        \/ \E n \in 1..Len(s) : s[n].hash = h
        \/ Len(s) = MaxCount /\ h <= s[MaxCount].hash

ListsOK ==
    /\ sent # None => IsList(ledger, sent, sentAt, OutWays)
    /\ received # None => IsList(ledger, received, receivedAt, InWays)

\* The map has what getTokenMetadata answered for every token of the merged list.
KnownOK ==
    pc = "patch" \/ answer # None =>
        \A c \in TokenContracts(Merged(sent, received)) :
            c \in failed \/ known[c] = KnownDecimals(c, FALSE)

AnswerOK ==
    answer # None =>
        /\ pc = "done" /\ sent # None /\ received # None
        /\ answer = [i \in DOMAIN Merged(sent, received) |->
                        Patched(Merged(sent, received)[i], known)]

IInv == TypeOK /\ BlocksRise /\ ListsOK /\ KnownOK /\ AnswerOK

-----------------------------------------------------------------------------
(* Orders.                                                                 *)

IsTotalOrder(S, order) ==
    /\ \A x \in S : <<x, x>> \notin order
    /\ \A x, y \in S : x # y => <<x, y>> \in order \/ <<y, x>> \in order
    /\ \A x, y, z \in S : <<x, y>> \in order /\ <<y, z>> \in order => <<x, z>> \in order

\* How many elements come before x.
Rank(S, order, x) == Cardinality({y \in S : <<y, x>> \in order})

LEMMA RankGrows ==
    ASSUME NEW S, IsFiniteSet(S), NEW order, IsTotalOrder(S, order), NEW x \in S
    PROVE  /\ Rank(S, order, x) \in 0..(Cardinality(S) - 1)
           /\ \A y \in S : <<x, y>> \in order => Rank(S, order, x) < Rank(S, order, y)
<1> DEFINE under(z) == {y \in S : <<y, z>> \in order}
<1>1. \A z \in S : IsFiniteSet(under(z)) /\ Cardinality(under(z)) \in Nat
  BY FS_Subset, FS_CardinalityType
<1>2. Cardinality(S) \in Nat
  BY FS_CardinalityType
<1>3. ASSUME NEW T, IsFiniteSet(T), under(x) \subseteq T, x \in T
      PROVE  Cardinality(under(x)) < Cardinality(T)
  <2>1. under(x) \in SUBSET T /\ under(x) # T
    BY <1>3 DEF IsTotalOrder
  <2>2. /\ Cardinality(under(x)) <= Cardinality(T)
        /\ Cardinality(under(x)) # Cardinality(T)
    BY <1>3, <2>1, FS_Subset
  <2>3. Cardinality(T) \in Nat
    BY <1>3, FS_CardinalityType
  <2> QED
    BY <1>1, <2>2, <2>3
<1>4. Cardinality(under(x)) < Cardinality(S)
  BY <1>3
<1>5. ASSUME NEW y \in S, <<x, y>> \in order
      PROVE  Cardinality(under(x)) < Cardinality(under(y))
  <2>1. under(x) \subseteq under(y) /\ x \in under(y)
    BY <1>5 DEF IsTotalOrder
  <2> QED
    BY <1>1, <1>3, <2>1
<1>6. \A z \in S : Rank(S, order, z) = Cardinality(under(z))
  BY DEF Rank
<1> HIDE DEF under
<1> QED
  BY <1>1, <1>2, <1>4, <1>5, <1>6

(* InOrder lists every element once, each before those it precedes.         *)
LEMMA InOrderSorts ==
    ASSUME NEW S, IsFiniteSet(S), NEW order, IsTotalOrder(S, order)
    PROVE  /\ Cardinality(S) \in Nat
           /\ InOrder(S, order) \in [1..Cardinality(S) -> S]
           /\ \A x \in S : \E n \in 1..Cardinality(S) : InOrder(S, order)[n] = x
           /\ \A m, n \in 1..Cardinality(S) :
                m < n => <<InOrder(S, order)[m], InOrder(S, order)[n]>> \in order
<1> DEFINE N == Cardinality(S)
           place == [x \in S |-> Rank(S, order, x) + 1]
<1>1. N \in Nat
  BY FS_CardinalityType
<1>2. \A x \in S : Rank(S, order, x) \in 0..(N - 1)
  BY RankGrows
<1>3. \A x, y \in S : <<x, y>> \in order => Rank(S, order, x) < Rank(S, order, y)
  BY RankGrows
<1>4. \A x, y \in S : Rank(S, order, x) = Rank(S, order, y) => x = y
  <2> SUFFICES ASSUME NEW x \in S, NEW y \in S, x # y
               PROVE  Rank(S, order, x) # Rank(S, order, y)
    OBVIOUS
  <2>1. <<x, y>> \in order \/ <<y, x>> \in order
    BY DEF IsTotalOrder
  <2> QED
    BY <1>2, <1>3, <2>1
<1> HIDE DEF N
<1>5. place \in [S -> 1..N]
  BY <1>1, <1>2
<1>6. place \in Injection(S, 1..N)
  <2>1. \A x, y \in S : place[x] = place[y] => x = y
    BY <1>2, <1>4
  <2> QED
    BY <1>5, <2>1, Fun_IsInj
<1>7. IsFiniteSet(1..N) /\ Cardinality(1..N) = N
  <2>1. 1 \in Int /\ N \in Int
    BY <1>1
  <2>2. IsFiniteSet(1..N) /\ Cardinality(1..N) = IF 1 > N THEN 0 ELSE N - 1 + 1
    BY <2>1, FS_Interval
  <2> QED
    BY <1>1, <2>2
<1>8. place \in Surjection(S, 1..N)
  BY <1>6, <1>7, FS_Injection DEF N
<1>9. \A n \in 1..N : \E x \in S : Rank(S, order, x) = n - 1
  <2>1. \A n \in 1..N : \E x \in S : place[x] = n
    <3> HIDE DEF place
    <3> QED
      BY <1>8, Fun_SurjectionProperties
  <2> SUFFICES ASSUME NEW n \in 1..N PROVE \E x \in S : Rank(S, order, x) = n - 1
    OBVIOUS
  <2>2. PICK x \in S : place[x] = n
    BY <2>1
  <2> QED
    BY <1>2, <2>2
<1>10. /\ DOMAIN InOrder(S, order) = 1..N
       /\ \A n \in 1..N : /\ InOrder(S, order)[n] \in S
                          /\ Rank(S, order, InOrder(S, order)[n]) = n - 1
  <2>1. InOrder(S, order) = [n \in 1..N |-> CHOOSE x \in S : Rank(S, order, x) = n - 1]
    BY DEF InOrder, Rank, N
  <2>2. ASSUME NEW n \in 1..N
        PROVE  /\ (CHOOSE x \in S : Rank(S, order, x) = n - 1) \in S
               /\ Rank(S, order, CHOOSE x \in S : Rank(S, order, x) = n - 1) = n - 1
    BY <1>9
  <2> QED
    BY <2>1, <2>2
<1>11. InOrder(S, order) \in [1..N -> S]
  <2>1. InOrder(S, order) = [n \in 1..N |-> CHOOSE x \in S : Rank(S, order, x) = n - 1]
    BY DEF InOrder, Rank, N
  <2>2. \A n \in 1..N : (CHOOSE x \in S : Rank(S, order, x) = n - 1) \in S
    BY <1>10, <2>1
  <2> QED
    BY <2>1, <2>2
<1>12. ASSUME NEW x \in S PROVE \E n \in 1..N : InOrder(S, order)[n] = x
  <2>1. Rank(S, order, x) + 1 \in 1..N
    BY <1>1, <1>2
  <2>2. Rank(S, order, InOrder(S, order)[Rank(S, order, x) + 1]) = Rank(S, order, x)
    BY <1>2, <1>10, <2>1
  <2> QED
    BY <1>4, <1>10, <2>1, <2>2
<1>13. ASSUME NEW m \in 1..N, NEW n \in 1..N, m < n
       PROVE  <<InOrder(S, order)[m], InOrder(S, order)[n]>> \in order
  <2> DEFINE x == InOrder(S, order)[m]  y == InOrder(S, order)[n]
  <2>1. x \in S /\ y \in S /\ Rank(S, order, x) = m - 1 /\ Rank(S, order, y) = n - 1
    BY <1>10
  <2> HIDE DEF x, y
  <2>2. <<y, x>> \notin order /\ x # y
    BY <1>3, <1>13, <2>1
  <2>3. <<x, y>> \in order
    BY <2>1, <2>2 DEF IsTotalOrder
  <2> QED
    BY <2>3 DEF x, y
<1> QED
  BY <1>1, <1>11, <1>12, <1>13 DEF N

-----------------------------------------------------------------------------
(* The merge.                                                              *)

LEMMA SeqDomain ==
    ASSUME NEW s \in Seq(Transfer)
    PROVE  /\ Len(s) \in Nat /\ DOMAIN s = 1..Len(s) /\ IsFiniteSet(DOMAIN s)
           /\ \A n \in DOMAIN s :
                s[n] \in Transfer /\ s[n].hash \in Nat /\ s[n].block \in Nat /\ s[n].leg \in Legs
<1>1. Len(s) \in Nat /\ DOMAIN s = 1..Len(s)
  BY LenProperties
<1>2. 1 \in Int /\ Len(s) \in Int
  BY <1>1
<1>3. IsFiniteSet(DOMAIN s)
  BY <1>1, <1>2, FS_Interval
<1>4. \A n \in DOMAIN s : s[n] \in Transfer
  BY <1>1, ElementOfSeq
<1> QED
  BY <1>1, <1>3, <1>4 DEF Transfer

LEMMA AscendingIsTotal ==
    ASSUME NEW I \in SUBSET Nat
    PROVE  IsTotalOrder(I, Ascending(I))
BY DEF IsTotalOrder, Ascending

(* A finite set of numbers has a least one.                                 *)
LEMMA LeastExists ==
    ASSUME NEW I \in SUBSET Nat, IsFiniteSet(I), I # {}
    PROVE  \E k \in I : \A j \in I : k <= j
<1> DEFINE e == InOrder(I, Ascending(I))  N == Cardinality(I)
<1>1. /\ N \in Nat /\ e \in [1..N -> I]
      /\ \A x \in I : \E n \in 1..N : e[n] = x
      /\ \A m, n \in 1..N : m < n => <<e[m], e[n]>> \in Ascending(I)
  BY AscendingIsTotal, InOrderSorts
<1> HIDE DEF e, N
<1>2. 1 \in 1..N
  <2>1. PICK x \in I, n \in 1..N : e[n] = x
    BY <1>1
  <2> QED
    BY <1>1
<1>3. ASSUME NEW j \in I PROVE e[1] <= j
  <2>1. PICK n \in 1..N : e[n] = j
    BY <1>1
  <2>2. CASE n = 1
    BY <1>1, <1>2, <2>1, <2>2
  <2>3. CASE n # 1
    <3>1. <<e[1], j>> \in Ascending(I) /\ e[1] \in I
      BY <1>1, <1>2, <2>1, <2>3
    <3>2. ASSUME NEW i \in I, <<i, j>> \in Ascending(I) PROVE i <= j
      BY <3>2 DEF Ascending
    <3> QED
      BY <3>1, <3>2
  <2> QED
    BY <2>2, <2>3
<1> QED
  BY <1>1, <1>2, <1>3

(* The filter keeps the first transfer of every hash and nothing else.      *)
LEMMA FirstOfHashKeeps ==
    ASSUME NEW s \in Seq(Transfer)
    PROVE  /\ FirstOfHash(s) \in Seq(Transfer)
           /\ \A n \in DOMAIN FirstOfHash(s) : \E k \in Firsts(s) : FirstOfHash(s)[n] = s[k]
           /\ \A k \in DOMAIN s : \E n \in DOMAIN FirstOfHash(s) :
                FirstOfHash(s)[n].hash = s[k].hash
           /\ \A m, n \in DOMAIN FirstOfHash(s) :
                m # n => FirstOfHash(s)[m].hash # FirstOfHash(s)[n].hash
<1> DEFINE I == Firsts(s)  e == InOrder(I, Ascending(I))  N == Cardinality(I)
<1>1. I \in SUBSET Nat /\ I \in SUBSET (DOMAIN s) /\ IsFiniteSet(I)
  BY SeqDomain, FS_Subset DEF Firsts
<1>2. /\ N \in Nat /\ e \in [1..N -> I]
      /\ \A x \in I : \E n \in 1..N : e[n] = x
      /\ \A m, n \in 1..N : m < n => <<e[m], e[n]>> \in Ascending(I)
  BY <1>1, AscendingIsTotal, InOrderSorts
<1>3. FirstOfHash(s) = [n \in DOMAIN e |-> s[e[n]]]
  BY DEF FirstOfHash
<1> HIDE DEF e, N, I
<1>4. DOMAIN FirstOfHash(s) = 1..N /\ \A n \in 1..N : FirstOfHash(s)[n] = s[e[n]] /\ e[n] \in I
  BY <1>2, <1>3
<1>5. FirstOfHash(s) \in Seq(Transfer)
  <2>1. FirstOfHash(s) \in [1..N -> Transfer]
    BY <1>1, <1>2, <1>3, SeqDomain
  <2> QED
    BY <1>2, <2>1
<1>6. ASSUME NEW k \in DOMAIN s PROVE \E i \in I : s[i].hash = s[k].hash
  <2> DEFINE same == {i \in DOMAIN s : s[i].hash = s[k].hash}
  <2>1. same \in SUBSET Nat /\ same # {} /\ same \in SUBSET (DOMAIN s)
    BY SeqDomain
  <2>2. IsFiniteSet(same)
    BY <2>1, SeqDomain, FS_Subset
  <2>3. PICK i \in same : \A j \in same : i <= j
    BY <2>1, <2>2, LeastExists
  <2>4. ASSUME NEW j \in 1..(i - 1) PROVE s[j].hash # s[i].hash
    <3>1. i \in 1..Len(s) /\ Len(s) \in Nat
      BY SeqDomain
    <3>2. j \in DOMAIN s /\ ~(i <= j)
      BY <3>1, SeqDomain
    <3> QED
      BY <2>3, <3>2
  <2> QED
    BY <2>4 DEF I, Firsts
<1>7. \A n \in 1..N : \E k \in I : FirstOfHash(s)[n] = s[k]
  BY <1>4
<1>8. ASSUME NEW k \in DOMAIN s PROVE \E n \in 1..N : FirstOfHash(s)[n].hash = s[k].hash
  <2>1. PICK i \in I : s[i].hash = s[k].hash
    BY <1>6
  <2>2. PICK n \in 1..N : e[n] = i
    BY <1>2
  <2> QED
    BY <1>4, <2>1, <2>2
<1>9. ASSUME NEW m \in 1..N, NEW n \in 1..N, m < n
      PROVE  FirstOfHash(s)[m].hash # FirstOfHash(s)[n].hash
  <2>1. e[m] \in I /\ e[n] \in I /\ e[m] < e[n]
    BY <1>2, <1>9 DEF Ascending
  <2>2. e[m] \in 1..(e[n] - 1)
    <3>1. e[m] \in 1..Len(s) /\ e[n] \in 1..Len(s) /\ Len(s) \in Nat
      BY <1>1, <2>1, SeqDomain
    <3> QED
      BY <2>1, <3>1
  <2>3. s[e[m]].hash # s[e[n]].hash
    BY <2>1, <2>2 DEF I, Firsts
  <2> QED
    BY <1>4, <2>3
<1>10. ASSUME NEW m \in 1..N, NEW n \in 1..N, m # n
       PROVE  FirstOfHash(s)[m].hash # FirstOfHash(s)[n].hash
  <2>1. m < n \/ n < m
    BY <1>2, <1>10
  <2> QED
    BY <1>9, <2>1
<1> QED
  BY <1>4, <1>5, <1>7, <1>8, <1>10 DEF I

(* The sort neither loses nor adds a transfer, and blocks descend.          *)
LEMMA ByBlockKeeps ==
    ASSUME NEW s \in Seq(Transfer)
    PROVE  /\ ByBlock(s) \in Seq(Transfer)
           /\ \A n \in DOMAIN ByBlock(s) : \E k \in DOMAIN s : ByBlock(s)[n] = s[k]
           /\ \A k \in DOMAIN s : \E n \in DOMAIN ByBlock(s) : ByBlock(s)[n] = s[k]
           /\ \A m, n \in DOMAIN ByBlock(s) : m < n =>
                /\ ByBlock(s)[m].block >= ByBlock(s)[n].block
                /\ \E j, k \in DOMAIN s : j # k /\ ByBlock(s)[m] = s[j] /\ ByBlock(s)[n] = s[k]
<1> DEFINE D == DOMAIN s  e == InOrder(D, Before(s))  N == Cardinality(D)
<1>1. D \in SUBSET Nat /\ IsFiniteSet(D) /\ \A i \in D : s[i].block \in Nat
  BY SeqDomain
<1>2. IsTotalOrder(D, Before(s))
  <2> DEFINE Above(i, j) == s[i].block > s[j].block \/ (s[i].block = s[j].block /\ i < j)
  <2>1. \A i, j \in D : <<i, j>> \in Before(s) <=> Above(i, j)
    BY DEF Before
  <2>2. /\ \A i \in D : ~Above(i, i)
        /\ \A i, j \in D : i # j => Above(i, j) \/ Above(j, i)
        /\ \A i, j, k \in D : Above(i, j) /\ Above(j, k) => Above(i, k)
    BY <1>1
  <2> HIDE DEF Above
  <2> QED
    BY <2>1, <2>2 DEF IsTotalOrder
<1>3. /\ N \in Nat /\ e \in [1..N -> D]
      /\ \A x \in D : \E n \in 1..N : e[n] = x
      /\ \A m, n \in 1..N : m < n => <<e[m], e[n]>> \in Before(s)
  BY <1>1, <1>2, InOrderSorts
<1>4. ByBlock(s) = [n \in DOMAIN e |-> s[e[n]]]
  BY DEF ByBlock
<1> HIDE DEF e, N, D
<1>5. DOMAIN ByBlock(s) = 1..N /\ \A n \in 1..N : ByBlock(s)[n] = s[e[n]] /\ e[n] \in D
  BY <1>3, <1>4
<1>6. ByBlock(s) \in Seq(Transfer)
  <2>1. ByBlock(s) \in [1..N -> Transfer]
    BY <1>3, <1>4, SeqDomain DEF D
  <2> QED
    BY <1>3, <2>1
<1>7. ASSUME NEW k \in D PROVE \E n \in 1..N : ByBlock(s)[n] = s[k]
  BY <1>3, <1>5
<1>8. ASSUME NEW m \in 1..N, NEW n \in 1..N, m < n
      PROVE  /\ ByBlock(s)[m].block >= ByBlock(s)[n].block
             /\ \E j, k \in D : j # k /\ ByBlock(s)[m] = s[j] /\ ByBlock(s)[n] = s[k]
  <2>1. e[m] \in D /\ e[n] \in D /\ <<e[m], e[n]>> \in Before(s)
    BY <1>3, <1>8
  <2>2. \/ s[e[m]].block > s[e[n]].block
        \/ s[e[m]].block = s[e[n]].block /\ e[m] < e[n]
    BY <2>1 DEF Before
  <2>3. e[m] \in Nat /\ e[n] \in Nat /\ s[e[m]].block \in Nat /\ s[e[n]].block \in Nat
    BY <1>1, <2>1
  <2>4. s[e[m]].block >= s[e[n]].block /\ e[m] # e[n]
    BY <2>2, <2>3
  <2> QED
    BY <1>5, <2>1, <2>4
<1> DEFINE b == ByBlock(s)
<1>9. \A n \in DOMAIN b : \E k \in D : b[n] = s[k]
  BY <1>5
<1>10. \A m, n \in DOMAIN b : m < n =>
        b[m].block >= b[n].block /\ \E j, k \in D : j # k /\ b[m] = s[j] /\ b[n] = s[k]
  BY <1>5, <1>8
<1>11. b \in Seq(Transfer) /\ \A k \in D : \E n \in DOMAIN b : b[n] = s[k]
  BY <1>5, <1>6, <1>7
<1> QED
  BY <1>9, <1>10, <1>11 DEF D

(* What is answered are the first transfers of each hash, those sent first. *)
LEMMA MergedKeeps ==
    ASSUME NEW s \in Seq(Transfer), NEW r \in Seq(Transfer)
    PROVE  /\ Merged(s, r) \in Seq(Transfer)
           /\ \A n \in DOMAIN Merged(s, r) : \E k \in Firsts(s \o r) : Merged(s, r)[n] = (s \o r)[k]
           /\ \A k \in DOMAIN (s \o r) : \E n \in DOMAIN Merged(s, r) :
                Merged(s, r)[n].hash = (s \o r)[k].hash
           /\ \A i, j \in DOMAIN Merged(s, r) : i < j =>
                /\ Merged(s, r)[i].hash # Merged(s, r)[j].hash
                /\ Merged(s, r)[i].block >= Merged(s, r)[j].block
<1> DEFINE q == s \o r  f == FirstOfHash(q)
<1>1. q \in Seq(Transfer)
  BY ConcatProperties
<1> HIDE DEF q
<1>2. /\ f \in Seq(Transfer)
      /\ \A n \in DOMAIN f : \E k \in Firsts(q) : f[n] = q[k]
      /\ \A k \in DOMAIN q : \E n \in DOMAIN f : f[n].hash = q[k].hash
      /\ \A j, k \in DOMAIN f : j # k => f[j].hash # f[k].hash
  BY <1>1, FirstOfHashKeeps
<1> HIDE DEF f
<1>3. /\ ByBlock(f) \in Seq(Transfer)
      /\ \A n \in DOMAIN ByBlock(f) : \E k \in DOMAIN f : ByBlock(f)[n] = f[k]
      /\ \A k \in DOMAIN f : \E n \in DOMAIN ByBlock(f) : ByBlock(f)[n] = f[k]
      /\ \A i, j \in DOMAIN ByBlock(f) : i < j =>
            /\ ByBlock(f)[i].block >= ByBlock(f)[j].block
            /\ \E k, l \in DOMAIN f : k # l /\ ByBlock(f)[i] = f[k] /\ ByBlock(f)[j] = f[l]
  BY <1>2, ByBlockKeeps
<1>4. Merged(s, r) = ByBlock(f)
  BY DEF Merged, f, q
<1>5. ASSUME NEW k \in DOMAIN q
      PROVE  \E n \in DOMAIN ByBlock(f) : ByBlock(f)[n].hash = q[k].hash
  <2>1. PICK m \in DOMAIN f : f[m].hash = q[k].hash
    BY <1>2
  <2>2. PICK n \in DOMAIN ByBlock(f) : ByBlock(f)[n] = f[m]
    BY <1>3
  <2> QED
    BY <2>1, <2>2
<1>6. ASSUME NEW n \in DOMAIN ByBlock(f) PROVE \E k \in Firsts(q) : ByBlock(f)[n] = q[k]
  <2>1. PICK k \in DOMAIN f : ByBlock(f)[n] = f[k]
    BY <1>3
  <2> QED
    BY <1>2, <2>1
<1>7. ASSUME NEW i \in DOMAIN ByBlock(f), NEW j \in DOMAIN ByBlock(f), i < j
      PROVE  ByBlock(f)[i].hash # ByBlock(f)[j].hash /\ ByBlock(f)[i].block >= ByBlock(f)[j].block
  <2>1. /\ ByBlock(f)[i].block >= ByBlock(f)[j].block
        /\ \E k, l \in DOMAIN f : k # l /\ ByBlock(f)[i] = f[k] /\ ByBlock(f)[j] = f[l]
    BY <1>3, <1>7
  <2>2. PICK k \in DOMAIN f, l \in DOMAIN f :
            k # l /\ ByBlock(f)[i] = f[k] /\ ByBlock(f)[j] = f[l]
    BY <2>1
  <2>3. f[k].hash # f[l].hash
    BY <1>2, <2>2
  <2> QED
    BY <2>1, <2>2, <2>3
<1> DEFINE m == Merged(s, r)
<1>8. /\ m \in Seq(Transfer)
      /\ \A n \in DOMAIN m : \E k \in Firsts(q) : m[n] = q[k]
      /\ \A k \in DOMAIN q : \E n \in DOMAIN m : m[n].hash = q[k].hash
      /\ \A i, j \in DOMAIN m : i < j => m[i].hash # m[j].hash /\ m[i].block >= m[j].block
  BY <1>3, <1>4, <1>5, <1>6, <1>7
<1> QED
  BY <1>8 DEF q

(* A patch changes no more than the decimals.                               *)
LEMMA PatchedKeeps ==
    ASSUME NEW t \in Transfer, NEW map
    PROVE  /\ Patched(t, map).hash = t.hash /\ Patched(t, map).block = t.block
           /\ Patched(t, map).leg.way = t.leg.way
           /\ Patched(t, map).leg.category = t.leg.category
           /\ Patched(t, map).leg.contract = t.leg.contract
           /\ IsToken(t.leg) => Patched(t, map).leg.decimal = Decimals(t.leg, map)
<1> DEFINE d == IF IsToken(t.leg) THEN Decimals(t.leg, map)
                ELSE IF t.leg.category = "external" THEN DefaultDecimals ELSE t.leg.decimal
<1>1. Patched(t, map) = [t EXCEPT !.leg = [t.leg EXCEPT !.decimal = d]]
  BY DEF Patched
<1>2. IsToken(t.leg) => d = Decimals(t.leg, map)
  OBVIOUS
<1> HIDE DEF d
<1> QED
  BY <1>1, <1>2 DEF Transfer, Legs

-----------------------------------------------------------------------------
(* The lists of getAssetTransfers.                                         *)

LEMMA MinOfTwo ==
    ASSUME NEW a \in Nat, NEW b \in Nat
    PROVE  Min({a, b}) = IF a <= b THEN a ELSE b
<1> DEFINE m == IF a <= b THEN a ELSE b
<1>1. m \in {a, b} /\ \A x \in {a, b} : m <= x
  OBVIOUS
<1>2. \A x \in {a, b} : (\A y \in {a, b} : x <= y) => x = m
  OBVIOUS
<1> HIDE DEF m
<1>3. Min({a, b}) \in {a, b} /\ \A y \in {a, b} : Min({a, b}) <= y
  BY <1>1 DEF Min
<1>4. Min({a, b}) = m
  BY <1>2, <1>3
<1> QED
  BY <1>4 DEF m

LEMMA LedgerType ==
    ASSUME TypeOK, NEW h \in 1..Len(ledger)
    PROVE  /\ ledger[h].block \in Nat /\ ledger[h].legs \in Shapes
           /\ ledger[h].legs \in Seq(Legs)
           /\ \A i \in DOMAIN ledger[h].legs : i \in Nat /\ ledger[h].legs[i] \in Legs
<1>1. ledger[h] \in [block : Nat, legs : Shapes]
  BY ElementOfSeq DEF TypeOK
<1>2. ledger[h].block \in Nat /\ ledger[h].legs \in Shapes /\ ledger[h].legs \in Seq(Legs)
  BY <1>1, ShapesAssumption
<1>3. ASSUME NEW legs \in Seq(Legs), NEW i \in DOMAIN legs PROVE i \in Nat /\ legs[i] \in Legs
  BY LenProperties, ElementOfSeq
<1> QED
  BY <1>2, <1>3

LEMMA PlacesAreFinite ==
    ASSUME TypeOK
    PROVE  /\ IsFiniteSet(Places) /\ Len(ledger) \in Nat
           /\ \A p \in Nat \X Nat :
                p \in Places <=> p[1] \in 1..Len(ledger) /\ p[2] \in DOMAIN ledger[p[1]].legs
           /\ Places \in SUBSET (Nat \X Nat)
<1> DEFINE D == DOMAIN ledger
           row == [h \in D |-> {h} \X DOMAIN ledger[h].legs]
           rows == {{h} \X DOMAIN ledger[h].legs : h \in D}
<1>1. Len(ledger) \in Nat /\ D = 1..Len(ledger)
  BY LenProperties DEF TypeOK
<1>2. IsFiniteSet(D)
  <2>1. 1 \in Int /\ Len(ledger) \in Int
    BY <1>1
  <2> QED
    BY <1>1, <2>1, FS_Interval
<1>3. row \in Surjection(D, rows)
  <2>1. row \in [D -> rows] /\ \A t \in rows : \E h \in D : row[h] = t
    OBVIOUS
  <2> HIDE DEF row, rows
  <2> QED
    BY <2>1, Fun_IsSurj
<1>4. IsFiniteSet(rows)
  <2> HIDE DEF row, rows
  <2> QED
    BY <1>2, <1>3, FS_Surjection
<1>5. ASSUME NEW h \in D PROVE IsFiniteSet({h} \X DOMAIN ledger[h].legs)
  <2>1. Len(ledger[h].legs) \in Nat /\ DOMAIN ledger[h].legs = 1..Len(ledger[h].legs)
    BY <1>1, LedgerType, LenProperties
  <2>2. 1 \in Int /\ Len(ledger[h].legs) \in Int
    BY <2>1
  <2>3. IsFiniteSet(DOMAIN ledger[h].legs)
    BY <2>1, <2>2, FS_Interval
  <2> QED
    BY <2>3, FS_Singleton, FS_Product
<1>6. IsFiniteSet(Places)
  <2>1. Places = UNION rows
    BY DEF Places
  <2>2. \A t \in rows : IsFiniteSet(t)
    BY <1>5
  <2> HIDE DEF rows
  <2> QED
    BY <1>4, <2>1, <2>2, FS_UNION
<1>7. Places \in SUBSET (Nat \X Nat)
  <2>1. ASSUME NEW h \in D, NEW i \in DOMAIN ledger[h].legs PROVE <<h, i>> \in Nat \X Nat
    BY <1>1, LedgerType
  <2> QED
    BY <2>1 DEF Places
<1>8. ASSUME NEW a \in Nat, NEW b \in Nat
      PROVE  <<a, b>> \in Places <=> a \in D /\ b \in DOMAIN ledger[a].legs
  BY DEF Places
<1>9. \A p \in Nat \X Nat : p \in Places <=> p[1] \in D /\ p[2] \in DOMAIN ledger[p[1]].legs
  BY <1>8
<1> QED
  BY <1>1, <1>6, <1>7, <1>9

LEMMA NewestFirstIsTotal ==
    ASSUME NEW P \in SUBSET (Nat \X Nat)
    PROVE  /\ IsTotalOrder(P, NewestFirst(P))
           /\ \A p, q \in P : <<p, q>> \in NewestFirst(P) => p[1] >= q[1]
<1> DEFINE Newer(p, q) == p[1] > q[1] \/ (p[1] = q[1] /\ p[2] > q[2])
<1>1. \A p, q \in P : <<p, q>> \in NewestFirst(P) <=> Newer(p, q)
  BY DEF NewestFirst
<1>2. \A p \in P : p[1] \in Nat /\ p[2] \in Nat /\ p = <<p[1], p[2]>>
  OBVIOUS
<1>3. /\ \A p \in P : ~Newer(p, p)
      /\ \A p, q \in P : p # q => Newer(p, q) \/ Newer(q, p)
      /\ \A p, q, x \in P : Newer(p, q) /\ Newer(q, x) => Newer(p, x)
      /\ \A p, q \in P : Newer(p, q) => p[1] >= q[1]
  <2>1. \A p \in P : ~Newer(p, p)
    BY <1>2
  <2>2. ASSUME NEW p \in P, NEW q \in P, p # q PROVE Newer(p, q) \/ Newer(q, p)
    <3>1. p[1] # q[1] \/ p[2] # q[2]
      BY <1>2, <2>2
    <3> QED
      BY <1>2, <3>1
  <2>3. \A p, q, x \in P : Newer(p, q) /\ Newer(q, x) => Newer(p, x)
    BY <1>2
  <2>4. \A p, q \in P : Newer(p, q) => p[1] >= q[1]
    BY <1>2
  <2> QED
    BY <2>1, <2>2, <2>3, <2>4
<1> HIDE DEF Newer
<1> QED
  BY <1>1, <1>3 DEF IsTotalOrder

(* What Alchemy answers of the ledger as it is.                             *)
LEMMA NewestIsList ==
    ASSUME TypeOK, NEW ways
    PROVE  IsList(ledger, Newest(ways), Len(ledger), ways)
<1> DEFINE going == {p \in Places : ledger[p[1]].legs[p[2]].way \in ways}
           e == InOrder(going, NewestFirst(going))
           N == Cardinality(going)
           K == IF MaxCount <= N THEN MaxCount ELSE N
           s == Newest(ways)
<1>1. going \in SUBSET (Nat \X Nat) /\ IsFiniteSet(going) /\ going \in SUBSET Places
  BY PlacesAreFinite, FS_Subset
<1>2. \A p \in going : /\ p[1] \in 1..Len(ledger) /\ p[2] \in DOMAIN ledger[p[1]].legs
                       /\ ledger[p[1]].legs[p[2]].way \in ways
  <2>1. \A p \in going : p \in Nat \X Nat /\ p \in Places
    BY <1>1
  <2> QED
    BY <2>1, PlacesAreFinite
<1>3. ASSUME NEW h \in 1..Len(ledger), NEW i \in DOMAIN ledger[h].legs,
             ledger[h].legs[i].way \in ways
      PROVE  <<h, i>> \in going
  <2>1. <<h, i>> \in Nat \X Nat
    BY LedgerType, PlacesAreFinite
  <2>2. <<h, i>> \in Places
    BY <2>1, PlacesAreFinite
  <2> QED
    BY <1>3, <2>2
<1> HIDE DEF going
<1>4. /\ N \in Nat /\ e \in [1..N -> going]
      /\ \A x \in going : \E n \in 1..N : e[n] = x
      /\ \A m, n \in 1..N : m < n => <<e[m], e[n]>> \in NewestFirst(going)
  BY <1>1, NewestFirstIsTotal, InOrderSorts
<1>5. s = [n \in 1..K |-> TransferAt(e[n])]
  <2>1. Min({MaxCount, N}) = K
    BY <1>4, MinOfTwo, CountAssumption
  <2> QED
    BY <2>1 DEF Newest, going
<1> HIDE DEF e, N
<1>6. K \in Nat /\ K <= N /\ K <= MaxCount /\ (K < N => K = MaxCount) /\ MaxCount \in Nat \ {0}
  BY <1>4, CountAssumption
<1> HIDE DEF K, s
<1>7. \A p \in going : TransferAt(p) \in Transfer
  <2> SUFFICES ASSUME NEW p \in going PROVE TransferAt(p) \in Transfer
    OBVIOUS
  <2>1. p[1] \in 1..Len(ledger) /\ p[2] \in DOMAIN ledger[p[1]].legs /\ p[1] \in Nat
    BY <1>2
  <2>2. ledger[p[1]].block \in Nat /\ ledger[p[1]].legs[p[2]] \in Legs
    BY <2>1, LedgerType
  <2> QED
    BY <2>1, <2>2 DEF TransferAt, Transfer
<1>8. \A n \in 1..K : n \in 1..N /\ e[n] \in going
  BY <1>4, <1>6
<1>9. s \in Seq(Transfer) /\ Len(s) = K /\ \A n \in 1..K : s[n] = TransferAt(e[n])
  <2>1. s \in [1..K -> Transfer]
    BY <1>5, <1>7, <1>8
  <2> QED
    BY <1>5, <1>6, <2>1
<1>10. ASSUME NEW n \in 1..K
       PROVE  /\ s[n].hash \in 1..Len(ledger) /\ s[n].block = ledger[s[n].hash].block
              /\ s[n].leg.way \in ways
              /\ \E legs \in Shapes : \E i \in DOMAIN legs : s[n].leg = legs[i]
  <2> DEFINE p == e[n]
  <2>1. p \in going /\ s[n] = TransferAt(p)
    BY <1>8, <1>9
  <2> HIDE DEF p
  <2>2. /\ s[n].hash = p[1] /\ s[n].block = ledger[p[1]].block
        /\ s[n].leg = ledger[p[1]].legs[p[2]]
    BY <2>1 DEF TransferAt
  <2>3. ledger[p[1]].legs \in Shapes
    BY <1>2, <2>1, LedgerType
  <2> QED
    BY <1>2, <2>1, <2>2, <2>3
<1>11. ASSUME NEW h \in 1..Len(ledger), NEW i \in DOMAIN ledger[h].legs,
              ledger[h].legs[i].way \in ways
       PROVE  \/ \E n \in 1..K : s[n].hash = h
              \/ K = MaxCount /\ h <= s[MaxCount].hash
  <2>1. PICK n \in 1..N : e[n] = <<h, i>>
    BY <1>3, <1>4, <1>11
  <2>2. CASE n <= K
    <3>1. n \in 1..K
      BY <1>6, <2>2
    <3>2. s[n].hash = h
      BY <1>9, <2>1, <3>1 DEF TransferAt
    <3> QED
      BY <3>1, <3>2
  <2>3. CASE ~(n <= K)
    <3>1. K = MaxCount /\ K \in 1..N /\ K < n /\ K \in 1..K
      BY <1>4, <1>6, <2>3
    <3>2. <<e[K], <<h, i>>>> \in NewestFirst(going) /\ e[K] \in going /\ <<h, i>> \in going
      BY <1>3, <1>4, <1>11, <2>1, <3>1
    <3>3. e[K][1] >= h
      <4>1. e[K][1] >= <<h, i>>[1]
        BY <1>1, <3>2, NewestFirstIsTotal
      <4> QED
        BY <4>1
    <3>4. s[K].hash = e[K][1]
      BY <1>9, <3>1 DEF TransferAt
    <3>5. e[K][1] \in Nat /\ h \in Nat
      BY <1>2, <3>2
    <3> QED
      BY <3>1, <3>3, <3>4, <3>5
  <2> QED
    BY <2>2, <2>3
<1>12. \A h \in 1..Len(ledger) :
         (\E i \in DOMAIN ledger[h].legs : ledger[h].legs[i].way \in ways) =>
            \/ \E n \in 1..Len(s) : s[n].hash = h
            \/ Len(s) = MaxCount /\ h <= s[MaxCount].hash
  BY <1>9, <1>11
<1>13. Len(s) <= MaxCount
  BY <1>6, <1>9
<1> QED
  BY <1>9, <1>10, <1>12, <1>13 DEF IsList, s

(* A list stays what it was of the ledger it saw, however the ledger grows. *)
LEMMA ListStays ==
    ASSUME NEW L, NEW M, NEW s, NEW ways, NEW size \in Nat, NEW at \in 0..size,
           \A h \in 1..size : M[h] = L[h], IsList(L, s, at, ways)
    PROVE  IsList(M, s, at, ways)
<1>1. \A h \in 1..at : h \in 1..size /\ M[h] = L[h]
  OBVIOUS
<1>2. \A n \in 1..Len(s) : s[n].hash \in 1..at
  BY DEF IsList
<1>3. \A n \in 1..Len(s) : s[n].block = M[s[n].hash].block
  BY <1>1, <1>2 DEF IsList
<1>4. \A h \in 1..at : (\E i \in DOMAIN M[h].legs : M[h].legs[i].way \in ways) =>
        \/ \E n \in 1..Len(s) : s[n].hash = h
        \/ Len(s) = MaxCount /\ h <= s[MaxCount].hash
  BY <1>1 DEF IsList
<1> QED
  BY <1>2, <1>3, <1>4 DEF IsList

-----------------------------------------------------------------------------
(* The ledger.                                                             *)

LEMMA LedgerGrows ==
    ASSUME TypeOK, BlocksRise, [Next]_vars
    PROVE  /\ ledger' \in Seq([block : Nat, legs : Shapes])
           /\ Len(ledger) \in Nat /\ Len(ledger') \in Nat /\ Len(ledger) <= Len(ledger')
           /\ \A h \in 1..Len(ledger) : ledger'[h] = ledger[h]
           /\ BlocksRise'
<1>1. Len(ledger) \in Nat /\ ledger \in Seq([block : Nat, legs : Shapes])
  BY LenProperties DEF TypeOK
<1>2. CASE Mine
  <2>1. PICK legs \in Shapes, b \in {Height, Height + 1} :
          ledger' = Append(ledger, [block |-> b, legs |-> legs])
    BY <1>2 DEF Mine
  <2> DEFINE tx == [block |-> b, legs |-> legs]
  <2>2. /\ Height \in Nat /\ b \in Nat
        /\ \A h \in 1..Len(ledger) : ledger[h].block \in Nat /\ ledger[h].block <= Height
    <3>1. CASE ledger = <<>>
      <4>1. Height = 1 /\ Len(ledger) = 0
        BY <3>1 DEF Height
      <4> QED
        BY <4>1
    <3>2. CASE ledger # <<>>
      <4>1. Len(ledger) \in 1..Len(ledger)
        BY <1>1, <3>2, EmptySeq
      <4>2. Height = ledger[Len(ledger)].block
        BY <3>2 DEF Height
      <4>3. \A h \in 1..Len(ledger) : ledger[h].block \in Nat
        BY LedgerType
      <4>4. \A h \in 1..Len(ledger) : ledger[h].block <= ledger[Len(ledger)].block
        BY <4>1 DEF BlocksRise
      <4> QED
        BY <4>1, <4>2, <4>3, <4>4
    <3> QED
      BY <3>1, <3>2
  <2>3. tx \in [block : Nat, legs : Shapes] /\ tx.block = b
    BY <2>2
  <2> HIDE DEF tx
  <2>4. /\ ledger' \in Seq([block : Nat, legs : Shapes]) /\ Len(ledger') = Len(ledger) + 1
        /\ \A h \in 1..Len(ledger) : ledger'[h] = ledger[h]
        /\ ledger'[Len(ledger) + 1] = tx
    <3>1. ledger' = Append(ledger, tx)
      BY <2>1 DEF tx
    <3> QED
      BY <1>1, <2>3, <3>1, AppendProperties
  <2>5. ASSUME NEW h \in 1..Len(ledger'), NEW k \in 1..Len(ledger'), h <= k
        PROVE  ledger'[h].block <= ledger'[k].block
    <3>1. CASE k \in 1..Len(ledger)
      <4>1. h \in 1..Len(ledger)
        BY <1>1, <2>5, <3>1
      <4> QED
        BY <2>4, <2>5, <3>1, <4>1 DEF BlocksRise
    <3>2. CASE k = Len(ledger) + 1 /\ h \in 1..Len(ledger)
      BY <2>2, <2>3, <2>4, <3>2
    <3>3. CASE k = Len(ledger) + 1 /\ h = Len(ledger) + 1
      BY <2>2, <2>3, <2>4, <3>3
    <3> QED
      BY <1>1, <2>4, <2>5, <3>1, <3>2, <3>3
  <2> QED
    BY <1>1, <2>4, <2>5 DEF BlocksRise
<1>3. CASE UNCHANGED ledger
  BY <1>1, <1>3 DEF BlocksRise
<1> QED
  BY <1>2, <1>3 DEF Next, Ask, SentAnswered, ReceivedAnswered, AskFails, FetchMetadata, Answer,
     Idle, vars

-----------------------------------------------------------------------------
(* The request.                                                            *)

LEMMA TokensAreContracts ==
    ASSUME NEW s \in Seq(Transfer), NEW c \in TokenContracts(s)
    PROVE  c \in Contracts /\ KnownDecimals(c, TRUE) = 18 /\ KnownDecimals(c, FALSE) \in Nat
<1>1. PICK i \in DOMAIN s : IsToken(s[i].leg) /\ c = s[i].leg.contract
  BY DEF TokenContracts
<1>2. s[i].leg \in Legs
  BY SeqDomain
<1>3. c \in Contracts
  BY <1>1, <1>2 DEF Legs, IsToken
<1>4. Metadata[c] \in Nat \cup {None}
  BY <1>3, MetadataAssumption
<1> QED
  BY <1>3, <1>4 DEF KnownDecimals, DefaultDecimals

LEMMA Asked ==
    ASSUME IInv, pc \in {"metadata", "patch"} \/ answer # None
    PROVE  /\ sent # None /\ received # None
           /\ sent \in Seq(Transfer) /\ received \in Seq(Transfer)
           /\ Merged(sent, received) \in Seq(Transfer)
<1>1. sent # None /\ received # None
  BY DEF IInv, TypeOK, AnswerOK
<1>2. sent \in Seq(Transfer) /\ received \in Seq(Transfer)
  BY <1>1 DEF IInv, TypeOK
<1> QED
  BY <1>1, <1>2, MergedKeeps

(* The transfers of the two lists, one list after the other. *)
LEMMA OfAList ==
    ASSUME IInv, sent # None, received # None, NEW k \in DOMAIN (sent \o received),
           NEW t, t = (sent \o received)[k]
    PROVE  /\ k \in Nat \ {0} /\ t \in Transfer /\ t.hash \in 1..Len(ledger)
           /\ \E legs \in Shapes : \E i \in DOMAIN legs : t.leg = legs[i]
           /\ \/ k \in 1..Len(sent) /\ t = sent[k] /\ t.leg.way \in OutWays
              \/ k \in (Len(sent) + 1)..(Len(sent) + Len(received))
<1>1. /\ IsList(ledger, sent, sentAt, OutWays) /\ sent \in Seq(Transfer)
      /\ IsList(ledger, received, receivedAt, InWays) /\ received \in Seq(Transfer)
  BY DEF IInv, ListsOK, IsList
<1>2. Len(sent) \in Nat /\ Len(received) \in Nat
  BY <1>1, LenProperties
<1>3. /\ k \in 1..(Len(sent) + Len(received))
      /\ t = IF k <= Len(sent) THEN sent[k] ELSE received[k - Len(sent)]
  BY <1>1, ConcatProperties, LenProperties
<1>4. Len(ledger) \in Nat /\ sentAt \in 0..Len(ledger) /\ receivedAt \in 0..Len(ledger)
  BY DEF IInv, TypeOK
<1>5. CASE k <= Len(sent)
  <2>1. k \in 1..Len(sent) /\ t = sent[k]
    BY <1>2, <1>3, <1>5
  <2>2. t \in Transfer
    BY <1>1, <2>1, SeqDomain
  <2>3. /\ t.hash \in 1..sentAt /\ t.leg.way \in OutWays
        /\ \E legs \in Shapes : \E i \in DOMAIN legs : t.leg = legs[i]
    BY <1>1, <2>1 DEF IsList
  <2> QED
    BY <1>4, <2>1, <2>2, <2>3
<1>6. CASE k > Len(sent)
  <2> DEFINE m == k - Len(sent)
  <2>1. m \in 1..Len(received) /\ t = received[m]
    BY <1>2, <1>3, <1>6
  <2> HIDE DEF m
  <2>2. t \in Transfer
    BY <1>1, <2>1, SeqDomain
  <2>3. /\ t.hash \in 1..receivedAt
        /\ \E legs \in Shapes : \E i \in DOMAIN legs : t.leg = legs[i]
    BY <1>1, <2>1 DEF IsList
  <2>4. k \in (Len(sent) + 1)..(Len(sent) + Len(received))
    BY <1>2, <1>3, <1>6
  <2>5. k \in Nat \ {0}
    BY <1>2, <1>3
  <2> QED
    BY <1>4, <2>2, <2>3, <2>4, <2>5
<1> QED
  BY <1>2, <1>3, <1>5, <1>6

LEMMA NextCases ==
    ASSUME [Next]_vars
    PROVE  \/ Ask \/ SentAnswered \/ ReceivedAnswered \/ AskFails \/ FetchMetadata \/ Answer
           \/ Mine \/ UNCHANGED vars
BY DEF Next, Idle

LEMMA TypeOKStep == ASSUME IInv, [Next]_vars PROVE TypeOK'
<1> DEFINE LedgerOK ==
             /\ ledger \in Seq([block : Nat, legs : Shapes])
             /\ sentAt \in 0..Len(ledger) /\ receivedAt \in 0..Len(ledger)
           ListOK ==
             /\ pc \in {"idle", "ask", "metadata", "patch", "done"}
             /\ sent \in Seq(Transfer) \cup {None} /\ received \in Seq(Transfer) \cup {None}
             /\ pc \in {"metadata", "patch"} => sent # None /\ received # None
           MapOK ==
             /\ known \in [Contracts -> Nat \cup {None}]
             /\ failed \subseteq {c \in Contracts : known[c] = DefaultDecimals}
           HashesOK ==
             answer # None => \A i \in 1..Len(answer) : answer[i].hash \in 1..Len(ledger)
<1>1. TypeOK <=> LedgerOK /\ ListOK /\ MapOK /\ HashesOK
  BY DEF TypeOK
<1>2. TypeOK' <=> LedgerOK' /\ ListOK' /\ MapOK' /\ HashesOK'
  BY DEF TypeOK
<1>3. LedgerOK /\ ListOK /\ MapOK /\ HashesOK
  BY <1>1 DEF IInv
<1>4. /\ ledger' \in Seq([block : Nat, legs : Shapes])
      /\ Len(ledger) \in Nat /\ Len(ledger') \in Nat /\ Len(ledger) <= Len(ledger')
  BY LedgerGrows DEF IInv
<1>5. Newest(OutWays) \in Seq(Transfer) /\ Newest(InWays) \in Seq(Transfer)
  BY NewestIsList DEF IInv, IsList
<1>6. LedgerOK'
  <2>1. sentAt' \in {sentAt, Len(ledger)} /\ receivedAt' \in {receivedAt, Len(ledger)}
    BY NextCases DEF Ask, SentAnswered, ReceivedAnswered, AskFails, FetchMetadata, Answer, Mine,
       requestVars, vars
  <2> QED
    BY <1>3, <1>4, <2>1
<1>7. ListOK'
  <2>1. CASE SentAnswered
    BY <1>3, <1>5, <2>1, NoneAssumption DEF SentAnswered, OutWays
  <2>2. CASE ReceivedAnswered
    BY <1>3, <1>5, <2>2, NoneAssumption DEF ReceivedAnswered, InWays
  <2>3. CASE Ask \/ AskFails \/ FetchMetadata \/ Answer \/ Mine \/ UNCHANGED vars
    BY <1>3, <2>3 DEF Ask, AskFails, FetchMetadata, Answer, Mine, requestVars, vars
  <2> QED
    BY <2>1, <2>2, <2>3, NextCases
<1>8. MapOK'
  <2>1. CASE FetchMetadata
    <3> DEFINE asked == TokenContracts(Merged(sent, received))
    <3>1. PICK f \in SUBSET asked :
            /\ known' = [c \in Contracts |->
                            IF c \in asked THEN KnownDecimals(c, c \in f) ELSE None]
            /\ failed' = f
      BY <2>1 DEF FetchMetadata
    <3>2. \A c \in asked : /\ c \in Contracts /\ KnownDecimals(c, TRUE) = 18
                           /\ KnownDecimals(c, FALSE) \in Nat
      <4>1. Merged(sent, received) \in Seq(Transfer)
        BY <2>1, Asked DEF FetchMetadata
      <4> QED
        BY <4>1, TokensAreContracts
    <3> HIDE DEF asked
    <3>3. \A c \in asked : KnownDecimals(c, c \in f) \in Nat
      <4> SUFFICES ASSUME NEW c \in asked PROVE KnownDecimals(c, c \in f) \in Nat
        OBVIOUS
      <4>1. CASE c \in f
        <5>1. KnownDecimals(c, c \in f) = 18
          BY <4>1 DEF KnownDecimals, DefaultDecimals
        <5> QED
          BY <5>1
      <4>2. CASE c \notin f
        <5>1. KnownDecimals(c, c \in f) = KnownDecimals(c, FALSE)
          BY <4>2 DEF KnownDecimals
        <5> QED
          BY <3>2, <5>1
      <4> QED
        BY <4>1, <4>2
    <3>4. known' \in [Contracts -> Nat \cup {None}]
      BY <3>1, <3>3
    <3>5. \A c \in f : c \in Contracts /\ known'[c] = DefaultDecimals
      BY <3>1, <3>2 DEF KnownDecimals
    <3> QED
      BY <3>1, <3>4, <3>5
  <2>2. CASE UNCHANGED <<known, failed>>
    BY <1>3, <2>2
  <2> QED
    BY <2>1, <2>2, NextCases DEF Ask, SentAnswered, ReceivedAnswered, AskFails, Answer, Mine,
       requestVars, vars
<1>9. HashesOK'
  <2>1. CASE Answer
    <3> DEFINE m == Merged(sent, received)  q == sent \o received
    <3>1. sent # None /\ received # None /\ sent \in Seq(Transfer) /\ received \in Seq(Transfer)
      BY <2>1, Asked DEF Answer
    <3>2. answer' = [i \in DOMAIN m |-> Patched(m[i], known)] /\ m \in Seq(Transfer)
      BY <2>1, Asked DEF Answer
    <3>3. \A i \in DOMAIN m : \E k \in DOMAIN q : m[i] = q[k]
      <4>1. \A i \in DOMAIN m : \E k \in Firsts(q) : m[i] = q[k]
        BY <3>1, MergedKeeps
      <4> HIDE DEF m, q
      <4> QED
        BY <4>1 DEF Firsts
    <3>4. \A k \in DOMAIN q : q[k].hash \in 1..Len(ledger)
      BY <3>1, OfAList
    <3> HIDE DEF m, q
    <3>5. Len(answer') = Len(m) /\ DOMAIN m = 1..Len(m)
      BY <3>2, LenProperties
    <3>6. ASSUME NEW i \in 1..Len(answer') PROVE answer'[i].hash \in 1..Len(ledger)
      <4>1. i \in DOMAIN m /\ m[i] \in Transfer /\ answer'[i] = Patched(m[i], known)
        BY <3>2, <3>5, SeqDomain
      <4>2. answer'[i].hash = m[i].hash
        BY <4>1, PatchedKeeps
      <4>3. PICK k \in DOMAIN q : m[i] = q[k]
        BY <3>3, <4>1
      <4> QED
        BY <3>4, <4>2, <4>3
    <3>7. ledger' = ledger
      BY <2>1 DEF Answer
    <3> QED
      BY <3>6, <3>7
  <2>2. CASE UNCHANGED answer
    BY <1>3, <1>4, <2>2
  <2> QED
    BY <2>1, <2>2, NextCases DEF Ask, SentAnswered, ReceivedAnswered, AskFails, FetchMetadata,
       Mine, requestVars, vars
<1> QED
  BY <1>2, <1>6, <1>7, <1>8, <1>9

LEMMA ListsStep == ASSUME IInv, [Next]_vars PROVE ListsOK'
<1>1. /\ Len(ledger) \in Nat /\ sentAt \in 0..Len(ledger) /\ receivedAt \in 0..Len(ledger)
      /\ \A h \in 1..Len(ledger) : ledger'[h] = ledger[h]
  BY LedgerGrows DEF IInv, TypeOK
<1>2. ASSUME UNCHANGED <<sent, sentAt>>, sent # None
      PROVE  IsList(ledger', sent', sentAt', OutWays)
  BY <1>1, <1>2, ListStays DEF IInv, ListsOK
<1>3. ASSUME UNCHANGED <<received, receivedAt>>, received # None
      PROVE  IsList(ledger', received', receivedAt', InWays)
  BY <1>1, <1>3, ListStays DEF IInv, ListsOK
<1>4. CASE SentAnswered
  BY <1>3, <1>4, NewestIsList DEF SentAnswered, ListsOK, OutWays, IInv
<1>5. CASE ReceivedAnswered
  BY <1>2, <1>5, NewestIsList DEF ReceivedAnswered, ListsOK, InWays, IInv
<1>6. CASE UNCHANGED <<sent, sentAt, received, receivedAt>>
  BY <1>2, <1>3, <1>6 DEF ListsOK
<1> QED
  BY <1>4, <1>5, <1>6, NextCases DEF Ask, AskFails, FetchMetadata, Answer, Mine, requestVars, vars

LEMMA KnownStep == ASSUME IInv, [Next]_vars PROVE KnownOK'
<1>1. CASE FetchMetadata
  <2> DEFINE asked == TokenContracts(Merged(sent, received))
  <2>1. PICK f \in SUBSET asked :
          /\ known' = [c \in Contracts |->
                          IF c \in asked THEN KnownDecimals(c, c \in f) ELSE None]
          /\ failed' = f
    BY <1>1 DEF FetchMetadata
  <2>2. \A c \in asked : c \in Contracts
    <3>1. Merged(sent, received) \in Seq(Transfer)
      BY <1>1, Asked DEF FetchMetadata
    <3> QED
      BY <3>1, TokensAreContracts
  <2>3. TokenContracts(Merged(sent, received))' = asked
    BY <1>1 DEF FetchMetadata
  <2> HIDE DEF asked
  <2>4. ASSUME NEW c \in asked, c \notin f PROVE known'[c] = KnownDecimals(c, FALSE)
    BY <2>1, <2>2, <2>4 DEF KnownDecimals
  <2> QED
    BY <2>1, <2>3, <2>4 DEF KnownOK
<1>2. CASE Answer
  BY <1>2 DEF Answer, KnownOK, IInv
<1>3. CASE Ask \/ SentAnswered \/ ReceivedAnswered \/ AskFails
  BY <1>3 DEF Ask, SentAnswered, ReceivedAnswered, AskFails, KnownOK, AnswerOK, TypeOK, IInv
<1>4. CASE UNCHANGED requestVars
  BY <1>4 DEF requestVars, KnownOK, IInv
<1> QED
  BY <1>1, <1>2, <1>3, <1>4, NextCases DEF Mine, vars

LEMMA AnswerStep == ASSUME IInv, [Next]_vars PROVE AnswerOK'
<1>1. CASE Answer
  BY <1>1, Asked DEF Answer, AnswerOK
<1>2. CASE Ask \/ SentAnswered \/ ReceivedAnswered \/ AskFails \/ FetchMetadata
  BY <1>2 DEF Ask, SentAnswered, ReceivedAnswered, AskFails, FetchMetadata, AnswerOK, IInv
<1>3. CASE UNCHANGED requestVars
  BY <1>3 DEF requestVars, AnswerOK, IInv
<1> QED
  BY <1>1, <1>2, <1>3, NextCases DEF Mine, vars

LEMMA IInvInit == Init => IInv
<1> SUFFICES ASSUME Init PROVE IInv
  OBVIOUS
<1>1. ledger = <<>> /\ Len(ledger) = 0 /\ ledger \in Seq([block : Nat, legs : Shapes])
  BY DEF Init
<1>2. TypeOK
  BY <1>1 DEF Init, TypeOK
<1>3. BlocksRise /\ ListsOK /\ KnownOK /\ AnswerOK
  BY <1>1 DEF Init, BlocksRise, ListsOK, KnownOK, AnswerOK
<1> QED
  BY <1>2, <1>3 DEF IInv

-----------------------------------------------------------------------------
(* The invariant above holds in every state of every behaviour.             *)
THEOREM Invariant == Spec => []IInv
<1>1. IInv /\ [Next]_vars => IInv'
  BY TypeOKStep, LedgerGrows, ListsStep, KnownStep, AnswerStep DEF IInv
<1> QED
  BY IInvInit, <1>1, PTL DEF Spec

(* Every variable stays in its range; every hash answered is of the ledger. *)
THEOREM TypeCorrect == Spec => []TypeOK
<1>1. IInv => TypeOK
  BY DEF IInv
<1> QED
  BY Invariant, <1>1, PTL

-----------------------------------------------------------------------------
(* What the answer shows.                                                  *)

LEMMA AnswerIsMerged ==
    ASSUME IInv, Answered, NEW q, q = sent \o received
    PROVE  /\ sent # None /\ received # None
           /\ sent \in Seq(Transfer) /\ received \in Seq(Transfer)
           /\ \A k \in DOMAIN q : \E i \in DOMAIN answer : answer[i].hash = q[k].hash
           /\ \A i \in DOMAIN answer : \E k \in Firsts(q) :
                /\ answer[i] = Patched(q[k], known) /\ k \in DOMAIN q /\ q[k] \in Transfer
                /\ IsToken(q[k].leg) =>
                    q[k].leg.contract \in TokenContracts(Merged(sent, received))
<1> DEFINE m == Merged(sent, received)
<1>1. /\ sent # None /\ received # None
      /\ answer = [i \in DOMAIN m |-> Patched(m[i], known)]
  BY DEF IInv, AnswerOK, Answered
<1>2. sent \in Seq(Transfer) /\ received \in Seq(Transfer)
  BY <1>1 DEF IInv, TypeOK
<1>3. q \in Seq(Transfer)
  BY <1>2, ConcatProperties
<1>4. /\ m \in Seq(Transfer)
      /\ \A i \in DOMAIN m : \E k \in Firsts(q) : m[i] = q[k]
      /\ \A k \in DOMAIN q : \E i \in DOMAIN m : m[i].hash = q[k].hash
  <2>1. /\ m \in Seq(Transfer)
        /\ \A i \in DOMAIN m : \E k \in Firsts(sent \o received) : m[i] = (sent \o received)[k]
        /\ \A k \in DOMAIN (sent \o received) :
             \E i \in DOMAIN m : m[i].hash = (sent \o received)[k].hash
    BY <1>2, MergedKeeps, Zenon
  <2> QED
    BY <2>1
<1>5. TokenContracts(m) = TokenContracts(Merged(sent, received))
  OBVIOUS
<1>6. DOMAIN answer = DOMAIN m /\ \A i \in DOMAIN m : answer[i] = Patched(m[i], known)
  BY <1>1
<1> HIDE DEF m
<1>7. ASSUME NEW k \in DOMAIN q PROVE \E i \in DOMAIN answer : answer[i].hash = q[k].hash
  <2>1. PICK i \in DOMAIN m : m[i].hash = q[k].hash
    BY <1>4
  <2>2. m[i] \in Transfer
    BY <1>4, <2>1, SeqDomain
  <2>3. answer[i].hash = m[i].hash
    BY <1>6, <2>1, <2>2, PatchedKeeps
  <2> QED
    BY <1>6, <2>1, <2>3
<1>8. ASSUME NEW i \in DOMAIN answer
      PROVE  \E k \in Firsts(q) :
                /\ answer[i] = Patched(q[k], known) /\ k \in DOMAIN q /\ q[k] \in Transfer
                /\ IsToken(q[k].leg) => q[k].leg.contract \in TokenContracts(m)
  <2>1. PICK k \in Firsts(q) : m[i] = q[k]
    BY <1>4, <1>6
  <2>2. k \in DOMAIN q
    BY <2>1 DEF Firsts
  <2>3. q[k] \in Transfer
    BY <1>3, <2>2, SeqDomain
  <2>4. IsToken(q[k].leg) => q[k].leg.contract \in TokenContracts(m)
    BY <1>6, <2>1 DEF TokenContracts
  <2> QED
    BY <1>6, <2>1, <2>2, <2>3, <2>4
<1> QED
  BY <1>1, <1>2, <1>5, <1>7, <1>8

LEMMA MaxBounds ==
    ASSUME NEW a \in Nat, NEW b \in Nat, NEW V, V \subseteq {0, a, b}, 0 \in V
    PROVE  Max(V) \in Nat /\ \A v \in V : v <= Max(V)
<1>1. \E x \in V : \A y \in V : x >= y
  <2>1. CASE a \in V /\ b \in V
    BY <2>1
  <2>2. CASE a \in V /\ b \notin V
    BY <2>2
  <2>3. CASE a \notin V
    <3>1. CASE b \in V
      BY <2>3, <3>1
    <3>2. CASE b \notin V
      BY <2>3, <3>2
    <3> QED
      BY <3>1, <3>2
  <2> QED
    BY <2>1, <2>2, <2>3
<1>2. Max(V) \in V /\ \A y \in V : Max(V) >= y
  BY <1>1 DEF Max
<1>3. \A v \in V : v \in Nat
  OBVIOUS
<1>4. ASSUME NEW m, m \in V, \A y \in V : m >= y PROVE m \in Nat /\ \A v \in V : v <= m
  BY <1>3, <1>4
<1> QED
  BY <1>2, <1>4

\* A full list reaches no lower than the cutoff.
LEMMA FullListsReach ==
    ASSUME sent \in Seq(Transfer), received \in Seq(Transfer), NEW s \in {sent, received},
           Len(s) = MaxCount
    PROVE  Cutoff \in Nat /\ s[MaxCount].block \in Nat /\ s[MaxCount].block <= Cutoff
<1> DEFINE Last(t) == IF Len(t) = MaxCount THEN t[Len(t)].block ELSE 0
           cut == {t \in {sent, received} : Len(t) = MaxCount}
           V == {0} \cup {t[Len(t)].block : t \in cut}
<1>1. ASSUME NEW t \in Seq(Transfer) PROVE Last(t) \in Nat
  <2>1. CASE Len(t) = MaxCount
    <3>1. MaxCount \in DOMAIN t
      BY <2>1, CountAssumption, LenProperties
    <3>2. t[MaxCount] \in Transfer
      BY <3>1, SeqDomain
    <3> QED
      BY <2>1, <3>2 DEF Transfer
  <2>2. CASE Len(t) # MaxCount
    BY <2>2
  <2> QED
    BY <2>1, <2>2
<1>2. V \subseteq {0, Last(sent), Last(received)} /\ 0 \in V
  OBVIOUS
<1>3. s[MaxCount].block \in V /\ s[MaxCount].block = Last(s) /\ Last(s) \in Nat
  BY <1>1
<1>4. Cutoff = Max(V)
  BY DEF Cutoff
<1>5. Last(sent) \in Nat /\ Last(received) \in Nat
  BY <1>1
<1> HIDE DEF V, Last, cut
<1>6. Max(V) \in Nat /\ s[MaxCount].block <= Max(V)
  BY <1>2, <1>3, <1>5, MaxBounds
<1> QED
  BY <1>3, <1>4, <1>6

\* What goes one of these ways and was there when the list was asked for is in it,
\* above the cutoff.
LEMMA ListIsComplete ==
    ASSUME IInv, sent \in Seq(Transfer), received \in Seq(Transfer),
           NEW s \in {sent, received}, NEW at \in 0..Len(ledger), NEW ways,
           IsList(ledger, s, at, ways),
           NEW h \in 1..Len(ledger), h <= at, Goes(h, ways), ledger[h].block > Cutoff
    PROVE  \E n \in 1..Len(s) : s[n].hash = h
<1> SUFFICES ASSUME ~ \E n \in 1..Len(s) : s[n].hash = h PROVE FALSE
  OBVIOUS
<1>1. Len(ledger) \in Nat
  BY DEF IInv, TypeOK
<1>2. h \in 1..at
  BY <1>1
<1>3. Len(s) = MaxCount /\ h <= s[MaxCount].hash
  BY <1>2 DEF IsList, Goes
<1>4. MaxCount \in 1..Len(s)
  BY <1>3, CountAssumption
<1> DEFINE l == s[MaxCount]
<1>5. l.hash \in 1..at /\ l.block = ledger[l.hash].block
  BY <1>4 DEF IsList
<1>6. Cutoff \in Nat /\ l.block \in Nat /\ l.block <= Cutoff
  BY <1>3, FullListsReach
<1>7. h <= l.hash
  BY <1>3
<1> HIDE DEF l
<1>8. l.hash \in 1..Len(ledger)
  BY <1>1, <1>5
<1>9. ledger[h].block <= l.block
  BY <1>5, <1>7, <1>8 DEF IInv, BlocksRise
<1>10. ledger[h].block \in Nat
  BY LedgerType DEF IInv
<1> QED
  BY <1>6, <1>9, <1>10

LEMMA CompleteStep == ASSUME IInv PROVE CompleteAboveCutoff
<1> SUFFICES ASSUME Answered, NEW h \in 1..Len(ledger), ledger[h].block > Cutoff,
                    \/ h <= sentAt /\ Goes(h, OutWays)
                    \/ h <= receivedAt /\ Goes(h, InWays)
             PROVE  h \in Shown
  BY DEF CompleteAboveCutoff, OutWays, InWays
<1> DEFINE q == sent \o received
<1>1. /\ sent # None /\ received # None
      /\ sent \in Seq(Transfer) /\ received \in Seq(Transfer)
      /\ \A k \in DOMAIN q : \E i \in DOMAIN answer : answer[i].hash = q[k].hash
  BY AnswerIsMerged
<1>2. /\ DOMAIN q = 1..(Len(sent) + Len(received))
      /\ \A k \in 1..(Len(sent) + Len(received)) :
            q[k] = IF k <= Len(sent) THEN sent[k] ELSE received[k - Len(sent)]
  BY <1>1, ConcatProperties, LenProperties
<1>3. Len(sent) \in Nat /\ Len(received) \in Nat
  BY <1>1, LenProperties
<1>4. /\ sentAt \in 0..Len(ledger) /\ receivedAt \in 0..Len(ledger)
      /\ IsList(ledger, sent, sentAt, OutWays) /\ IsList(ledger, received, receivedAt, InWays)
  BY <1>1 DEF IInv, TypeOK, ListsOK
<1> HIDE DEF q
<1>5. \E k \in DOMAIN q : q[k].hash = h
  <2>1. CASE h <= sentAt /\ Goes(h, OutWays)
    <3>1. PICK n \in 1..Len(sent) : sent[n].hash = h
      BY <1>1, <1>4, <2>1, ListIsComplete
    <3>2. n \in DOMAIN q /\ q[n] = sent[n]
      BY <1>2, <1>3
    <3> QED
      BY <3>1, <3>2
  <2>2. CASE h <= receivedAt /\ Goes(h, InWays)
    <3>1. PICK n \in 1..Len(received) : received[n].hash = h
      BY <1>1, <1>4, <2>2, ListIsComplete
    <3> DEFINE k == Len(sent) + n
    <3>2. k \in DOMAIN q /\ q[k] = received[n]
      <4>1. k \in 1..(Len(sent) + Len(received)) /\ ~(k <= Len(sent)) /\ k - Len(sent) = n
        BY <1>3
      <4> HIDE DEF k
      <4> QED
        BY <1>2, <4>1
    <3> QED
      BY <3>1, <3>2
  <2> QED
    BY <2>1, <2>2
<1> QED
  BY <1>1, <1>5 DEF Shown

(* The history has no hole above the cutoff: what a list leaves out is below *)
(* the end of that list, the merge keeps every hash, and the patch keeps the *)
(* hash.                                                                     *)
THEOREM CompleteHolds == Spec => []CompleteAboveCutoff
<1>1. IInv => CompleteAboveCutoff
  BY CompleteStep
<1> QED
  BY Invariant, <1>1, PTL

LEMMA SpendingStep == ASSUME IInv PROVE SpendingIsShown
<1> SUFFICES ASSUME Answered, NEW i \in DOMAIN answer,
                    NEW j \in DOMAIN sent, sent[j].hash = answer[i].hash
             PROVE  answer[i].leg.way # "in"
  BY DEF SpendingIsShown
<1> DEFINE q == sent \o received
<1>1. /\ sent # None /\ received # None
      /\ sent \in Seq(Transfer) /\ received \in Seq(Transfer)
  BY AnswerIsMerged
<1>2. PICK k \in Firsts(q) : answer[i] = Patched(q[k], known) /\ k \in DOMAIN q /\ q[k] \in Transfer
  BY AnswerIsMerged
<1>3. /\ k \in Nat \ {0}
      /\ \/ k \in 1..Len(sent) /\ q[k].leg.way \in OutWays
         \/ k \in (Len(sent) + 1)..(Len(sent) + Len(received))
  BY <1>1, <1>2, OfAList
<1>4. Len(sent) \in Nat /\ Len(received) \in Nat /\ j \in 1..Len(sent)
  BY <1>1, LenProperties
<1>5. q[j] = sent[j]
  BY <1>1, <1>4, ConcatProperties
<1> HIDE DEF q
<1>6. \A n \in 1..(k - 1) : q[n].hash # q[k].hash
  BY <1>2 DEF Firsts
<1>7. answer[i].hash = q[k].hash /\ answer[i].leg.way = q[k].leg.way
  BY <1>2, PatchedKeeps
<1>8. j \notin 1..(k - 1)
  BY <1>5, <1>6, <1>7
<1>9. k \in 1..Len(sent) /\ q[k].leg.way \in OutWays
  BY <1>3, <1>4, <1>8
<1> QED
  BY <1>7, <1>9 DEF OutWays

(* A transaction that both spends and receives is shown by what it spends:  *)
(* the first transfer of its hash is in the sent list, which comes first.   *)
THEOREM SpendingHolds == Spec => []SpendingIsShown
<1>1. IInv => SpendingIsShown
  BY SpendingStep
<1> QED
  BY Invariant, <1>1, PTL

LEMMA OnceStep == ASSUME IInv PROVE OnceNewestFirst
<1> DEFINE m == Merged(sent, received)
<1>1. SUFFICES ASSUME Answered, NEW i \in DOMAIN answer, NEW j \in DOMAIN answer, i < j
               PROVE  answer[i].hash # answer[j].hash /\ answer[i].block >= answer[j].block
  BY DEF OnceNewestFirst
<1>2. sent \in Seq(Transfer) /\ received \in Seq(Transfer)
  BY <1>1 DEF IInv, TypeOK, AnswerOK, Answered
<1>3. answer = [n \in DOMAIN m |-> Patched(m[n], known)]
  BY <1>1 DEF IInv, AnswerOK, Answered
<1>4. /\ m \in Seq(Transfer)
      /\ \A k, l \in DOMAIN m : k < l => m[k].hash # m[l].hash /\ m[k].block >= m[l].block
  BY <1>2, MergedKeeps
<1> HIDE DEF m
<1>5. i \in DOMAIN m /\ j \in DOMAIN m
  BY <1>1, <1>3
<1>6. \A n \in DOMAIN m :
        answer[n].hash = m[n].hash /\ answer[n].block = m[n].block
  BY <1>3, <1>4, SeqDomain, PatchedKeeps
<1> QED
  BY <1>1, <1>4, <1>5, <1>6

(* A history shows no transaction twice and the newest first, for lists of   *)
(* any length.                                                               *)
THEOREM OnceHolds == Spec => []OnceNewestFirst
<1>1. IInv => OnceNewestFirst
  BY OnceStep
<1> QED
  BY Invariant, <1>1, PTL

LEMMA ShownOnItsScale ==
    ASSUME IInv, Answered, NEW i \in DOMAIN answer, IsToken(answer[i].leg),
           NEW c, c = answer[i].leg.contract,
           c \notin failed, Metadata[c] \notin {None, 0}
    PROVE  answer[i].leg.decimal = Metadata[c]
<1> DEFINE q == sent \o received
<1>1. sent # None /\ received # None
  BY AnswerIsMerged
<1>2. PICK k \in Firsts(q) :
        /\ answer[i] = Patched(q[k], known) /\ k \in DOMAIN q /\ q[k] \in Transfer
        /\ IsToken(q[k].leg) => q[k].leg.contract \in TokenContracts(Merged(sent, received))
  BY AnswerIsMerged
<1> DEFINE t == q[k]
<1>3. \E legs \in Shapes : \E n \in DOMAIN legs : t.leg = legs[n]
  BY <1>1, <1>2, OfAList
<1>4. t \in Transfer /\ answer[i] = Patched(t, known)
      /\ (IsToken(t.leg) => t.leg.contract \in TokenContracts(Merged(sent, received)))
  BY <1>2
<1> HIDE DEF q, t
<1>5. /\ IsToken(t.leg) /\ t.leg.contract = c
      /\ answer[i].leg.decimal = Decimals(t.leg, known)
  BY <1>4, PatchedKeeps DEF IsToken
<1>6. known[c] = Metadata[c]
  <2>1. known[c] = KnownDecimals(c, FALSE)
    BY <1>4, <1>5 DEF IInv, KnownOK, Answered
  <2> QED
    BY <2>1 DEF KnownDecimals
<1>7. t.leg.decimal # None => Metadata[c] = t.leg.decimal
  BY <1>3, <1>5, DecimalsAssumption
<1> QED
  BY <1>5, <1>6, <1>7 DEF Decimals

(* Two transfers of one token are shown on one scale: the token's, if the    *)
(* lookup did not fail and knows it.                                         *)
THEOREM ScaleHolds == Spec => []SameTokenSameScale
<1>1. IInv => SameTokenSameScale
  BY ShownOnItsScale DEF SameTokenSameScale
<1> QED
  BY Invariant, <1>1, PTL
=============================================================================

------------------------- MODULE TransactionHistory -------------------------
(***************************************************************************)
(* A wallet's history (transaction-history.service.ts): the newest sent and*)
(* the newest received transfers are asked for side by side, while the     *)
(* chain grows; they are merged, one per transaction, newest first, and    *)
(* every ERC-20 transfer gets the decimals of its token.                   *)
(*                                                                         *)
(* A transaction is a sequence of transfers of the wallet, its legs; its   *)
(* hash is its position in the ledger.                                     *)
(***************************************************************************)
EXTENDS Naturals, Sequences, FiniteSetsExt

CONSTANTS
    Contracts,   \* token contracts
    None,
    Metadata,    \* [Contracts -> Nat \cup {None}]: decimals getTokenMetadata knows
    Shapes,      \* transactions of the wallet: sequences of legs
    MaxCount,    \* ALCHEMY_HISTORY_RECORD_COUNT
    MaxTxs       \* bound on transactions

DefaultDecimals == 18
Legs == [way : {"out", "in", "self"},
         category : {"external", "erc20", "erc721"},
         contract : Contracts \cup {None},   \* rawContract.address
         decimal : Nat \cup {None}]          \* rawContract.decimal

IsToken(leg) == leg.category = "erc20" /\ leg.contract # None

ASSUME CountAssumption == MaxCount \in Nat \ {0} /\ MaxTxs \in Nat
ASSUME ShapesAssumption == Shapes \subseteq Seq(Legs) \ {<<>>}
ASSUME MetadataAssumption == Metadata \in [Contracts -> Nat \cup {None}]
\* The decimals a transfer comes with and those of getTokenMetadata are its contract's.
ASSUME DecimalsAssumption ==
    \A legs \in Shapes : \A i \in DOMAIN legs : IsToken(legs[i]) /\ legs[i].decimal # None =>
        Metadata[legs[i].contract] \in {legs[i].decimal, None}

VARIABLES
    ledger,   \* the wallet's transactions: [block, legs]
    pc,       \* where the request stands
    sent, received,       \* what getAssetTransfers answered, None before
    sentAt, receivedAt,   \* history: how much of the ledger it saw
    known,    \* metadataMap: decimals by contract
    failed,   \* history: contracts whose metadata could not be had
    answer    \* the transfers answered, None before

requestVars == <<pc, sent, received, sentAt, receivedAt, known, failed, answer>>
vars == <<ledger, requestVars>>

Transfer == [hash : Nat, block : Nat, leg : Legs]

ASSUME NoneAssumption == None \notin Seq(Transfer) \cup Nat

TypeOK ==
    /\ ledger \in Seq([block : Nat, legs : Shapes])
    /\ pc \in {"idle", "ask", "metadata", "patch", "done"}
    /\ sent \in Seq(Transfer) \cup {None} /\ received \in Seq(Transfer) \cup {None}
    /\ sentAt \in 0..Len(ledger) /\ receivedAt \in 0..Len(ledger)
    /\ known \in [Contracts -> Nat \cup {None}]
    /\ failed \subseteq {c \in Contracts : known[c] = DefaultDecimals}
    /\ pc \in {"metadata", "patch"} => sent # None /\ received # None
    /\ answer # None => \A i \in 1..Len(answer) : answer[i].hash \in 1..Len(ledger)

Init ==
    /\ ledger = <<>> /\ pc = "idle"
    /\ sent = None /\ received = None /\ sentAt = 0 /\ receivedAt = 0
    /\ known = [c \in Contracts |-> None] /\ failed = {} /\ answer = None

-----------------------------------------------------------------------------
(* The chain and Alchemy's index of it.                                    *)

Height == IF ledger = <<>> THEN 1 ELSE ledger[Len(ledger)].block

Mine ==
    /\ Len(ledger) < MaxTxs
    /\ \E legs \in Shapes, b \in {Height, Height + 1} :
          ledger' = Append(ledger, [block |-> b, legs |-> legs])
    /\ UNCHANGED requestVars

\* The elements of S one after another, as a total order on them has it.
InOrder(S, order) ==
    [n \in 1..Cardinality(S) |->
        CHOOSE x \in S : Cardinality({y \in S : <<y, x>> \in order}) = n - 1]

\* A transfer is a leg of a transaction.  Newest first: SortingOrder.DESCENDING.
Places == UNION {{h} \X DOMAIN ledger[h].legs : h \in DOMAIN ledger}
NewestFirst(P) ==
    {pq \in P \X P : \/ pq[1][1] > pq[2][1]
                     \/ pq[1][1] = pq[2][1] /\ pq[1][2] > pq[2][2]}
TransferAt(p) ==
    [hash |-> p[1], block |-> ledger[p[1]].block, leg |-> ledger[p[1]].legs[p[2]]]

\* getAssetTransfers: the first maxCount transfers that go one of these ways.
Newest(ways) ==
    LET going == {p \in Places : ledger[p[1]].legs[p[2]].way \in ways}
        order == InOrder(going, NewestFirst(going))
    IN  [n \in 1..Min({MaxCount, Cardinality(going)}) |-> TransferAt(order[n])]

-----------------------------------------------------------------------------
(* The merge.                                                              *)

\* The first transfer of each hash.
Firsts(s) == {i \in DOMAIN s : \A j \in 1..(i - 1) : s[j].hash # s[i].hash}
Ascending(I) == {ij \in I \X I : ij[1] < ij[2]}
FirstOfHash(s) ==
    LET order == InOrder(Firsts(s), Ascending(Firsts(s)))
    IN  [n \in DOMAIN order |-> s[order[n]]]

\* Descending by block; sort is stable.
Before(s) ==
    LET Above(i, j) == s[i].block > s[j].block \/ (s[i].block = s[j].block /\ i < j)
    IN  {ij \in (DOMAIN s) \X (DOMAIN s) : Above(ij[1], ij[2])}
ByBlock(s) ==
    LET order == InOrder(DOMAIN s, Before(s))
    IN  [n \in DOMAIN order |-> s[order[n]]]

\* Mutants: received before sent; cut to maxCount before the sort.
MergedReceivedFirst(s, r) == ByBlock(FirstOfHash(r \o s))
MergedCut(s, r) ==
    LET all == FirstOfHash(s \o r)
    IN  ByBlock(SubSeq(all, 1, Min({MaxCount, Len(all)})))
\* Mutant: each list is filtered, not the two together.
MergedFilteredApart(s, r) == ByBlock(FirstOfHash(s) \o FirstOfHash(r))

Merged(s, r) == ByBlock(FirstOfHash(s \o r))

TokenContracts(s) == {s[i].leg.contract : i \in {j \in DOMAIN s : IsToken(s[j].leg)}}

\* Mutant: a lookup that failed leaves zero.
KnownOrZero(c, fails) ==
    IF fails THEN 0 ELSE IF Metadata[c] = None THEN DefaultDecimals ELSE Metadata[c]

\* getTokenMetadata: decimals ?? 18, and 18 when the call fails.
KnownDecimals(c, fails) ==
    IF fails \/ Metadata[c] = None THEN DefaultDecimals ELSE Metadata[c]

\* Mutant: the map is read by the address as it came, not in lower case.
DecimalsMissed(leg, map) == IF leg.decimal # None THEN leg.decimal ELSE DefaultDecimals

\* rawContract.decimal || meta.decimals || 18: the first is a string, for which
\* "0x0" counts, and the second a number, for which 0 does not.
Decimals(leg, map) ==
    IF leg.decimal # None THEN leg.decimal
    ELSE IF map[leg.contract] # 0 THEN map[leg.contract] ELSE DefaultDecimals

\* Native transfers have 18; others keep what they came with.
Patched(t, map) ==
    LET d == IF IsToken(t.leg) THEN Decimals(t.leg, map)
             ELSE IF t.leg.category = "external" THEN DefaultDecimals ELSE t.leg.decimal
    IN  [t EXCEPT !.leg.decimal = d]

-----------------------------------------------------------------------------
Ask ==
    /\ pc = "idle"
    /\ pc' = "ask"
    /\ UNCHANGED <<ledger, sent, received, sentAt, receivedAt, known, failed, answer>>

SentAnswered ==
    /\ pc = "ask" /\ sent = None
    /\ sent' = Newest({"out", "self"}) /\ sentAt' = Len(ledger)
    /\ pc' = IF received # None THEN "metadata" ELSE pc
    /\ UNCHANGED <<ledger, received, receivedAt, known, failed, answer>>

ReceivedAnswered ==
    /\ pc = "ask" /\ received = None
    /\ received' = Newest({"in", "self"}) /\ receivedAt' = Len(ledger)
    /\ pc' = IF sent # None THEN "metadata" ELSE pc
    /\ UNCHANGED <<ledger, sent, sentAt, known, failed, answer>>

\* One of the two rejects, and nobody catches it: 500.
AskFails ==
    /\ pc = "ask"
    /\ pc' = "done"
    /\ UNCHANGED <<ledger, sent, received, sentAt, receivedAt, known, failed, answer>>

\* await Promise.all of getTokenMetadata, which never rejects.
FetchMetadata ==
    /\ pc = "metadata"
    /\ LET asked == TokenContracts(Merged(sent, received)) IN
        \E f \in SUBSET asked :
            /\ known' = [c \in Contracts |->
                            IF c \in asked THEN KnownDecimals(c, c \in f) ELSE None]
            /\ failed' = f
    /\ pc' = "patch"
    /\ UNCHANGED <<ledger, sent, received, sentAt, receivedAt, answer>>

Answer ==
    /\ pc = "patch"
    /\ LET combined == Merged(sent, received) IN
        answer' = [i \in DOMAIN combined |-> Patched(combined[i], known)]
    /\ pc' = "done"
    /\ UNCHANGED <<ledger, sent, received, sentAt, receivedAt, known, failed>>

\* The request is over.
Idle == pc = "done" /\ UNCHANGED vars

Next ==
    \/ Mine
    \/ Ask \/ SentAnswered \/ ReceivedAnswered \/ AskFails
    \/ FetchMetadata \/ Answer
    \/ Idle

Spec == Init /\ [][Next]_vars

-----------------------------------------------------------------------------
Answered == answer # None
Shown == {answer[i].hash : i \in DOMAIN answer}
Goes(h, ways) == \E i \in DOMAIN ledger[h].legs : ledger[h].legs[i].way \in ways

\* Lists that were cut off end in this block or above.
Cutoff ==
    LET cut == {s \in {sent, received} : Len(s) = MaxCount}
    IN  Max({0} \cup {s[Len(s)].block : s \in cut})

(* The history has no hole above the block where the shorter-reaching list *)
(* ends: every transaction there that its query could see is shown, though *)
(* the lists end at different heights and were read at different times.    *)
CompleteAboveCutoff ==
    Answered => \A h \in 1..Len(ledger) :
        /\ ledger[h].block > Cutoff
        /\ (h <= sentAt /\ Goes(h, {"out", "self"})) \/ (h <= receivedAt /\ Goes(h, {"in", "self"}))
        => h \in Shown

(* A transaction that both spends and receives, such as a swap, is shown by *)
(* what it spends: line 116 keeps the first of a hash, and sent come first. *)
SpendingIsShown ==
    Answered => \A i \in DOMAIN answer :
        (\E j \in DOMAIN sent : sent[j].hash = answer[i].hash) => answer[i].leg.way # "in"

(* A history shows a transaction once and the newest first, though it is   *)
(* put together from two lists of transfers of different times that share  *)
(* transactions, and one list has several transfers of one (115-121).      *)
OnceNewestFirst ==
    Answered => \A i, j \in DOMAIN answer : i < j =>
        answer[i].hash # answer[j].hash /\ answer[i].block >= answer[j].block

(* Two transfers of one token are shown on the same scale, whether or not  *)
(* they came with decimals of their own, unless the lookup failed, knows no *)
(* decimals, or says zero.                                                  *)
SameTokenSameScale ==
    Answered => \A i, j \in DOMAIN answer :
        LET a == answer[i].leg  b == answer[j].leg IN
        IsToken(a) /\ IsToken(b) /\ a.contract = b.contract =>
            \/ a.decimal = b.decimal
            \/ a.contract \in failed \/ Metadata[a.contract] \in {None, 0}
=============================================================================

--------------------------- MODULE DeploymentProofs ---------------------------
(***************************************************************************)
(* Theorems about what surrounds the services: the parameters of a         *)
(* deployment (SsmParameters) and the process that is started with them    *)
(* (Server).                                                               *)
(*                                                                         *)
(* For any file, any number of starts and runs: type correctness, what a   *)
(* second put needs, and what it takes to tear the environment of a        *)
(* container.  A run that is still going has had no put accepted, so a put *)
(* adds a new run to the writers of every start that is fetching.  While   *)
(* there is one writer, the store differs in one key from the state the    *)
(* listing saw.                                                            *)
(*                                                                         *)
(* For any requests, devices and number of failures: type correctness, that*)
(* the verdict on a device was true at some time, and that no request but a*)
(* Moralis webhook ends the process.                                       *)
(***************************************************************************)
EXTENDS SsmParameters, Server, SequenceTheorems, TLAPS

Going == script # "ended"

LineOK == /\ script = "put" => line \in 1..Len(file) /\ file[line].key # None
          /\ Going => file \in Files /\ runs \in 1..MaxRuns

CountsOK ==
    /\ Going => success = 0
    /\ script = "line" /\ tried = <<>> => failed = 0
    /\ script = "put" /\ tried = <<>> => failed = 0 \/ ~Valid(file[line])
    /\ Going /\ tried # <<>> => ~Valid(tried[1])

WritersOK ==
    \A c \in Containers :
        /\ writers[c] \subseteq 1..runs
        /\ Going => runs \notin writers[c]
        /\ todo[c] \subseteq listed[c]
        /\ start[c] = "created" => writers[c] = {}

AgreesWith(c, s) == \A k \in Got(c) : env[c][k] = s[k]

\* What a start that is fetching has got, while at most one run wrote.
OneKeyApart(c) ==
    \E s \in seen[c] : \E k \in Keys \cup {None} :
        /\ \A j \in Keys \ {k} : s[j] = store[j]
        /\ AgreesWith(c, s) \/ AgreesWith(c, store)

FetchOK ==
    \A c \in Fetching :
        /\ store \in seen[c]
        /\ writers[c] = {} => AgreesWith(c, store)
        /\ OneWriter(c) => OneKeyApart(c)

IInv ==
    /\ TypeOK
    /\ LineOK
    /\ CountsOK
    /\ SecondPutNeedsInvalidFirst
    /\ WritersOK
    /\ FetchOK
    /\ TornNeedsTwoRuns

-----------------------------------------------------------------------------
LEMMA InvInit == Init => IInv
<1> SUFFICES ASSUME Init PROVE IInv
  OBVIOUS
<1>1. TypeOK
  BY RunsAssumption DEF Init, TypeOK, Store, Value
<1>2. LineOK /\ CountsOK /\ SecondPutNeedsInvalidFirst
  BY RunsAssumption DEF Init, LineOK, CountsOK, SecondPutNeedsInvalidFirst, Going
<1>3. WritersOK
  BY DEF Init, WritersOK, Going
<1>4. FetchOK /\ TornNeedsTwoRuns
  BY DEF Init, FetchOK, TornNeedsTwoRuns, Fetching
<1> QED
  BY <1>1, <1>2, <1>3, <1>4 DEF IInv

(* A line of a file, as the loop reads it.                                 *)
LEMMA LineType ==
    ASSUME TypeOK, LineOK, Going, line <= Len(file)
    PROVE  /\ file \in Seq(Line) /\ Len(file) \in Nat /\ line \in 1..Len(file)
           /\ file[line] \in Line
<1>1. file \in Seq(Line)
  BY FilesAssumption DEF LineOK
<1>2. Len(file) \in Nat /\ line \in 1..Len(file)
  BY <1>1 DEF TypeOK
<1> QED
  BY <1>1, <1>2, ElementOfSeq

(* What the file, the counts and the list of puts become.                  *)
LEMMA PublishNext ==
    ASSUME IInv, Publish
    PROVE  TypeOK' /\ LineOK' /\ CountsOK' /\ SecondPutNeedsInvalidFirst'
<1> USE RunsAssumption, KeysAssumption
<1> USE DEF IInv
<1>1. CASE Run
  <2>1. TypeOK'
    <3>1. Len(file') \in Nat
      BY <1>1, FilesAssumption DEF Run
    <3> QED
      BY <1>1, <3>1 DEF Run, TypeOK, startVars
  <2>2. LineOK' /\ CountsOK' /\ SecondPutNeedsInvalidFirst'
    BY <1>1 DEF Run, TypeOK, LineOK, CountsOK, SecondPutNeedsInvalidFirst, Going
  <2> QED
    BY <2>1, <2>2
<1>2. CASE SkipBlank
  <2>1. line \in 1..Len(file) /\ Len(file) \in Nat
    BY <1>2, LineType DEF SkipBlank, Going
  <2>2. TypeOK'
    BY <1>2, <2>1 DEF SkipBlank, TypeOK, startVars
  <2>3. LineOK' /\ CountsOK' /\ SecondPutNeedsInvalidFirst'
    BY <1>2 DEF SkipBlank, LineOK, CountsOK, SecondPutNeedsInvalidFirst, Going
  <2> QED
    BY <2>2, <2>3
<1>3. CASE InvalidType
  <2>1. line \in 1..Len(file) /\ Len(file) \in Nat
    BY <1>3, LineType DEF InvalidType, Going
  <2>2. failed \in Nat /\ (Survives(failed) => failed # 0)
    BY DEF TypeOK, Survives
  <2>3. CASE Survives(failed)
    <3>1. TypeOK'
      BY <1>3, <2>1, <2>2, <2>3 DEF InvalidType, TypeOK, startVars
    <3>2. LineOK' /\ CountsOK' /\ SecondPutNeedsInvalidFirst'
      BY <1>3, <2>2, <2>3
         DEF InvalidType, LineOK, CountsOK, SecondPutNeedsInvalidFirst, Going
    <3> QED
      BY <3>1, <3>2
  <2>4. CASE ~Survives(failed)
    <3>1. TypeOK'
      BY <1>3, <2>1, <2>2, <2>4 DEF InvalidType, TypeOK, startVars
    <3>2. LineOK' /\ CountsOK' /\ SecondPutNeedsInvalidFirst'
      BY <1>3, <2>1, <2>4
         DEF InvalidType, LineOK, CountsOK, SecondPutNeedsInvalidFirst, Going
    <3> QED
      BY <3>1, <3>2
  <2> QED
    BY <2>3, <2>4
<1>4. CASE Describe
  <2>1. line \in 1..Len(file) /\ Len(file) \in Nat
    BY <1>4, LineType DEF Describe, Going
  <2>2. TypeOK'
    BY <1>4, <2>1 DEF Describe, TypeOK, startVars
  <2>3. LineOK' /\ CountsOK' /\ SecondPutNeedsInvalidFirst'
    BY <1>4, <2>1 DEF Describe, LineOK, CountsOK, SecondPutNeedsInvalidFirst, Going
  <2> QED
    BY <2>2, <2>3
<1>5. ASSUME script = "put", NEW n \in Nat, Continue(n), tried' = Append(tried, file[line]),
             UNCHANGED <<runs, file>>
      PROVE  /\ line' \in 1..(Len(file) + 1) /\ script' \in {"ended", "line"}
             /\ (script' = "line" <=> n > 0)
             /\ tried' \in Seq(Line) /\ Len(tried') = Len(tried) + 1
             /\ tried' # <<>>
             /\ Len(tried) > 0 => tried'[1] = tried[1]
             /\ tried = <<>> => tried'[1] = file[line]
  <2>1. line \in 1..Len(file) /\ Len(file) \in Nat /\ file[line] \in Line
    BY <1>5, LineType DEF LineOK, Going
  <2>2. tried \in Seq(Line) /\ Len(tried) \in Nat
    BY DEF TypeOK
  <2>3. /\ tried' \in Seq(Line) /\ Len(tried') = Len(tried) + 1
        /\ \A i \in 1..Len(tried) : tried'[i] = tried[i]
        /\ tried'[Len(tried) + 1] = file[line]
    BY <1>5, <2>1, <2>2, AppendProperties
  <2>4. line' \in 1..(Len(file) + 1) /\ script' \in {"ended", "line"} /\ (script' = "line" <=> n > 0)
    BY <1>5, <2>1 DEF Continue, Survives
  <2>5. Len(tried) > 0 => tried'[1] = tried[1]
    BY <2>2, <2>3
  <2>6. tried = <<>> => tried'[1] = file[line]
    BY <2>3
  <2>7. tried' # <<>>
    BY <2>2, <2>3
  <2> QED
    BY <2>3, <2>4, <2>5, <2>6, <2>7
<1>6. CASE PutAccepted
  <2>1. success = 0 /\ script = "put" /\ Valid(file[line])
    BY <1>6 DEF PutAccepted, CountsOK, Going
  <2>2. /\ line' \in 1..(Len(file) + 1) /\ script' = "ended"
        /\ tried' \in Seq(Line) /\ Len(tried') = Len(tried) + 1 /\ tried' # <<>>
        /\ Len(tried) > 0 => tried'[1] = tried[1]
    <3> HIDE DEF IInv
    <3>1. Continue(0) /\ tried' = Append(tried, file[line]) /\ UNCHANGED <<runs, file>>
      BY <1>6, <2>1 DEF PutAccepted
    <3> QED
      BY <1>5, <2>1, <3>1
  <2>3. line \in 1..Len(file) /\ file[line] \in Line /\ file[line].key \in Keys
    <3>1. line \in 1..Len(file) /\ file[line].key # None
      BY <2>1 DEF LineOK
    <3>2. file \in Seq(Line)
      BY <2>1, FilesAssumption DEF LineOK, Going
    <3>3. file[line] \in Line
      BY <3>1, <3>2, ElementOfSeq
    <3> QED
      BY <3>1, <3>3 DEF Line
  <2>4. runs \in Value
    BY DEF TypeOK, Value
  <2>5. store' \in Store
    BY <1>6, <2>3, <2>4 DEF PutAccepted, TypeOK, Store
  <2>6. runs \in 1..MaxRuns => writers' \in [Containers -> SUBSET (1..MaxRuns)]
    BY <1>6 DEF PutAccepted, TypeOK
  <2>7. seen' \in [Containers -> SUBSET Store]
    BY <1>6, <2>5 DEF PutAccepted, TypeOK
  <2>8. runs \in 1..MaxRuns
    BY <2>1 DEF TypeOK, LineOK, Going
  <2>9. TypeOK'
    <3>1. success' = 1 /\ success' + refusals' = Len(tried')
      BY <1>6, <2>1, <2>2 DEF PutAccepted, TypeOK
    <3> QED
      BY <1>6, <2>2, <2>5, <2>6, <2>7, <2>8, <3>1 DEF PutAccepted, TypeOK
  <2>10. LineOK' /\ CountsOK'
    BY <2>2 DEF LineOK, CountsOK, Going
  <2>11. SecondPutNeedsInvalidFirst'
    <3>1. Len(tried) > 0 => ~Valid(tried[1])
      BY <2>1 DEF CountsOK, Going
    <3> QED
      BY <2>2, <3>1 DEF SecondPutNeedsInvalidFirst, TypeOK, Valid
  <2> QED
    BY <2>9, <2>10, <2>11
<1>7. CASE PutRefused
  <2>1. script = "put" /\ failed \in Nat /\ refusals \in Nat /\ Len(tried) \in Nat
    BY <1>7 DEF PutRefused, TypeOK
  <2>2. /\ line' \in 1..(Len(file) + 1) /\ script' \in {"ended", "line"}
        /\ (script' = "line" <=> failed > 0)
        /\ tried' \in Seq(Line) /\ Len(tried') = Len(tried) + 1 /\ tried' # <<>>
        /\ Len(tried) > 0 => tried'[1] = tried[1]
        /\ tried = <<>> => tried'[1] = file[line]
    <3> HIDE DEF IInv
    <3>1. Continue(failed) /\ tried' = Append(tried, file[line]) /\ UNCHANGED <<runs, file>>
      BY <1>7 DEF PutRefused
    <3> QED
      BY <1>5, <2>1, <3>1
  <2>3. TypeOK'
    BY <1>7, <2>1, <2>2 DEF PutRefused, TypeOK, startVars
  <2>4. LineOK'
    BY <1>7, <2>1, <2>2 DEF PutRefused, LineOK, Going
  <2>5. script' = "line" => ~Valid(tried'[1])
    <3>1. CASE tried = <<>>
      BY <2>1, <2>2, <3>1 DEF CountsOK
    <3>2. CASE tried # <<>>
      <4>1. Len(tried) > 0
        BY <3>2 DEF TypeOK
      <4> QED
        BY <4>1, <3>2, <2>1, <2>2 DEF CountsOK, Going
    <3> QED
      BY <3>1, <3>2
  <2>6. CountsOK'
    BY <1>7, <2>1, <2>2, <2>5 DEF PutRefused, CountsOK, Going, Valid
  <2>7. SecondPutNeedsInvalidFirst'
    <3>1. Len(tried) > 0 => ~Valid(tried[1])
      BY <2>1 DEF CountsOK, Going
    <3> QED
      BY <2>1, <2>2, <3>1 DEF SecondPutNeedsInvalidFirst, Valid
  <2> QED
    BY <2>3, <2>4, <2>6, <2>7
<1>8. CASE Summary
  <2>1. TypeOK'
    BY <1>8 DEF Summary, TypeOK, startVars
  <2>2. LineOK' /\ CountsOK' /\ SecondPutNeedsInvalidFirst'
    BY <1>8 DEF Summary, LineOK, CountsOK, SecondPutNeedsInvalidFirst, Going
  <2> QED
    BY <2>1, <2>2
<1> QED
  BY <1>1, <1>2, <1>3, <1>4, <1>6, <1>7, <1>8 DEF Publish

-----------------------------------------------------------------------------
(* Who wrote, and what the starts have read.                               *)
LEMMA StoreType ==
    ASSUME IInv, PutAccepted
    PROVE  /\ file[line].key \in Keys /\ success = 0 /\ Going /\ ~Going'
           /\ \A j \in Keys \ {file[line].key} : store'[j] = store[j]
           /\ \A c \in Containers : runs \notin writers[c]
<1>1. script = "put" /\ success = 0
  BY DEF PutAccepted, IInv, CountsOK, Going
<1>2. file \in Seq(Line) /\ line \in 1..Len(file) /\ file[line].key # None
  BY <1>1, FilesAssumption DEF IInv, LineOK, Going
<1>3. file[line] \in Line
  BY <1>2, ElementOfSeq
<1>4. file[line].key \in Keys
  BY <1>2, <1>3 DEF Line
<1>5. script' = "ended"
  BY <1>1 DEF PutAccepted, Continue, Survives
<1>6. \A j \in Keys \ {file[line].key} : store'[j] = store[j]
  BY DEF PutAccepted, IInv, TypeOK, Store
<1> QED
  BY <1>1, <1>4, <1>5, <1>6 DEF Going, IInv, WritersOK

\* A step that leaves the store and the starts alone.
LEMMA StartsSame ==
    ASSUME IInv, UNCHANGED <<store, startVars>>, runs' \in {runs, runs + 1},
           Going' => Going \/ runs' = runs + 1, Going => runs' = runs
    PROVE  WritersOK' /\ FetchOK' /\ TornNeedsTwoRuns'
<1>1. UNCHANGED <<store, start, todo, env, listed, missed, seen, writers>>
  BY DEF startVars
<1>2. WritersOK'
  <2>1. runs \in Nat
    BY DEF IInv, TypeOK
  <2> SUFFICES ASSUME NEW c \in Containers
               PROVE  /\ writers'[c] \subseteq 1..runs'
                      /\ Going' => runs' \notin writers'[c]
                      /\ todo'[c] \subseteq listed'[c]
                      /\ start'[c] = "created" => writers'[c] = {}
    BY DEF WritersOK
  <2>2. /\ writers[c] \subseteq 1..runs
        /\ Going => runs \notin writers[c]
        /\ todo[c] \subseteq listed[c]
        /\ start[c] = "created" => writers[c] = {}
    BY DEF IInv, WritersOK
  <2>3. writers[c] \subseteq 1..(runs + 1) /\ runs + 1 \notin writers[c]
    BY <2>1, <2>2
  <2> QED
    BY <1>1, <2>2, <2>3
<1>3. FetchOK' /\ TornNeedsTwoRuns'
  BY <1>1 DEF IInv, FetchOK, TornNeedsTwoRuns, Fetching, OneWriter, OneKeyApart, AgreesWith, Got
<1> QED
  BY <1>2, <1>3

LEMMA PutStarts ==
    ASSUME IInv, PutAccepted
    PROVE  WritersOK' /\ FetchOK' /\ TornNeedsTwoRuns'
<1> DEFINE kk == file[line].key
<1>1. /\ kk \in Keys /\ ~Going'
      /\ \A j \in Keys \ {kk} : store'[j] = store[j]
      /\ \A c \in Containers : runs \notin writers[c]
  BY StoreType
<1>2. UNCHANGED <<runs, start, todo, env, listed, missed>>
  BY DEF PutAccepted
<1>3. \A c \in Containers :
        /\ c \in Fetching => seen'[c] = seen[c] \cup {store'} /\ writers'[c] = writers[c] \cup {runs}
        /\ c \notin Fetching => seen'[c] = seen[c] /\ writers'[c] = writers[c]
  BY DEF PutAccepted
<1>4. runs \in 1..MaxRuns
  BY StoreType DEF IInv, LineOK
<1>5. WritersOK'
  <2>1. \A c \in Containers : writers'[c] \subseteq 1..runs
    BY <1>3, <1>4, RunsAssumption DEF IInv, WritersOK
  <2>2. \A c \in Containers : todo'[c] \subseteq listed'[c]
                               /\ (start'[c] = "created" => writers'[c] = {})
    BY <1>2, <1>3 DEF IInv, WritersOK, Fetching
  <2> QED
    BY <1>1, <1>2, <2>1, <2>2 DEF WritersOK
<1>6. ASSUME NEW c \in Fetching, OneWriter(c)'
      PROVE  /\ store \in seen'[c] /\ AgreesWith(c, store)
             /\ writers'[c] # {}
  <2>1. c \in Containers /\ writers'[c] = writers[c] \cup {runs} /\ runs \notin writers[c]
        /\ seen'[c] = seen[c] \cup {store'}
    BY <1>1, <1>3 DEF Fetching
  <2>2. writers[c] = {}
    BY <1>6, <2>1 DEF OneWriter
  <2> QED
    BY <2>1, <2>2 DEF IInv, FetchOK
<1>7. FetchOK'
  <2> SUFFICES ASSUME NEW c \in Fetching'
               PROVE  /\ store' \in seen'[c]
                      /\ writers'[c] = {} => AgreesWith(c, store)'
                      /\ OneWriter(c)' => OneKeyApart(c)'
    BY DEF FetchOK
  <2>1. c \in Fetching /\ c \in Containers
    BY <1>2 DEF Fetching
  <2>2. store' \in seen'[c] /\ writers'[c] # {}
    BY <2>1, <1>3
  <2>3. ASSUME OneWriter(c)' PROVE OneKeyApart(c)'
    <3>1. store \in seen'[c] /\ AgreesWith(c, store)
      BY <1>6, <2>1, <2>3
    <3>2. \A k \in Got(c)' : env'[c][k] = store[k]
      BY <3>1, <1>2 DEF AgreesWith, Got
    <3>3. \A j \in Keys \ {kk} : store[j] = store'[j]
      BY <1>1
    <3> QED
      BY <1>1, <3>1, <3>2, <3>3 DEF OneKeyApart, AgreesWith
  <2> QED
    BY <2>2, <2>3
<1>8. TornNeedsTwoRuns'
  <2> SUFFICES ASSUME NEW c \in Containers, start'[c] # "created", OneWriter(c)'
               PROVE  \E s \in seen'[c] : \A k \in Got(c)' : env'[c][k] = s[k]
    BY DEF TornNeedsTwoRuns
  <2>1. Got(c)' = Got(c)
    BY <1>2 DEF Got
  <2>2. CASE c \in Fetching
    <3>1. store \in seen'[c] /\ AgreesWith(c, store)
      BY <1>6, <2>2
    <3> QED
      BY <3>1, <2>1, <1>2 DEF AgreesWith
  <2>3. CASE c \notin Fetching
    <3>1. seen'[c] = seen[c] /\ OneWriter(c) /\ start[c] # "created"
      BY <2>3, <1>2, <1>3 DEF OneWriter
    <3> QED
      BY <3>1, <2>1, <1>2 DEF IInv, TornNeedsTwoRuns
  <2> QED
    BY <2>2, <2>3
<1> QED
  BY <1>5, <1>7, <1>8

\* A step of start.sh leaves the store and the publisher alone.
LEMMA PublisherSame ==
    ASSUME IInv, UNCHANGED <<store, publishVars>>
    PROVE  /\ LineOK' /\ CountsOK' /\ SecondPutNeedsInvalidFirst' /\ Going' = Going
           /\ UNCHANGED <<store, runs, script, file, line, success, failed, tried, refusals>>
  BY DEF IInv, publishVars, LineOK, CountsOK, SecondPutNeedsInvalidFirst, Going

LEMMA ListNext ==
    ASSUME IInv, NEW c \in Containers, List(c)
    PROVE  TypeOK' /\ WritersOK' /\ FetchOK' /\ TornNeedsTwoRuns'
<1>1. PICK names \in {{k \in Keys : store[k] # None}, {}} :
        /\ todo' = [todo EXCEPT ![c] = names]
        /\ listed' = [listed EXCEPT ![c] = names]
  BY DEF List
<1>2. /\ start[c] = "created" /\ start' = [start EXCEPT ![c] = "get"]
      /\ seen' = [seen EXCEPT ![c] = {store}]
      /\ UNCHANGED <<store, runs, script, file, line, success, failed, tried, refusals>>
      /\ UNCHANGED <<env, missed, writers>>
  BY PublisherSame DEF List
<1>3. TypeOK'
  BY <1>1, <1>2 DEF IInv, TypeOK
<1>4. writers[c] = {}
  BY <1>2 DEF IInv, WritersOK
<1>5. todo'[c] = listed'[c] /\ Got(c)' = {} /\ start'[c] = "get" /\ seen'[c] = {store}
  BY <1>1, <1>2 DEF Got, IInv, TypeOK
<1>6. ASSUME NEW d \in Containers, d # c
      PROVE  /\ todo'[d] = todo[d] /\ listed'[d] = listed[d] /\ start'[d] = start[d]
             /\ seen'[d] = seen[d]
  BY <1>1, <1>2, <1>6 DEF IInv, TypeOK
<1>7. WritersOK'
  BY <1>2, <1>4, <1>5, <1>6 DEF IInv, WritersOK, Going
<1>8. FetchOK'
  <2> SUFFICES ASSUME NEW d \in Fetching'
               PROVE  /\ store \in seen'[d]
                      /\ writers[d] = {} => AgreesWith(d, store)'
                      /\ OneWriter(d)' => OneKeyApart(d)'
    BY <1>2 DEF FetchOK
  <2>1. CASE d = c
    <3>1. AgreesWith(c, store)'
      BY <1>2, <1>5 DEF AgreesWith
    <3>2. OneKeyApart(c)'
      BY <1>2, <1>5, <3>1 DEF OneKeyApart, AgreesWith
    <3> QED
      BY <1>2, <1>5, <2>1, <3>1, <3>2
  <2>2. CASE d # c
    <3>1. d \in Fetching /\ d \in Containers
      BY <1>6, <2>2 DEF Fetching
    <3>2. Got(d)' = Got(d) /\ seen'[d] = seen[d]
      BY <1>2, <1>6, <2>2, <3>1 DEF Got
    <3> QED
      BY <1>2, <3>1, <3>2 DEF IInv, FetchOK, AgreesWith, OneWriter, OneKeyApart
  <2> QED
    BY <2>1, <2>2
<1>9. TornNeedsTwoRuns'
  <2> SUFFICES ASSUME NEW d \in Containers, start'[d] # "created", OneWriter(d)'
               PROVE  \E s \in seen'[d] : \A k \in Got(d)' : env'[d][k] = s[k]
    BY DEF TornNeedsTwoRuns
  <2>1. CASE d = c
    BY <1>5, <2>1
  <2>2. CASE d # c
    <3>1. Got(d)' = Got(d) /\ seen'[d] = seen[d] /\ start[d] # "created" /\ OneWriter(d)
      BY <1>2, <1>6, <2>2 DEF Got, OneWriter
    <3> QED
      BY <1>2, <3>1 DEF IInv, TornNeedsTwoRuns
  <2> QED
    BY <2>1, <2>2
<1> QED
  BY <1>3, <1>7, <1>8, <1>9

\* One name less to get; v is what its line of .env holds now.
LEMMA GetNext ==
    ASSUME IInv, NEW c \in Containers, Get(c) \/ GetFails(c)
    PROVE  TypeOK' /\ WritersOK' /\ FetchOK' /\ TornNeedsTwoRuns'
<1>1. /\ start[c] = "get"
      /\ UNCHANGED <<store, runs, script, file, line, success, failed, tried, refusals>>
      /\ UNCHANGED <<start, listed, seen, writers>>
  BY PublisherSame DEF Get, GetFails
<1>2. PICK k \in todo[c] :
        /\ todo' = [todo EXCEPT ![c] = @ \ {k}]
        /\ \/ env' = [env EXCEPT ![c][k] = store[k]] /\ missed' = missed
           \/ env' = env /\ missed' = [missed EXCEPT ![c] = @ \cup {k}]
  BY DEF Get, GetFails
<1>3. k \in Keys /\ todo[c] \subseteq listed[c]
  BY <1>2 DEF IInv, TypeOK, WritersOK
<1>4. TypeOK'
  <2>1. store[k] \in Value
    BY <1>3 DEF IInv, TypeOK, Store
  <2>2. env' \in [Containers -> Store]
    <3>1. env \in [Containers -> Store] /\ env[c] \in [Keys -> Value]
      BY DEF IInv, TypeOK, Store
    <3>2. [env[c] EXCEPT ![k] = store[k]] \in Store
      BY <2>1, <3>1 DEF Store
    <3> QED
      BY <1>2, <3>1, <3>2
  <2>3. todo' \in [Containers -> SUBSET Keys] /\ missed' \in [Containers -> SUBSET Keys]
    BY <1>2, <1>3 DEF IInv, TypeOK
  <2> QED
    BY <1>1, <2>2, <2>3 DEF IInv, TypeOK
<1>5. WritersOK'
  <2>1. \A d \in Containers : todo'[d] \subseteq todo[d]
    BY <1>2 DEF IInv, TypeOK
  <2> QED
    BY <1>1, <2>1 DEF IInv, WritersOK, Going
\* What was got before is as it was; what is new agrees with the store.
<1>6. ASSUME NEW d \in Containers, NEW j \in Got(d)'
      PROVE  \/ j \in Got(d) /\ env'[d][j] = env[d][j]
             \/ d = c /\ j = k /\ k \notin Got(c) /\ env'[d][j] = store[j]
  <2>1. CASE d # c
    BY <1>1, <1>2, <1>6, <2>1 DEF Got, IInv, TypeOK
  <2>2. CASE d = c /\ j # k
    <3>1. j \in Got(c)
      BY <1>1, <1>2, <1>6, <2>2 DEF Got, IInv, TypeOK
    <3>2. env'[c][j] = env[c][j]
      <4>1. env \in [Containers -> Store] /\ env[c] \in [Keys -> Value] /\ j \in Keys
        BY <3>1 DEF IInv, TypeOK, Store, Got
      <4>2. [env[c] EXCEPT ![k] = store[k]][j] = env[c][j]
        BY <2>2, <4>1
      <4> QED
        BY <1>2, <4>1, <4>2
    <3> QED
      BY <2>2, <3>1, <3>2
  <2>3. CASE d = c /\ j = k
    <3>1. k \notin Got(c) /\ k \notin missed'[c]
      BY <1>1, <1>2, <1>6, <2>3 DEF Got
    <3>2. env' = [env EXCEPT ![c][k] = store[k]]
      BY <1>2, <3>1 DEF IInv, TypeOK
    <3>3. env'[c][k] = store[k]
      BY <1>3, <3>2 DEF IInv, TypeOK, Store
    <3> QED
      BY <2>3, <3>1, <3>3
  <2> QED
    BY <2>1, <2>2, <2>3
<1>7. \A d \in Containers : AgreesWith(d, store) => AgreesWith(d, store)'
  BY <1>1, <1>6 DEF AgreesWith
<1>8. ASSUME NEW d \in Fetching, OneWriter(d)
      PROVE  OneKeyApart(d)'
  <2>0. d \in Containers
    BY DEF Fetching
  <2>1. PICK s \in seen[d], kk \in Keys \cup {None} :
          /\ \A j \in Keys \ {kk} : s[j] = store[j]
          /\ AgreesWith(d, s) \/ AgreesWith(d, store)
    BY <1>8 DEF IInv, FetchOK, OneKeyApart
  <2>2. CASE AgreesWith(d, store)
    <3>1. AgreesWith(d, store)'
      BY <1>7, <2>0, <2>2
    <3> QED
      BY <1>1, <2>1, <3>1 DEF OneKeyApart, AgreesWith
  <2>3. CASE AgreesWith(d, s) /\ d = c /\ kk = k /\ kk \notin Got(c)
    <3>1. Got(d) \subseteq Keys \ {kk}
      BY <2>0, <2>3 DEF Got, IInv, TypeOK
    <3>2. AgreesWith(d, store)
      BY <2>1, <2>3, <3>1 DEF AgreesWith
    <3>3. AgreesWith(d, store)'
      BY <1>7, <2>0, <3>2
    <3> QED
      BY <1>1, <2>1, <3>3 DEF OneKeyApart, AgreesWith
  <2>4. CASE AgreesWith(d, s) /\ ~(d = c /\ kk = k /\ kk \notin Got(c))
    <3>1. ASSUME NEW j \in Got(d)' PROVE env'[d][j] = s[j]
      <4>1. CASE j \in Got(d) /\ env'[d][j] = env[d][j]
        BY <2>4, <4>1 DEF AgreesWith
      <4>2. CASE d = c /\ j = k /\ k \notin Got(c) /\ env'[d][j] = store[j]
        BY <1>3, <2>1, <2>4, <4>2
      <4> QED
        BY <1>6, <2>0, <3>1, <4>1, <4>2
    <3> QED
      BY <1>1, <2>1, <3>1 DEF OneKeyApart, AgreesWith
  <2> QED
    BY <2>1, <2>2, <2>3, <2>4
<1>9. FetchOK'
  <2> SUFFICES ASSUME NEW d \in Fetching'
               PROVE  /\ store \in seen[d]
                      /\ writers[d] = {} => AgreesWith(d, store)'
                      /\ OneWriter(d) => OneKeyApart(d)'
    BY <1>1 DEF FetchOK, OneWriter
  <2>1. d \in Fetching /\ d \in Containers
    BY <1>1 DEF Fetching
  <2>2. store \in seen[d] /\ (writers[d] = {} => AgreesWith(d, store))
    BY <2>1 DEF IInv, FetchOK
  <2> QED
    BY <1>7, <1>8, <2>1, <2>2
<1>10. TornNeedsTwoRuns'
  <2> SUFFICES ASSUME NEW d \in Containers, start[d] # "created", OneWriter(d)
               PROVE  \E s \in seen[d] : \A j \in Got(d)' : env'[d][j] = s[j]
    BY <1>1 DEF TornNeedsTwoRuns, OneWriter
  <2>1. CASE d \in Fetching
    <3>1. OneKeyApart(d)'
      BY <1>8, <2>1
    <3>2. store \in seen[d]
      BY <2>1 DEF IInv, FetchOK
    <3> QED
      BY <1>1, <3>1, <3>2 DEF OneKeyApart, AgreesWith
  <2>2. CASE d \notin Fetching
    <3>1. d # c
      BY <1>1, <2>2 DEF Fetching
    <3>2. PICK s \in seen[d] : \A j \in Got(d) : env[d][j] = s[j]
      BY DEF IInv, TornNeedsTwoRuns
    <3> QED
      BY <1>6, <3>1, <3>2
  <2> QED
    BY <2>1, <2>2
<1> QED
  BY <1>4, <1>5, <1>9, <1>10

LEMMA EndNext ==
    ASSUME IInv, NEW c \in Containers, Exec(c) \/ Exit(c)
    PROVE  TypeOK' /\ WritersOK' /\ FetchOK' /\ TornNeedsTwoRuns'
<1>1. /\ start[c] = "get"
      /\ \E how \in {"app", "exited"} : start' = [start EXCEPT ![c] = how]
      /\ UNCHANGED <<store, runs, script, file, line, success, failed, tried, refusals>>
      /\ UNCHANGED <<todo, env, listed, missed, seen, writers>>
  BY PublisherSame DEF Exec, Exit
<1>2. TypeOK'
  BY <1>1 DEF IInv, TypeOK
<1>3. \A d \in Containers :
        /\ start'[d] = "get" => start[d] = "get"
        /\ start'[d] # "created" => start[d] # "created"
        /\ start'[d] = "created" => start[d] = "created"
  BY <1>1 DEF IInv, TypeOK
<1>4. WritersOK'
  BY <1>1, <1>3 DEF IInv, WritersOK, Going
<1>5. FetchOK'
  BY <1>1, <1>3 DEF IInv, FetchOK, Fetching, OneWriter, OneKeyApart, AgreesWith, Got
<1>6. TornNeedsTwoRuns'
  BY <1>1, <1>3 DEF IInv, TornNeedsTwoRuns, OneWriter, Got
<1> QED
  BY <1>2, <1>4, <1>5, <1>6

-----------------------------------------------------------------------------
LEMMA InvNext == IInv /\ [Next]_vars => IInv'
<1> SUFFICES ASSUME IInv, [Next]_vars PROVE IInv'
  OBVIOUS
<1>1. CASE Publish
  <2>1. TypeOK' /\ LineOK' /\ CountsOK' /\ SecondPutNeedsInvalidFirst'
    BY <1>1, PublishNext
  <2>2. CASE PutAccepted
    BY <2>1, <2>2, PutStarts DEF IInv
  <2>3. CASE ~PutAccepted
    <3>1. /\ UNCHANGED <<store, startVars>> /\ runs' \in {runs, runs + 1}
          /\ Going' => Going \/ runs' = runs + 1
          /\ Going => runs' = runs
      BY <1>1, <2>3
         DEF Publish, Run, SkipBlank, InvalidType, Describe, PutRefused, Summary, Going
    <3>2. WritersOK' /\ FetchOK' /\ TornNeedsTwoRuns'
      BY <3>1, StartsSame
    <3> QED
      BY <2>1, <3>2 DEF IInv
  <2> QED
    BY <2>2, <2>3
<1>2. ASSUME NEW c \in Containers, List(c) \/ Get(c) \/ GetFails(c) \/ Exec(c) \/ Exit(c)
      PROVE  IInv'
  <2>1. UNCHANGED <<store, publishVars>>
    BY <1>2 DEF List, Get, GetFails, Exec, Exit
  <2>2. LineOK' /\ CountsOK' /\ SecondPutNeedsInvalidFirst'
    BY <2>1, PublisherSame
  <2>3. TypeOK' /\ WritersOK' /\ FetchOK' /\ TornNeedsTwoRuns'
    BY <1>2, ListNext, GetNext, EndNext
  <2> QED
    BY <2>2, <2>3 DEF IInv
<1>3. CASE UNCHANGED vars
  <2>1. UNCHANGED <<store, publishVars>> /\ UNCHANGED <<store, startVars>>
    BY <1>3 DEF vars
  <2>2. LineOK' /\ CountsOK' /\ SecondPutNeedsInvalidFirst' /\ Going' = Going
    BY <2>1, PublisherSame
  <2>3. TypeOK'
    BY <2>1 DEF IInv, TypeOK, publishVars, startVars
  <2>4. runs' = runs
    BY <2>1 DEF publishVars
  <2>5. WritersOK' /\ FetchOK' /\ TornNeedsTwoRuns'
    BY <2>1, <2>2, <2>4, StartsSame
  <2> QED
    BY <2>2, <2>3, <2>5 DEF IInv
<1> QED
  BY <1>1, <1>2, <1>3 DEF Next, Idle

(* The strengthening holds in every state.                                 *)
THEOREM Invariant == Spec => []IInv
<1> QED
  BY InvInit, InvNext, PTL DEF Spec

(* Type correctness, for any file and any number of starts.                *)
THEOREM TypeCorrect == Spec => []TypeOK
<1>1. IInv => TypeOK
  BY DEF IInv
<1> QED
  BY <1>1, Invariant, PTL

(* setssmparameter.sh tries a second put only if the first was of an invalid*)
(* type, whatever the file and the answers.                                *)
THEOREM SecondPut == Spec => []SecondPutNeedsInvalidFirst
<1>1. IInv => SecondPutNeedsInvalidFirst
  BY DEF IInv
<1> QED
  BY <1>1, Invariant, PTL

(* The environment start.sh writes is a state of the store, unless two runs*)
(* of setssmparameter.sh put something while it read.                      *)
THEOREM TornByTwo == Spec => []TornNeedsTwoRuns
<1>1. IInv => TornNeedsTwoRuns
  BY DEF IInv
<1> QED
  BY <1>1, Invariant, PTL

-----------------------------------------------------------------------------
(* The process and its requests.                                           *)

\* Which requests come to which states.
KindsOK ==
    /\ \A r \in Requests :
        /\ pc[r] \in {"lookup", "read", "handler"} => body[r].kind = "app"
        /\ pc[r] = "sending" => body[r].kind = "stellar"
    /\ \A r \in sends \cup sets : body[r].kind = "moralis"

AsksFor(r, d) == body[r].kind = "app" /\ body[r].header = d

\* What was seen of a device whose request is under way.
LookupOK ==
    \A r \in Requests, d \in Devices : AsksFor(r, d) =>
        /\ pc[r] = "lookup" /\ d \in registered => TRUE \in was[r]
        /\ pc[r] = "lookup" /\ d \notin registered => FALSE \in was[r]
        /\ pc[r] = "read" /\ found[r] => TRUE \in was[r]
        /\ pc[r] = "read" /\ ~found[r] => FALSE \in was[r]

ServerInv == ServerTypeOK /\ KindsOK /\ LookupOK /\ VerdictWasTrue

LEMMA ServerInvInit == ServerInit => ServerInv
  BY BoundsAssumption
     DEF ServerInit, ServerInv, ServerTypeOK, KindsOK, LookupOK, VerdictWasTrue

\* What may happen to the requests: the process ends, one of them goes on, a device comes or
\* goes, or nothing.
OneGoesOn(r) ==
    \/ Health(r) \/ Stellar(r) \/ Moralis(r) \/ MoralisFails(r) \/ Authenticate(r)
    \/ StellarSent(r) \/ FcmAccepts(r) \/ RedisSet(r)
    \/ FindOne(r) \/ FindOneFails(r) \/ Proceed(r) \/ Handle(r)

LEMMA ServerCases ==
    ASSUME [ServerNext]_serverVars
    PROVE  \/ Die /\ UNCHANGED registered
           \/ \E r \in Requests : OneGoesOn(r)
           \/ \E d \in Devices : EditDevice(d)
           \/ UNCHANGED <<requests, registered>>
<1>1. ASSUME NEW r \in Requests, Arrival(r) \/ Step(r)
      PROVE  (Die /\ UNCHANGED registered) \/ OneGoesOn(r)
  BY <1>1 DEF Arrival, Step, OneGoesOn, FcmRejects, RedisSetFails, external
<1>2. CASE GiveUp \/ PingFails \/ Kill
  BY <1>2 DEF GiveUp, PingFails, Kill, external
<1>3. CASE Start \/ Boot \/ Pong
  BY <1>3 DEF Start, Boot, Pong, external
<1>4. CASE Outage \/ Recovery
  BY <1>4 DEF Outage, Recovery
<1>5. CASE ServerIdle \/ UNCHANGED serverVars
  BY <1>5 DEF ServerIdle, serverVars, external
<1> QED
  BY <1>1, <1>2, <1>3, <1>4, <1>5 DEF ServerNext

LEMMA ServerTypeStep == ASSUME ServerInv, [ServerNext]_serverVars PROVE ServerTypeOK'
<1> DEFINE Codes == {"new", "lookup", "read", "handler", "sending", "lost"} \cup Answers
           Outer == /\ phase \in {"down", "loading", "up"} /\ ping \in {"none", "pending", "pong"}
                    /\ mongo \in BOOLEAN /\ redis \in BOOLEAN /\ registered \subseteq Devices
                    /\ outages \in 0..MaxOutages /\ edits \in 0..MaxEdits
                    /\ kills \in 0..MaxKills
           Inner == /\ pc \in [Requests -> Codes] /\ body \in [Requests -> Body]
                    /\ found \in [Requests -> BOOLEAN] /\ sends \subseteq Requests
                    /\ sets \subseteq Requests
                    /\ was \in [Requests -> SUBSET BOOLEAN]
<1>1. Outer /\ Inner
  BY DEF ServerInv, ServerTypeOK
<1>2. Outer'
  <2> HIDE DEF Inner
  <2>1. CASE Start \/ Boot \/ Pong
    BY <1>1, <2>1 DEF Start, Boot, Pong, external
  <2>2. CASE GiveUp \/ PingFails
    BY <1>1, <2>2 DEF GiveUp, PingFails, Die, external
  <2>3. CASE Kill
    BY <1>1, <2>3, BoundsAssumption DEF Kill, Die
  <2>4. ASSUME NEW r \in Requests, Arrival(r) \/ Step(r) PROVE Outer'
    <3>1. CASE FcmRejects(r) \/ RedisSetFails(r)
      BY <1>1, <3>1 DEF FcmRejects, RedisSetFails, Die, external
    <3>2. CASE OneGoesOn(r)
      <4>1. UNCHANGED <<phase, ping, external>>
        BY <3>2 DEF OneGoesOn, Health, Stellar, Moralis, MoralisFails, Authenticate,
       StellarSent, FcmAccepts, RedisSet, FindOne, FindOneFails, Proceed, Handle, Answer
      <4> QED
        BY <1>1, <4>1 DEF external
    <3> QED
      BY <2>4, <3>1, <3>2 DEF Arrival, Step, OneGoesOn
  <2>5. CASE Outage
    <3>1. mongo' \in BOOLEAN /\ redis' \in BOOLEAN
      BY <1>1, <2>5, Zenon DEF Outage
    <3>2. outages' \in 0..MaxOutages /\ UNCHANGED <<phase, ping, registered, edits, kills>>
      BY <1>1, <2>5, BoundsAssumption DEF Outage
    <3> QED
      BY <1>1, <3>1, <3>2
  <2>6. CASE Recovery
    BY <1>1, <2>6 DEF Recovery
  <2>7. ASSUME NEW d \in Devices, EditDevice(d) PROVE Outer'
    BY <1>1, <2>7, BoundsAssumption DEF EditDevice
  <2>8. CASE UNCHANGED serverVars
    BY <1>1, <2>8 DEF serverVars, external
  <2> HIDE DEF Outer
  <2> QED
    BY <2>1, <2>2, <2>3, <2>4, <2>5, <2>6, <2>7, <2>8 DEF ServerNext, ServerIdle
<1>3. Inner'
  <2> HIDE DEF Outer
  <2>1. CASE Die
    BY <1>1, <2>1 DEF Die
  <2>2. ASSUME NEW r \in Requests, OneGoesOn(r) PROVE Inner'
    <3>1. CASE \/ Health(r) \/ Stellar(r) \/ StellarSent(r) \/ MoralisFails(r)
               \/ FindOneFails(r) \/ Handle(r)
      BY <1>1, <3>1 DEF Health, Stellar, StellarSent, MoralisFails, FindOneFails, Handle, Answer,
         Answers
    <3>2. CASE Proceed(r)
      BY <1>1, <3>2 DEF Proceed, Answer, Answers
    <3>3. CASE Moralis(r) \/ FcmAccepts(r) \/ RedisSet(r)
      BY <1>1, <3>3 DEF Moralis, FcmAccepts, RedisSet, Answers
    <3>4. CASE Authenticate(r)
      <4>1. /\ was' = [was EXCEPT ![r] = {body[r].header \in registered}]
            /\ {body[r].header \in registered} \in SUBSET BOOLEAN
        <5> DEFINE b == body[r].header \in registered
        <5>1. b \in BOOLEAN
          BY SMT
        <5>2. was' = [was EXCEPT ![r] = {b}]
          BY <3>4 DEF Authenticate
        <5> HIDE DEF b
        <5>3. {b} \in SUBSET BOOLEAN
          BY <5>1
        <5> QED
          BY <5>2, <5>3 DEF b
      <4>2. was' \in [Requests -> SUBSET BOOLEAN]
        BY <1>1, <4>1, Zenon
      <4>3. pc' \in [Requests -> Codes] /\ UNCHANGED <<body, found, sends, sets>>
        BY <1>1, <3>4 DEF Authenticate, Answers
      <4> QED
        BY <1>1, <4>2, <4>3
    <3>5. CASE FindOne(r)
      <4>1. found' \in [Requests -> BOOLEAN]
        <5> DEFINE b == body[r].header \in registered
        <5>1. b \in BOOLEAN
          BY SMT
        <5>2. found' = [found EXCEPT ![r] = b]
          BY <3>5 DEF FindOne
        <5> HIDE DEF b
        <5> QED
          BY <1>1, <5>1, <5>2
      <4>2. pc' \in [Requests -> Codes] /\ UNCHANGED <<body, was, sends, sets>>
        BY <1>1, <3>5 DEF FindOne
      <4> QED
        BY <1>1, <4>1, <4>2
    <3> HIDE DEF Inner
    <3> QED
      BY <2>2, <3>1, <3>2, <3>3, <3>4, <3>5 DEF OneGoesOn
  <2>3. ASSUME NEW d \in Devices, EditDevice(d) PROVE Inner'
    <3>1. \A r \in Requests : was[r] \cup {d \notin registered} \in SUBSET BOOLEAN
      BY <1>1, Zenon
    <3>2. was' \in [Requests -> SUBSET BOOLEAN]
      BY <1>1, <2>3, <3>1, Zenon DEF EditDevice
    <3>3. UNCHANGED <<pc, body, found, sends, sets>>
      BY <2>3 DEF EditDevice
    <3> QED
      BY <1>1, <3>2, <3>3
  <2>4. CASE UNCHANGED requests
    BY <1>1, <2>4 DEF requests
  <2> HIDE DEF Inner
  <2> QED
    BY <2>1, <2>2, <2>3, <2>4, ServerCases
<1> QED
  BY <1>2, <1>3 DEF ServerTypeOK

LEMMA KindsStep == ASSUME ServerInv, [ServerNext]_serverVars PROVE KindsOK'
<1>1. CASE Die
  BY <1>1 DEF Die, ServerInv, KindsOK, ServerTypeOK, Answers
<1>2. ASSUME NEW r \in Requests, OneGoesOn(r) PROVE KindsOK'
  <2>1. body[r] \in Body /\ pc \in [Requests -> {"new", "lookup", "read", "handler", "sending", "lost"} \cup Answers]
    BY DEF ServerInv, ServerTypeOK
  <2>2. CASE \/ Health(r) \/ Stellar(r) \/ StellarSent(r) \/ MoralisFails(r)
             \/ FindOneFails(r) \/ Handle(r)
    BY <2>1, <2>2 DEF Health, Stellar, StellarSent, MoralisFails, FindOneFails, Handle, Arrives,
       Answer, ServerInv, KindsOK
  <2>3. CASE Moralis(r) \/ FcmAccepts(r) \/ RedisSet(r)
    BY <2>1, <2>3 DEF Moralis, FcmAccepts, RedisSet, Arrives, ServerInv, KindsOK
  <2>4. CASE Authenticate(r)
    BY <2>1, <2>4 DEF Authenticate, Arrives, ServerInv, KindsOK
  <2>5. CASE FindOne(r)
    BY <2>1, <2>5 DEF FindOne, ServerInv, KindsOK
  <2>6. CASE Proceed(r)
    BY <2>1, <2>6 DEF Proceed, Answer, ServerInv, KindsOK
  <2> QED
    BY <1>2, <2>2, <2>3, <2>4, <2>5, <2>6 DEF OneGoesOn
<1>3. CASE UNCHANGED <<pc, body, sends, sets>>
  BY <1>3 DEF ServerInv, KindsOK
<1> QED
  BY <1>1, <1>2, <1>3, ServerCases DEF EditDevice, requests

\* A request whose place and history stand still keeps what is known of its device.
Known(r, d) ==
    /\ pc[r] = "lookup" /\ d \in registered => TRUE \in was[r]
    /\ pc[r] = "lookup" /\ d \notin registered => FALSE \in was[r]
    /\ pc[r] = "read" /\ found[r] => TRUE \in was[r]
    /\ pc[r] = "read" /\ ~found[r] => FALSE \in was[r]
    /\ pc[r] \in {"handler", "200"} => TRUE \in was[r]
    /\ pc[r] = "403" => FALSE \in was[r]

LEMMA Truth == ASSUME NEW b \in BOOLEAN PROVE (b => b = TRUE) /\ (~b => b = FALSE)
  OBVIOUS

LEMMA KnownStep ==
    ASSUME ServerInv, [ServerNext]_serverVars, NEW r \in Requests, NEW d \in Devices, AsksFor(r, d)
    PROVE  Known(r, d)'
<1>1. Known(r, d)
  BY DEF Known, AsksFor, ServerInv, LookupOK, VerdictWasTrue
<1>2. /\ pc \in [Requests -> {"new", "lookup", "read", "handler", "sending", "lost"} \cup Answers]
      /\ found \in [Requests -> BOOLEAN] /\ was \in [Requests -> SUBSET BOOLEAN]
      /\ d \notin {"none", "noId"} /\ body[r].kind = "app" /\ body[r].header = d
      /\ pc[r] # "sending"
  BY DevicesAssumption DEF ServerInv, ServerTypeOK, AsksFor, KindsOK
<1>3. CASE pc'[r] = pc[r] /\ UNCHANGED <<found, was, registered>>
  BY <1>1, <1>3 DEF Known
<1>4. CASE Die
  BY <1>1, <1>2, <1>4 DEF Die, Known, Answers
<1>5. ASSUME NEW q \in Requests, OneGoesOn(q) PROVE Known(r, d)'
  <2>1. registered' = registered
    BY <1>5 DEF OneGoesOn, Health, Stellar, Moralis, MoralisFails, Authenticate,
       StellarSent, FcmAccepts, RedisSet, FindOne, FindOneFails, Proceed, Handle, Answer, external
  <2>2. CASE q # r
    <3>1. pc'[r] = pc[r] /\ found'[r] = found[r] /\ was'[r] = was[r]
      BY <1>2, <1>5, <2>2 DEF OneGoesOn, Health, Stellar, Moralis, MoralisFails, Authenticate,
       StellarSent, FcmAccepts, RedisSet, FindOne, FindOneFails, Proceed, Handle, Answer
    <3> QED
      BY <1>1, <2>1, <3>1 DEF Known
  <2>3. CASE q = r
    <3>1. CASE Health(r) \/ Stellar(r) \/ Moralis(r) \/ MoralisFails(r) \/ StellarSent(r)
      BY <1>2, <3>1 DEF Health, Stellar, Moralis, MoralisFails, StellarSent, Arrives
    <3>2. CASE FcmAccepts(r) \/ RedisSet(r)
      BY <1>3, <2>1, <3>2 DEF FcmAccepts, RedisSet
    <3>3. CASE Authenticate(r)
      <4> DEFINE b == body[r].header \in registered
      <4>1. /\ b \in {TRUE, FALSE}
            /\ body[r].header \in registered => b = TRUE
            /\ body[r].header \notin registered => b = FALSE
        <5>1. b \in BOOLEAN
          BY SMT
        <5> HIDE DEF b
        <5>2. (b => b = TRUE) /\ (~b => b = FALSE) /\ b \in {TRUE, FALSE}
          BY <5>1, Truth
        <5> QED
          BY <5>2, Zenon DEF b
      <4>2. pc' = [pc EXCEPT ![r] = "lookup"]
        BY <1>2, <3>3 DEF Authenticate
      <4>3. was' = [was EXCEPT ![r] = {b}]
        BY <3>3 DEF Authenticate
      <4> HIDE DEF b
      <4>4. pc'[r] = "lookup" /\ was'[r] = {b}
        BY <1>2, <4>2, <4>3
      <4>5. /\ d \in registered => TRUE \in {b}
            /\ d \notin registered => FALSE \in {b}
        BY <1>2, <4>1
      <4> QED
        BY <2>1, <4>4, <4>5 DEF Known
    <3>4. CASE FindOne(r)
      <4>1. /\ pc[r] = "lookup" /\ pc'[r] = "read" /\ was' = was
            /\ found'[r] = (d \in registered)
        BY <1>2, <3>4 DEF FindOne
      <4> QED
        BY <1>1, <4>1 DEF Known
    <3>5. CASE FindOneFails(r)
      BY <1>2, <3>5 DEF FindOneFails, Answer, Known
    <3>6. CASE Proceed(r)
      <4>1. /\ pc[r] = "read" /\ UNCHANGED <<found, was>>
            /\ pc'[r] = IF found[r] THEN "handler" ELSE "403"
        BY <1>2, <3>6 DEF Proceed, Answer
      <4> QED
        BY <1>1, <4>1 DEF Known
    <3>7. CASE Handle(r)
      <4>1. pc[r] = "handler" /\ UNCHANGED <<found, was>> /\ pc'[r] \in {"200", "500"}
        BY <1>2, <3>7 DEF Handle, Answer
      <4> QED
        BY <1>1, <4>1 DEF Known
    <3> QED
      BY <1>5, <2>3, <3>1, <3>2, <3>3, <3>4, <3>5, <3>6, <3>7 DEF OneGoesOn
  <2> QED
    BY <2>2, <2>3
<1>6. ASSUME NEW e \in Devices, EditDevice(e) PROVE Known(r, d)'
  <2> DEFINE b == e \notin registered
  <2>1. was' = [q \in Requests |-> IF pc[q] = "lookup" /\ body[q].header = e
                                  THEN was[q] \cup {b} ELSE was[q]]
    BY <1>6 DEF EditDevice
  <2>2. b \in BOOLEAN
    BY SMT
  <2>3. /\ pc' = pc /\ found' = found
        /\ registered' = IF e \in registered THEN registered \ {e} ELSE registered \cup {e}
    BY <1>6 DEF EditDevice
  <2>4. b <=> e \notin registered
    OBVIOUS
  <2> HIDE DEF b
  <2>5. CASE pc[r] = "lookup" /\ d = e
    <3>1. was'[r] = was[r] \cup {b} /\ pc'[r] = "lookup"
      BY <1>2, <2>1, <2>3, <2>5
    <3>2. /\ d \in registered' => b
          /\ d \notin registered' => ~b
      BY <2>3, <2>4, <2>5
    <3>3. (b => b = TRUE) /\ (~b => b = FALSE)
      BY <2>2, Truth
    <3>4. /\ d \in registered' => TRUE \in was'[r]
          /\ d \notin registered' => FALSE \in was'[r]
      BY <3>1, <3>2, <3>3, Zenon
    <3> QED
      BY <3>1, <3>4 DEF Known
  <2>6. CASE ~(pc[r] = "lookup" /\ d = e)
    <3>1. was'[r] = was[r]
      BY <1>2, <2>1, <2>6
    <3>2. pc[r] = "lookup" => (d \in registered' <=> d \in registered)
      BY <1>2, <2>3, <2>6
    <3> QED
      BY <1>1, <2>3, <3>1, <3>2 DEF Known
  <2> QED
    BY <2>5, <2>6
<1> QED
  BY <1>3, <1>4, <1>5, <1>6, ServerCases DEF requests

LEMMA BodyStays == ASSUME [ServerNext]_serverVars PROVE body' = body
<1>1. ASSUME NEW r \in Requests, OneGoesOn(r) PROVE body' = body
  BY <1>1 DEF OneGoesOn, Health, Stellar, Moralis, MoralisFails, Authenticate,
       StellarSent, FcmAccepts, RedisSet, FindOne, FindOneFails, Proceed, Handle, Answer
<1> QED
  BY <1>1, ServerCases DEF Die, EditDevice, requests

(* The invariant above holds in every state of every behaviour.             *)
THEOREM ServerInvariant == ServerSpec => []ServerInv
<1>1. ServerInv /\ [ServerNext]_serverVars => ServerInv'
  <2> SUFFICES ASSUME ServerInv, [ServerNext]_serverVars PROVE ServerInv'
    OBVIOUS
  <2>1. \A r \in Requests, d \in Devices : AsksFor(r, d)' => Known(r, d)'
    BY KnownStep, BodyStays DEF AsksFor
  <2>2. LookupOK' /\ VerdictWasTrue'
    BY <2>1 DEF LookupOK, VerdictWasTrue, Known, AsksFor
  <2> QED
    BY <2>2, ServerTypeStep, KindsStep DEF ServerInv
<1> QED
  BY ServerInvInit, <1>1, PTL DEF ServerSpec

(* Every variable of the process stays in its range.                        *)
THEOREM ServerTypeCorrect == ServerSpec => []ServerTypeOK
<1>1. ServerInv => ServerTypeOK
  BY DEF ServerInv
<1> QED
  BY ServerInvariant, <1>1, PTL

(* The middleware's verdict on a device was true at some time between the   *)
(* request and the answer of findOne, whoever registers or removes devices. *)
THEOREM VerdictHolds == ServerSpec => []VerdictWasTrue
<1>1. ServerInv => VerdictWasTrue
  BY DEF ServerInv
<1> QED
  BY ServerInvariant, <1>1, PTL

(* A process that is up is ended by a kill, by the ping, or by the send or  *)
(* the SET of a Moralis webhook, whatever else is asked of it.              *)
THEOREM KilledByMoralis == ServerSpec => OnlyMoralisKills
<1> DEFINE Cause ==
        \/ kills' # kills
        \/ ping = "pending" /\ ~redis
        \/ \E r \in sends \cup sets :
            body[r].kind = "moralis" /\ (r \in sends \/ ~redis)
<1>1. ServerInv /\ [ServerNext]_serverVars
        => [phase = "up" /\ phase' = "down" => Cause]_serverVars
  <2> SUFFICES ASSUME ServerInv, ServerNext, phase = "up", phase' = "down"
               PROVE  Cause
    BY DEF serverVars
  <2>1. CASE PingFails
    BY <2>1 DEF PingFails
  <2>2. CASE Kill
    BY <2>2 DEF Kill, ServerInv, ServerTypeOK
  <2>3. ASSUME NEW r \in Requests, FcmRejects(r) \/ RedisSetFails(r)
        PROVE  Cause
    BY <2>3 DEF FcmRejects, RedisSetFails, ServerInv, KindsOK
  <2>4. ASSUME NEW r \in Requests, OneGoesOn(r) PROVE FALSE
    BY <2>4 DEF OneGoesOn, Health, Stellar, Moralis, MoralisFails, Authenticate,
       StellarSent, FcmAccepts, RedisSet, FindOne, FindOneFails, Proceed, Handle, Answer
  <2>5. CASE Start \/ Boot \/ GiveUp \/ Pong \/ Outage \/ Recovery \/ ServerIdle
    BY <2>5 DEF Start, Boot, GiveUp, Pong, Outage, Recovery, ServerIdle, serverVars
  <2>6. ASSUME NEW d \in Devices, EditDevice(d) PROVE FALSE
    BY <2>6 DEF EditDevice
  <2> HIDE DEF Cause
  <2> QED
    BY <2>1, <2>2, <2>3, <2>4, <2>5, <2>6 DEF ServerNext, Arrival, Step, OneGoesOn
<1> QED
  BY ServerInvariant, <1>1, PTL DEF ServerSpec, OnlyMoralisKills
=============================================================================

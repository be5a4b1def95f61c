------------------------ MODULE MoralisWebhookProofs ------------------------
(***************************************************************************)
(* For every set of deliveries, bodies and bound of crashes: the type      *)
(* invariant of MoralisWebhook, and the three safety invariants that say   *)
(* when a notice can be doubled or withheld.                               *)
(***************************************************************************)
EXTENDS MoralisWebhook, SequenceTheorems, TLAPS

\* What is in flight belongs to a delivery whose body is known.
Known ==
    /\ \A d \in Deliveries : pc[d] # "waiting" \/ Announced(d) => body[d] \in Payloads
    /\ \A i \in 1..Len(pipe) : body[pipe[i].d] \in Payloads

\* A GET is on the connection exactly once, for a request that waits for it.
OneGet ==
    /\ \A i \in 1..Len(pipe) : pipe[i].op = "GET" => pc[pipe[i].d] = "get"
    /\ \A i, j \in 1..Len(pipe) :
        pipe[i].op = "GET" /\ pipe[j] = pipe[i] => i = j

\* The first n commands of the connection, or Redis itself, hold the key h.
Secured(h, n) ==
    h \in keys \/ \E i \in 1..n : pipe[i].op = "SET" /\ Hash(pipe[i].d) = h

Overlapped(d, e) == <<d, e>> \in overlap \/ <<e, d>> \in overlap

\* Undecided requests overlap each other.
DecidingOverlap ==
    \A d, e \in Deciding : d # e => Overlapped(d, e)

\* An announced hash is on its way into Redis, unless a crash lost it.
AnnouncedSecured ==
    \A d \in Deliveries :
        Announced(d) => Hash(d) \in lost \/ Secured(Hash(d), Len(pipe))

Excused(d, e) == Hash(d) \in lost \/ (d # e /\ Overlapped(d, e))

\* A GET still on the connection comes after the SET of every delivery of the
\* same hash announced before, except of those it overlapped.
GetBehindSet ==
    \A j \in 1..Len(pipe) : \A e \in Deliveries :
        /\ pipe[j].op = "GET"
        /\ Announced(e) /\ Hash(e) = Hash(pipe[j].d)
        => Excused(pipe[j].d, e) \/ Secured(Hash(e), j)

\* So a request that was told nil knows of no announcement it did not overlap.
NilIsFresh ==
    \A d, e \in Deliveries :
        /\ pc[d] = "replied" /\ reply[d] = "nil"
        /\ Announced(e) /\ Hash(e) = Hash(d)
        => Excused(d, e)

\* Keys and SETs come from announcements, and every announcement is accounted for.
KeysAnnounced ==
    /\ \A i \in 1..Len(pipe) : pipe[i].op = "SET" => Announced(pipe[i].d)
    /\ \A d \in Deliveries : Announced(d) => d \in shown \cup sending \cup dropped
    /\ \A h \in keys : \E e \in Deliveries : Announced(e) /\ Hash(e) = h
    /\ \A d \in Deliveries : pc[d] = "replied" /\ reply[d] = "1" => Hash(d) \in keys
    /\ \A d \in Deliveries : result[d] = "silenced" => body[d] \in Payloads /\ Hash(d) \in keys

Sound == DuplicateNeedsOverlapOrLoss /\ RepeatNeedsLoss

IInv ==
    /\ TypeOK /\ Known /\ OneGet /\ KeysAnnounced
    /\ DecidingOverlap /\ AnnouncedSecured /\ GetBehindSet /\ NilIsFresh
    /\ Sound

-----------------------------------------------------------------------------
(* The key of every body is a hash: the chain of lines 96-122 ends in an    *)
(* entry of a list or in NoItem.                                            *)
LEMMA HashType == ASSUME NEW p \in Payload PROVE HashOf(p) \in Hashes
<1>1. \A list \in Seq(Items) : list # <<>> => list[1].hash \in Hashes
  <2> SUFFICES ASSUME NEW list \in Seq(Items), list # <<>> PROVE list[1].hash \in Hashes
    OBVIOUS
  <2>1. list[1] \in Items
    OBVIOUS
  <2> QED
    BY <2>1 DEF Items
<1>2. /\ p.transfers \in Seq(Items)
      /\ p.approvals \in Seq(Items)
      /\ p.txs \in Seq(Items)
  BY DEF Payload
<1>3. NoItem.hash \in Hashes
  BY NoHashAssumption DEF NoItem
<1>4. \/ p.transfers # <<>> /\ Picked(p) = p.transfers[1]
      \/ p.approvals # <<>> /\ Picked(p) = p.approvals[1]
      \/ p.txs # <<>> /\ Picked(p) = p.txs[1]
      \/ Picked(p) = NoItem
  BY Zenon DEF Picked
<1> QED
  BY <1>1, <1>2, <1>3, <1>4 DEF HashOf

(* The steps of the process, the three ways to die taken as one.            *)
LEMMA NextCases ==
    ASSUME [Next]_vars
    PROVE  \/ \E d \in Deliveries :
               \/ Dismiss(d) \/ Ask(d) \/ Silence(d) \/ Ignore(d) \/ Notify(d)
               \/ Respond(d) \/ RedisGet(d) \/ RedisSet(d) \/ RedisGetFails(d)
               \/ FcmAccepts(d)
           \/ Die \/ Restart \/ UNCHANGED vars
  BY DEF Next, Handle, Redis, Fault, Kill, FcmRejects, RedisSetFails, Idle

(* A body, once known, never changes.                                       *)
LEMMA BodyStays ==
    ASSUME TypeOK, [Next]_vars
    PROVE  \A d \in Deliveries : body[d] \in Payloads => body'[d] = body[d]
<1>1. ASSUME NEW e \in Deliveries, NEW p \in Payloads, Post(e, p)
      PROVE  \A d \in Deliveries : body[d] \in Payloads => body'[d] = body[d]
  BY <1>1, PayloadsAssumption DEF TypeOK, Post
<1>2. CASE \E e \in Deliveries : Dismiss(e) \/ Ask(e)
  BY <1>1, <1>2 DEF Dismiss, Ask
<1>3. CASE UNCHANGED body
  BY <1>3
<1> QED
  BY <1>2, <1>3, NextCases DEF Silence, Ignore, Notify, Respond, RedisGet, RedisSet,
     RedisGetFails, FcmAccepts, Die, Restart, vars

(* What stands on the connection is a command of some delivery.             *)
LEMMA PipeType ==
    ASSUME TypeOK
    PROVE  \A i \in 1..Len(pipe) : /\ pipe[i] \in Command
                                   /\ pipe[i].d \in Deliveries
                                   /\ pipe[i].op \in {"GET", "SET"}
                                   /\ pipe[i].op = "GET" => pipe[i] = Get(pipe[i].d)
<1>1. \A i \in 1..Len(pipe) : pipe[i] \in Command
  <2>1. pipe \in Seq(Command)
    BY DEF TypeOK
  <2> QED
    BY <2>1, ElementOfSeq
<1>2. \A c \in Command : /\ c.d \in Deliveries /\ c.op \in {"GET", "SET"}
                         /\ c.op = "GET" => c = Get(c.d)
  BY DEF Command, Get
<1> QED
  BY <1>1, <1>2

(* Redis answers the head of the connection, and the rest moves up.         *)
LEMMA Pop ==
    ASSUME TypeOK, pipe # <<>>, pipe' = Tail(pipe)
    PROVE  /\ 1 \in 1..Len(pipe) /\ Head(pipe) = pipe[1]
           /\ pipe' \in Seq(Command)
           /\ Len(pipe) \in Nat /\ Len(pipe') = Len(pipe) - 1
           /\ \A i \in 1..Len(pipe') : i + 1 \in 1..Len(pipe) /\ pipe'[i] = pipe[i + 1]
           /\ \A i \in 2..Len(pipe) : i - 1 \in 1..Len(pipe') /\ pipe'[i - 1] = pipe[i]
<1>1. pipe \in Seq(Command)
  BY DEF TypeOK
<1> QED
  BY <1>1, HeadTailProperties

(* A command is added at the end of the connection.                         *)
LEMMA Push ==
    ASSUME TypeOK, NEW c \in Command, pipe' = Append(pipe, c)
    PROVE  /\ pipe' \in Seq(Command)
           /\ Len(pipe) \in Nat /\ Len(pipe') = Len(pipe) + 1
           /\ \A i \in 1..Len(pipe) : pipe'[i] = pipe[i]
           /\ pipe'[Len(pipe')] = c
           /\ \A i \in 1..Len(pipe') : i \in 1..Len(pipe) \/ i = Len(pipe')
<1>1. pipe \in Seq(Command)
  BY DEF TypeOK
<1> QED
  BY <1>1, AppendProperties

LEMMA TypeOKInit == Init => TypeOK
  BY MaxCrashesAssumption DEF Init, TypeOK

LEMMA TypeOKStep == TypeOK /\ Known /\ [Next]_vars => TypeOK'
<1> SUFFICES ASSUME TypeOK, Known, [Next]_vars PROVE TypeOK'
  OBVIOUS
<1>1. ASSUME NEW d \in Deliveries, Dismiss(d) PROVE TypeOK'
  BY <1>1 DEF Dismiss, Post, Return, TypeOK
<1>2. ASSUME NEW d \in Deliveries, Ask(d) PROVE TypeOK'
  <2>1. pipe' \in Seq(Command)
    BY <1>2 DEF Ask, TypeOK, Command, Get
  <2>2. overlap' \in SUBSET (Deliveries \X Deliveries)
    BY <1>2 DEF Ask, TypeOK, Deciding
  <2> QED
    BY <1>2, <2>1, <2>2 DEF Ask, Post, TypeOK
<1>3. ASSUME NEW d \in Deliveries, Silence(d) \/ Ignore(d) PROVE TypeOK'
  BY <1>3 DEF Silence, Ignore, Return, TypeOK
<1>4. ASSUME NEW d \in Deliveries, Notify(d) PROVE TypeOK'
  <2>1. pipe' \in Seq(Command)
    BY <1>4 DEF Notify, TypeOK, Command, Set
  <2>2. sends' \in [Deliveries -> Nat]
    BY <1>4 DEF Notify, TypeOK
  <2> QED
    BY <1>4, <2>1, <2>2 DEF Notify, Return, TypeOK
<1>5. ASSUME NEW d \in Deliveries, Respond(d) \/ FcmAccepts(d) PROVE TypeOK'
  BY <1>5 DEF Respond, FcmAccepts, TypeOK
<1>6. ASSUME NEW d \in Deliveries, RedisGet(d) \/ RedisGetFails(d) PROVE TypeOK'
  <2>1. pipe' \in Seq(Command)
    BY <1>6, Pop DEF RedisGet, RedisGetFails
  <2>2. CASE RedisGet(d)
    <3>1. reply' \in [Deliveries -> {"none", "nil", "1"}]
      BY <2>2 DEF RedisGet, TypeOK
    <3>2. pc' \in [Deliveries -> {"waiting", "get", "replied", "returned", "done"}]
      BY <2>2 DEF RedisGet, TypeOK
    <3> QED
      BY <2>1, <2>2, <3>1, <3>2 DEF RedisGet, TypeOK
  <2>3. CASE RedisGetFails(d)
    BY <2>1, <2>3 DEF RedisGetFails, Return, TypeOK
  <2> QED
    BY <1>6, <2>2, <2>3
<1>7. ASSUME NEW d \in Deliveries, RedisSet(d) PROVE TypeOK'
  <2>1. pipe[1].d = d /\ 1 \in 1..Len(pipe)
    BY <1>7 DEF RedisSet, TypeOK, Set
  <2>2. Hash(d) \in Hashes
    BY <2>1, HashType, PayloadsAssumption DEF Known, Hash
  <2> QED
    BY <1>7, <2>2 DEF RedisSet, TypeOK
<1>8. CASE Die
  <2>1. LostSets \subseteq Hashes
    <3> SUFFICES ASSUME NEW i \in 1..Len(pipe) PROVE Hash(pipe[i].d) \in Hashes
      BY DEF LostSets, Pending
    <3> QED
      BY HashType, PayloadsAssumption DEF Known, Hash
  <2>2. crashes' \in 0..MaxCrashes
    BY <1>8, MaxCrashesAssumption DEF Die, TypeOK
  <2>3. pc' \in [Deliveries -> {"waiting", "get", "replied", "returned", "done"}]
    BY <1>8 DEF Die, TypeOK
  <2>4. pipe' \in Seq(Command) /\ reply' \in [Deliveries -> {"none", "nil", "1"}]
    BY <1>8 DEF Die
  <2>5. lost' \in SUBSET Hashes /\ dropped' \in SUBSET Deliveries
    BY <1>8, <2>1 DEF Die, TypeOK
  <2> QED
    BY <1>8, <2>2, <2>3, <2>4, <2>5 DEF Die, TypeOK
<1>9. CASE Restart \/ UNCHANGED vars
  BY <1>9 DEF Restart, vars, TypeOK
<1> QED
  BY <1>1, <1>2, <1>3, <1>4, <1>5, <1>6, <1>7, <1>8, <1>9, NextCases

LEMMA KnownStep == TypeOK /\ Known /\ [Next]_vars => Known'
<1> SUFFICES ASSUME TypeOK, Known, [Next]_vars PROVE Known'
  OBVIOUS
<1>0. \A d \in Deliveries : body[d] \in Payloads => body'[d] \in Payloads
  BY BodyStays
<1>c. \A i \in 1..Len(pipe) : pipe[i].d \in Deliveries
  BY PipeType
<1>1. ASSUME NEW d \in Deliveries, Dismiss(d) PROVE Known'
  <2>1. body'[d] \in Payloads
    BY <1>1 DEF Dismiss, Post, TypeOK
  <2> QED
    BY <1>0, <1>c, <1>1, <2>1 DEF Dismiss, Return, Known, TypeOK, Announced
<1>2. ASSUME NEW d \in Deliveries, Ask(d) PROVE Known'
  <2>1. body'[d] \in Payloads
    BY <1>2 DEF Ask, Post, TypeOK
  <2>2. Get(d) \in Command /\ Get(d).d = d /\ pipe' = Append(pipe, Get(d))
    BY <1>2 DEF Ask, Get, Command
  <2>3. \A i \in 1..Len(pipe') : body'[pipe'[i].d] \in Payloads
    BY <1>0, <1>c, <2>1, <2>2, Push DEF Known
  <2> QED
    BY <1>0, <1>2, <2>1, <2>3 DEF Ask, Known, TypeOK, Announced
<1>3. ASSUME NEW d \in Deliveries, Silence(d) \/ Ignore(d) \/ Respond(d) PROVE Known'
  <2>1. /\ pc[d] # "waiting"
        /\ \A e \in Deliveries \ {d} : pc'[e] = pc[e]
        /\ UNCHANGED <<body, pipe, sends>>
    BY <1>3 DEF Silence, Ignore, Respond, Return, TypeOK
  <2> QED
    BY <2>1 DEF Known, Announced
<1>4. ASSUME NEW d \in Deliveries, Notify(d) PROVE Known'
  <2>1. body[d] \in Payloads
    BY <1>4 DEF Notify, Known
  <2>2. Set(d) \in Command /\ Set(d).d = d /\ pipe' = Append(pipe, Set(d))
    BY <1>4 DEF Notify, Set, Command
  <2>3. \A i \in 1..Len(pipe') : body'[pipe'[i].d] \in Payloads
    BY <1>0, <1>c, <2>1, <2>2, Push DEF Known
  <2> QED
    BY <1>4, <2>1, <2>3 DEF Notify, Return, Known, TypeOK, Announced
<1>5. ASSUME NEW d \in Deliveries, RedisGet(d) \/ RedisGetFails(d) \/ RedisSet(d)
      PROVE  Known'
  <2>1. body[d] \in Payloads
    BY <1>5, Pop DEF RedisGet, RedisGetFails, RedisSet, Known, Get, Set
  <2>2. \A i \in 1..Len(pipe') : body'[pipe'[i].d] \in Payloads
    BY <1>5, Pop DEF RedisGet, RedisGetFails, RedisSet, Known
  <2> QED
    BY <1>5, <2>1, <2>2 DEF RedisGet, RedisGetFails, RedisSet, Return, Known, TypeOK,
       Announced
<1>6. ASSUME NEW d \in Deliveries, FcmAccepts(d) PROVE Known'
  BY <1>6 DEF FcmAccepts, Known, Announced
<1>7. CASE Die
  BY <1>7 DEF Die, Known, TypeOK, Announced
<1>8. CASE Restart \/ UNCHANGED vars
  BY <1>8 DEF Restart, vars, Known, Announced
<1> QED
  BY <1>1, <1>2, <1>3, <1>4, <1>5, <1>6, <1>7, <1>8, NextCases

LEMMA HashStays ==
    ASSUME TypeOK, [Next]_vars
    PROVE  \A d \in Deliveries : body[d] \in Payloads => Hash(d)' = Hash(d)
  BY BodyStays DEF Hash

LEMMA OneGetStep == TypeOK /\ Known /\ OneGet /\ [Next]_vars => OneGet'
<1> SUFFICES ASSUME TypeOK, Known, OneGet, [Next]_vars PROVE OneGet'
  OBVIOUS
<1>1. ASSUME NEW d \in Deliveries,
             Dismiss(d) \/ Silence(d) \/ Ignore(d) \/ Respond(d)
      PROVE  OneGet'
  <2>1. pc[d] # "get" /\ pipe' = pipe /\ \A e \in Deliveries \ {d} : pc'[e] = pc[e]
    BY <1>1 DEF Dismiss, Post, Silence, Ignore, Respond, Return, TypeOK
  <2> QED
    BY <2>1, PipeType DEF OneGet
<1>2. ASSUME NEW d \in Deliveries, Ask(d) PROVE OneGet'
  <2>1. /\ pc[d] = "waiting" /\ pc'[d] = "get"
        /\ \A e \in Deliveries \ {d} : pc'[e] = pc[e]
        /\ pipe' = Append(pipe, Get(d))
    BY <1>2 DEF Ask, Post, TypeOK
  <2>2. Get(d) \in Command /\ Get(d).d = d
    BY DEF Get, Command
  <2>3. \A i \in 1..Len(pipe) : pipe[i].op = "GET" => pipe[i].d # d
    BY <2>1 DEF OneGet
  <2>4. \A i \in 1..Len(pipe') : pipe'[i].op = "GET" => pc'[pipe'[i].d] = "get"
    BY <2>1, <2>2, <2>3, Push, PipeType DEF OneGet
  <2>5. \A i, j \in 1..Len(pipe') : pipe'[i].op = "GET" /\ pipe'[j] = pipe'[i] => i = j
    BY <2>1, <2>2, <2>3, Push, PipeType DEF OneGet
  <2> QED
    BY <2>4, <2>5 DEF OneGet
<1>3. ASSUME NEW d \in Deliveries, Notify(d) PROVE OneGet'
  <2>1. /\ pc[d] = "replied" /\ \A e \in Deliveries \ {d} : pc'[e] = pc[e]
        /\ pipe' = Append(pipe, Set(d))
    BY <1>3 DEF Notify, Return, TypeOK
  <2>2. Set(d) \in Command /\ Set(d).op = "SET"
    BY DEF Set, Command
  <2> QED
    BY <2>1, <2>2, Push, PipeType DEF OneGet
<1>4. ASSUME NEW d \in Deliveries, RedisGet(d) \/ RedisGetFails(d) PROVE OneGet'
  <2>1. /\ pipe # <<>> /\ pipe' = Tail(pipe) /\ Head(pipe) = Get(d)
        /\ \A e \in Deliveries \ {d} : pc'[e] = pc[e]
    BY <1>4 DEF RedisGet, RedisGetFails, Return, TypeOK
  <2>a. pipe[1] = Get(d)
    BY <2>1, Pop
  <2>2. pipe[1] = Get(d) /\ pipe[1].op = "GET"
    BY <2>a DEF Get
  <2>3. \A i \in 2..Len(pipe) : pipe[i].op = "GET" => pipe[i].d # d
    BY <2>1, <2>2, Pop, PipeType DEF OneGet
  <2> QED
    BY <2>1, <2>3, Pop, PipeType DEF OneGet
<1>5. ASSUME NEW d \in Deliveries, RedisSet(d) PROVE OneGet'
  <2>1. pipe # <<>> /\ pipe' = Tail(pipe) /\ UNCHANGED pc
    BY <1>5 DEF RedisSet
  <2> QED
    BY <2>1, Pop DEF OneGet
<1>6. CASE Die
  BY <1>6 DEF Die, OneGet
<1>7. CASE UNCHANGED <<pc, pipe>>
  BY <1>7 DEF OneGet
<1> QED
  BY <1>1, <1>2, <1>3, <1>4, <1>5, <1>6, <1>7, NextCases DEF FcmAccepts, Restart, vars

LEMMA KeysAnnouncedStep ==
    TypeOK /\ Known /\ KeysAnnounced /\ [Next]_vars => KeysAnnounced'
<1> SUFFICES ASSUME TypeOK, Known, KeysAnnounced, [Next]_vars PROVE KeysAnnounced'
  OBVIOUS
<1>a. \A d \in Deliveries : Announced(d) => body[d] \in Payloads /\ Hash(d)' = Hash(d)
  BY HashStays DEF Known
<1>b. \A d \in Deliveries : body[d] \in Payloads
                              => body'[d] \in Payloads /\ Hash(d)' = Hash(d)
  BY HashStays, BodyStays
<1>1. ASSUME NEW d \in Deliveries, Dismiss(d) PROVE KeysAnnounced'
  <2>1. /\ \A e \in Deliveries \ {d} : pc'[e] = pc[e] /\ result'[e] = result[e]
        /\ pc'[d] = "returned" /\ result'[d] = "ignored"
        /\ UNCHANGED <<pipe, keys, reply, sends, shown, sending, dropped>>
    BY <1>1 DEF Dismiss, Return, Post, TypeOK
  <2> QED
    BY <1>a, <1>b, <2>1 DEF KeysAnnounced, Announced, Known
<1>2. ASSUME NEW d \in Deliveries, Ask(d) PROVE KeysAnnounced'
  <2>1. /\ \A e \in Deliveries \ {d} : pc'[e] = pc[e]
        /\ pc'[d] = "get" /\ pipe' = Append(pipe, Get(d))
        /\ UNCHANGED <<keys, reply, result, sends, shown, sending, dropped>>
    BY <1>2 DEF Ask, Post, TypeOK
  <2>2. Get(d) \in Command /\ Get(d).op = "GET"
    BY DEF Get, Command
  <2>3. \A i \in 1..Len(pipe') : pipe'[i].op = "SET" => sends'[pipe'[i].d] > 0
    BY <2>1, <2>2, Push DEF KeysAnnounced, Announced
  <2> QED
    BY <1>a, <1>b, <2>1, <2>3 DEF KeysAnnounced, Announced, Known
<1>3. ASSUME NEW d \in Deliveries, Silence(d) \/ Ignore(d) \/ Respond(d)
      PROVE  KeysAnnounced'
  <2>1. /\ \A e \in Deliveries \ {d} :
              pc'[e] = pc[e] /\ result'[e] = result[e] /\ reply'[e] = reply[e]
        /\ pc'[d] # "replied"
        /\ UNCHANGED <<body, pipe, keys, sends, shown, sending, dropped>>
    BY <1>3 DEF Silence, Ignore, Respond, Return, TypeOK
  <2>2. result'[d] = "silenced" => body[d] \in Payloads /\ Hash(d) \in keys
    BY <1>3 DEF Silence, Ignore, Respond, Return, TypeOK, KeysAnnounced, Known
  <2> QED
    BY <2>1, <2>2 DEF KeysAnnounced, Announced, Hash
<1>4. ASSUME NEW d \in Deliveries, Notify(d) PROVE KeysAnnounced'
  <2>1. /\ \A e \in Deliveries \ {d} :
              /\ pc'[e] = pc[e] /\ result'[e] = result[e] /\ reply'[e] = reply[e]
              /\ sends'[e] = sends[e]
        /\ pc'[d] = "returned" /\ result'[d] = "sent" /\ sends'[d] > 0
        /\ pipe' = Append(pipe, Set(d)) /\ sending' = sending \cup {d}
        /\ UNCHANGED <<body, keys, shown, dropped>>
    BY <1>4 DEF Notify, Return, TypeOK
  <2>2. Set(d) \in Command /\ Set(d).d = d
    BY DEF Set, Command
  <2>3. \A e \in Deliveries : Announced(e) => Announced(e)'
    BY <2>1 DEF Announced
  <2>4. \A i \in 1..Len(pipe') : pipe'[i].op = "SET" => sends'[pipe'[i].d] > 0
    BY <2>1, <2>2, <2>3, Push, PipeType DEF KeysAnnounced, Announced
  <2>5. \A e \in Deliveries : Announced(e)' => e \in shown' \cup sending' \cup dropped'
    BY <2>1 DEF KeysAnnounced, Announced
  <2>6. \A h \in keys' : \E e \in Deliveries : Announced(e)' /\ Hash(e)' = h
    BY <2>1, <2>3 DEF KeysAnnounced, Hash
  <2>7. \A e \in Deliveries : pc'[e] = "replied" /\ reply'[e] = "1" => Hash(e)' \in keys'
    BY <2>1 DEF KeysAnnounced, Hash
  <2>8. \A e \in Deliveries :
            result'[e] = "silenced" => body'[e] \in Payloads /\ Hash(e)' \in keys'
    BY <2>1 DEF KeysAnnounced, Hash
  <2> QED
    BY <2>4, <2>5, <2>6, <2>7, <2>8 DEF KeysAnnounced, Announced
<1>5. ASSUME NEW d \in Deliveries, RedisGet(d) \/ RedisGetFails(d) PROVE KeysAnnounced'
  <2>1. /\ pipe # <<>> /\ pipe' = Tail(pipe)
        /\ \A e \in Deliveries \ {d} :
              pc'[e] = pc[e] /\ result'[e] = result[e] /\ reply'[e] = reply[e]
        /\ result'[d] # "silenced" \/ result'[d] = result[d]
        /\ pc'[d] = "replied" /\ reply'[d] = "1" => Hash(d) \in keys
        /\ UNCHANGED <<body, keys, sends, shown, sending, dropped>>
    BY <1>5 DEF RedisGet, RedisGetFails, Return, TypeOK
  <2>2. \A i \in 1..Len(pipe') : pipe'[i].op = "SET" => sends'[pipe'[i].d] > 0
    BY <2>1, Pop DEF KeysAnnounced, Announced
  <2> QED
    BY <2>1, <2>2 DEF KeysAnnounced, Announced, Hash
<1>6. ASSUME NEW d \in Deliveries, RedisSet(d) PROVE KeysAnnounced'
  <2>1. /\ pipe # <<>> /\ pipe' = Tail(pipe) /\ Head(pipe) = Set(d)
        /\ keys' = keys \cup {Hash(d)}
        /\ UNCHANGED <<pc, body, reply, result, sends, shown, sending, dropped>>
    BY <1>6 DEF RedisSet
  <2>2. pipe[1].op = "SET" /\ pipe[1].d = d
    BY <2>1, Pop DEF Set
  <2>3. Announced(d)
    BY <2>1, <2>2, Pop DEF KeysAnnounced
  <2>4. \A i \in 1..Len(pipe') : pipe'[i].op = "SET" => sends'[pipe'[i].d] > 0
    BY <2>1, Pop DEF KeysAnnounced, Announced
  <2> QED
    BY <2>1, <2>3, <2>4 DEF KeysAnnounced, Announced, Hash
<1>7. ASSUME NEW d \in Deliveries, FcmAccepts(d) PROVE KeysAnnounced'
  BY <1>7 DEF FcmAccepts, KeysAnnounced, Announced, Hash
<1>8. CASE Die
  <2>1. /\ pipe' = <<>> /\ dropped' = dropped \cup sending
        /\ \A e \in Deliveries : pc'[e] # "replied"
        /\ UNCHANGED <<body, result, keys, sends, shown>>
    BY <1>8 DEF Die, TypeOK
  <2>2. Len(pipe') = 0
    BY <2>1
  <2> QED
    BY <2>1, <2>2 DEF KeysAnnounced, Announced, Hash
<1>9. CASE Restart \/ UNCHANGED vars
  BY <1>9 DEF Restart, vars, KeysAnnounced, Announced, Hash
<1> QED
  BY <1>1, <1>2, <1>3, <1>4, <1>5, <1>6, <1>7, <1>8, <1>9, NextCases

(* Excuses are never withdrawn, and only Notify announces.                  *)
LEMMA Monotone ==
    ASSUME TypeOK, Known, [Next]_vars
    PROVE  /\ overlap \subseteq overlap' /\ lost \subseteq lost'
           /\ \A d \in Deliveries : Announced(d)' => Announced(d) \/ Notify(d)
           /\ \A d \in Deliveries : Announced(d) => body[d] \in Payloads /\ Hash(d)' = Hash(d)
           /\ \A d, e \in Deliveries :
                body[d] \in Payloads /\ Excused(d, e) => Excused(d, e)'
<1>1. overlap \subseteq overlap' /\ lost \subseteq lost'
  BY NextCases DEF Dismiss, Ask, Silence, Ignore, Notify, Respond, RedisGet, RedisSet,
     RedisGetFails, FcmAccepts, Die, Restart, vars
<1>2. \A d \in Deliveries : Announced(d)' => Announced(d) \/ Notify(d)
  <2>1. ASSUME NEW e \in Deliveries, Notify(e)
        PROVE  \A d \in Deliveries : Announced(d)' => Announced(d) \/ Notify(d)
    BY <2>1 DEF Notify, Announced, TypeOK
  <2>2. CASE UNCHANGED sends
    BY <2>2 DEF Announced
  <2> QED
    BY <2>1, <2>2, NextCases DEF Dismiss, Ask, Silence, Ignore, Respond, RedisGet,
       RedisSet, RedisGetFails, FcmAccepts, Die, Restart, vars
<1>3. \A d \in Deliveries : body[d] \in Payloads => Hash(d)' = Hash(d)
  BY HashStays
<1> QED
  BY <1>1, <1>2, <1>3 DEF Excused, Overlapped, Known

(* A GET that Redis answers belongs to a request that waits for it.         *)
LEMMA HeadIsAsking ==
    ASSUME TypeOK, OneGet, NEW d \in Deliveries, RedisGet(d)
    PROVE  pc[d] = "get" /\ pipe[1] = Get(d) /\ pipe[1].d = d /\ pipe[1].op = "GET"
<1>1. pipe[1] = Get(d) /\ 1 \in 1..Len(pipe)
  BY Pop DEF RedisGet
<1>2. pipe[1].d = d /\ pipe[1].op = "GET"
  BY <1>1 DEF Get
<1> QED
  BY <1>1, <1>2 DEF OneGet

LEMMA DecidingOverlapStep ==
    TypeOK /\ OneGet /\ DecidingOverlap /\ [Next]_vars => DecidingOverlap'
<1> SUFFICES ASSUME TypeOK, OneGet, DecidingOverlap, [Next]_vars PROVE DecidingOverlap'
  OBVIOUS
<1>1. ASSUME NEW d \in Deliveries, Ask(d) PROVE DecidingOverlap'
  <2>1. Deciding' \subseteq Deciding \cup {d}
    BY <1>1 DEF Ask, Deciding, TypeOK
  <2>2. overlap' = overlap \cup ({d} \X Deciding)
    BY <1>1 DEF Ask
  <2> QED
    BY <2>1, <2>2 DEF DecidingOverlap, Overlapped
<1>2. ASSUME NEW d \in Deliveries,
             \/ Dismiss(d) \/ Silence(d) \/ Ignore(d) \/ Notify(d)
             \/ Respond(d) \/ RedisGetFails(d)
      PROVE  DecidingOverlap'
  <2>1. Deciding' \subseteq Deciding /\ UNCHANGED overlap
    BY <1>2 DEF Dismiss, Silence, Ignore, Notify, Respond, RedisGetFails, Return, Deciding,
       TypeOK
  <2> QED
    BY <2>1 DEF DecidingOverlap, Overlapped
<1>3. CASE Die
  <2>1. Deciding' = {}
    BY <1>3 DEF Die, Deciding
  <2> QED
    BY <2>1 DEF DecidingOverlap
<1>4. CASE UNCHANGED <<pc, overlap>>
  BY <1>4 DEF DecidingOverlap, Overlapped, Deciding
<1>5. ASSUME NEW d \in Deliveries, RedisGet(d) PROVE DecidingOverlap'
  <2>1. pc[d] = "get" /\ pipe # <<>>
    BY <1>5, HeadIsAsking DEF RedisGet
  <2>2. Deciding' \subseteq Deciding /\ UNCHANGED overlap
    BY <1>5, <2>1 DEF RedisGet, Deciding, TypeOK
  <2> QED
    BY <2>2 DEF DecidingOverlap, Overlapped
<1> QED
  BY <1>1, <1>2, <1>3, <1>4, <1>5, NextCases DEF RedisSet, FcmAccepts, Restart, vars

(* A key secured by the first n commands stays secured by them, whatever is *)
(* added behind.                                                            *)
LEMMA SecuredPush ==
    ASSUME TypeOK, Known, [Next]_vars, UNCHANGED keys,
           UNCHANGED pipe \/ \E c \in Command : pipe' = Append(pipe, c),
           NEW n \in 0..Len(pipe), NEW h, Secured(h, n)
    PROVE  Secured(h, n)'
<1>1. CASE h \in keys
  BY <1>1 DEF Secured
<1>2. ASSUME NEW i \in 1..n, pipe[i].op = "SET", Hash(pipe[i].d) = h
      PROVE  Secured(h, n)'
  <2>1. i \in 1..Len(pipe) /\ pipe[i].d \in Deliveries /\ body[pipe[i].d] \in Payloads
    BY PipeType DEF Known, TypeOK
  <2>2. pipe'[i] = pipe[i]
    BY <2>1, Push
  <2>3. Hash(pipe[i].d)' = h
    <3> DEFINE f == pipe[i].d
    <3>1. body'[f] = body[f]
      BY <2>1, BodyStays
    <3> QED
      BY <1>2, <2>2, <3>1 DEF Hash
  <2> QED
    BY <1>2, <2>2, <2>3 DEF Secured
<1> QED
  BY <1>1, <1>2 DEF Secured

(* When Redis answers the head, the first n - 1 of the rest secure what the *)
(* first n did.                                                             *)
LEMMA SecuredPop ==
    ASSUME TypeOK, Known, [Next]_vars, keys \subseteq keys',
           pipe # <<>>, pipe' = Tail(pipe),
           pipe[1].op = "SET" => Hash(pipe[1].d) \in keys',
           NEW n \in 1..Len(pipe), NEW h, Secured(h, n)
    PROVE  Secured(h, n - 1)'
<1>1. CASE h \in keys'
  BY <1>1 DEF Secured
<1>2. ASSUME NEW i \in 2..n, pipe[i].op = "SET", Hash(pipe[i].d) = h
      PROVE  Secured(h, n - 1)'
  <2>1. i \in 2..Len(pipe) /\ i - 1 \in 1..(n - 1)
    BY DEF TypeOK
  <2>2. pipe[i].d \in Deliveries /\ body[pipe[i].d] \in Payloads
    BY <2>1, PipeType DEF Known
  <2>3. pipe'[i - 1] = pipe[i]
    BY <2>1, Pop
  <2>4. body'[pipe[i].d] = body[pipe[i].d]
    BY <2>2, BodyStays
  <2>5. pipe'[i - 1].op = "SET" /\ HashOf(body'[pipe'[i - 1].d]) = h
    BY <1>2, <2>3, <2>4 DEF Hash
  <2> QED
    BY <2>1, <2>5 DEF Secured, Hash
<1> QED
  BY <1>1, <1>2 DEF Secured

(* How a step changes the connection: it adds behind, or Redis answers the  *)
(* head, or the process dies with all of it.                                *)
LEMMA PipeCases ==
    ASSUME TypeOK, [Next]_vars
    PROVE  \/ /\ UNCHANGED keys
              /\ UNCHANGED pipe \/ \E c \in Command : pipe' = Append(pipe, c)
           \/ /\ pipe # <<>> /\ pipe' = Tail(pipe) /\ keys \subseteq keys'
              /\ pipe[1].op = "SET" => Hash(pipe[1].d) \in keys'
              /\ UNCHANGED <<sends, overlap, lost>>
           \/ Die
<1> DEFINE Kept == /\ UNCHANGED keys
                   /\ UNCHANGED pipe \/ \E c \in Command : pipe' = Append(pipe, c)
           Popped == /\ pipe # <<>> /\ pipe' = Tail(pipe) /\ keys \subseteq keys'
                     /\ pipe[1].op = "SET" => Hash(pipe[1].d) \in keys'
                     /\ UNCHANGED <<sends, overlap, lost>>
<1>1. ASSUME NEW d \in Deliveries PROVE Get(d) \in Command /\ Set(d) \in Command
  BY DEF Get, Set, Command
<1>2. ASSUME NEW d \in Deliveries, Ask(d) \/ Notify(d) PROVE Kept
  BY <1>1, <1>2 DEF Ask, Notify
<1>3. ASSUME NEW d \in Deliveries, RedisGet(d) \/ RedisGetFails(d) PROVE Popped
  <2>1. pipe # <<>> /\ pipe' = Tail(pipe) /\ Head(pipe) = Get(d)
        /\ UNCHANGED <<keys, sends, overlap, lost>>
    BY <1>3 DEF RedisGet, RedisGetFails
  <2>2. pipe[1] = Get(d)
    BY <2>1, Pop
  <2> QED
    BY <2>1, <2>2 DEF Get
<1>4. ASSUME NEW d \in Deliveries, RedisSet(d) PROVE Popped
  <2>1. pipe # <<>> /\ pipe' = Tail(pipe) /\ Head(pipe) = Set(d)
        /\ keys' = keys \cup {Hash(d)} /\ UNCHANGED <<sends, overlap, lost>>
    BY <1>4 DEF RedisSet
  <2>2. pipe[1] = Set(d)
    BY <2>1, Pop
  <2> QED
    BY <2>1, <2>2 DEF Set
<1>5. CASE UNCHANGED <<pipe, keys>>
  BY <1>5
<1>6. CASE Die
  BY <1>6
<1> QED
  BY <1>2, <1>3, <1>4, <1>5, <1>6, NextCases DEF Dismiss, Silence, Ignore, Respond,
     FcmAccepts, Restart, vars

LEMMA AnnouncedSecuredStep ==
    TypeOK /\ Known /\ AnnouncedSecured /\ [Next]_vars => AnnouncedSecured'
<1> SUFFICES ASSUME TypeOK, Known, AnnouncedSecured, [Next]_vars,
                    NEW d \in Deliveries, Announced(d)'
             PROVE  (Hash(d) \in lost \/ Secured(Hash(d), Len(pipe)))'
  BY DEF AnnouncedSecured
<1>0. Len(pipe) \in Nat
  BY DEF TypeOK
<1>1. CASE Notify(d)
  <2>1. pipe' = Append(pipe, Set(d)) /\ Set(d) \in Command /\ UNCHANGED body
    BY <1>1 DEF Notify, Set, Command
  <2>2. pipe'[Len(pipe')] = Set(d) /\ Len(pipe') \in 1..Len(pipe')
    BY <2>1, Push
  <2>3. Set(d).op = "SET" /\ Set(d).d = d
    BY DEF Set
  <2>4. pipe'[Len(pipe')].op = "SET" /\ HashOf(body'[pipe'[Len(pipe')].d]) = HashOf(body'[d])
    BY <2>2, <2>3
  <2> QED
    BY <2>2, <2>4 DEF Secured, Hash
<1>2. CASE Announced(d)
  <2>1. /\ lost \subseteq lost' /\ Hash(d)' = Hash(d)
        /\ Hash(d) \in lost \/ Secured(Hash(d), Len(pipe))
    BY <1>2, Monotone DEF AnnouncedSecured
  <2> DEFINE h == Hash(d)
             n == Len(pipe)
  <2>2. CASE h \in lost
    BY <2>1, <2>2
  <2>3. CASE Secured(h, n) /\ UNCHANGED keys
             /\ (UNCHANGED pipe \/ \E c \in Command : pipe' = Append(pipe, c))
    <3>1. ASSUME NEW k, k = h, NEW m, m = n PROVE Secured(k, m)'
      BY <1>0, <2>3, <3>1, SecuredPush
    <3>2. Len(pipe') \in Nat /\ n <= Len(pipe')
      BY <1>0, <2>3, Push
    <3> QED
      BY <2>1, <3>1, <3>2, <1>0 DEF Secured
  <2>4. CASE /\ Secured(h, n)
             /\ pipe # <<>> /\ pipe' = Tail(pipe) /\ keys \subseteq keys'
             /\ pipe[1].op = "SET" => Hash(pipe[1].d) \in keys'
    <3>1. n \in 1..Len(pipe) /\ Len(pipe') = n - 1
      BY <1>0, <2>4, Pop
    <3>2. ASSUME NEW k, k = h, NEW m, m = n PROVE Secured(k, m - 1)'
      BY <2>4, <3>1, <3>2, SecuredPop
    <3> QED
      BY <2>1, <3>1, <3>2 DEF Secured
  <2>5. CASE Secured(h, n) /\ Die
    <3>1. h \in keys \/ h \in LostSets
      <4> SUFFICES ASSUME NEW i \in 1..n, pipe[i].op = "SET", Hash(pipe[i].d) = h
                   PROVE  h \in LostSets
        BY <2>5 DEF Secured
      <4> QED
        BY PipeType DEF LostSets, Pending
    <3> QED
      BY <2>1, <2>5, <3>1 DEF Die, Secured
  <2> QED
    BY <2>1, <2>2, <2>3, <2>4, <2>5, PipeCases
<1> QED
  BY <1>1, <1>2, Monotone

LEMMA GetBehindSetStep == IInv /\ [Next]_vars => GetBehindSet'
<1> SUFFICES ASSUME IInv, [Next]_vars,
                    NEW j \in 1..Len(pipe'), NEW e \in Deliveries,
                    pipe'[j].op = "GET", Announced(e)', Hash(e)' = HashOf(body'[pipe'[j].d])
             PROVE  (Excused(pipe[j].d, e) \/ Secured(Hash(e), j))'
  BY DEF GetBehindSet, Hash
<1> USE DEF IInv
<1>0. Len(pipe) \in Nat
  BY DEF TypeOK
<1>m. /\ overlap \subseteq overlap' /\ lost \subseteq lost'
      /\ Announced(e) \/ Notify(e)
      /\ Announced(e) => body[e] \in Payloads /\ Hash(e)' = Hash(e)
      /\ \A d, f \in Deliveries : body[d] \in Payloads /\ Excused(d, f) => Excused(d, f)'
  BY Monotone
<1>1. CASE Die
  BY <1>1 DEF Die
<1>2. CASE /\ pipe # <<>> /\ pipe' = Tail(pipe) /\ keys \subseteq keys'
           /\ pipe[1].op = "SET" => Hash(pipe[1].d) \in keys'
           /\ UNCHANGED <<sends, overlap, lost>>
  <2>1. j + 1 \in 1..Len(pipe) /\ pipe'[j] = pipe[j + 1]
    BY <1>2, Pop
  <2> DEFINE d == pipe[j + 1].d
  <2>2. Announced(e) /\ Hash(e)' = Hash(e)
    BY <1>2, <1>m DEF Announced
  <2>3. d \in Deliveries /\ body[d] \in Payloads /\ body'[d] = body[d]
    BY <2>1, PipeType, BodyStays DEF Known
  <2>4. Hash(e) = Hash(d)
    BY <2>1, <2>2, <2>3 DEF Hash
  <2>5. Excused(d, e) \/ Secured(Hash(e), j + 1)
    BY <2>1, <2>2, <2>4 DEF GetBehindSet
  <2>6. CASE Excused(d, e)
    <3>1. HashOf(body'[d]) \in lost' \/ (d # e /\ (<<d, e>> \in overlap' \/ <<e, d>> \in overlap'))
      BY <1>m, <2>3, <2>6 DEF Excused, Overlapped, Hash
    <3> QED
      BY <2>1, <3>1 DEF Excused, Overlapped, Hash
  <2>7. CASE Secured(Hash(e), j + 1)
    <3>1. ASSUME NEW k, k = Hash(e) PROVE Secured(k, j)'
      <4>1. Secured(k, (j + 1) - 1)'
        BY <1>2, <2>1, <2>7, <3>1, SecuredPop
      <4>2. (j + 1) - 1 = j
        BY <2>1
      <4> QED
        BY <4>1, <4>2
    <3> QED
      BY <2>2, <3>1 DEF Secured
  <2> QED
    BY <2>5, <2>6, <2>7
<1>3. CASE /\ UNCHANGED keys
           /\ UNCHANGED pipe \/ \E c \in Command : pipe' = Append(pipe, c)
  <2>1. CASE j \in 1..Len(pipe)
    <3> DEFINE d == pipe[j].d
    <3>1. pipe'[j] = pipe[j]
      BY <1>3, <2>1, Push
    <3>2. /\ d \in Deliveries /\ body[d] \in Payloads /\ body'[d] = body[d]
          /\ pc[d] = "get"
      BY <2>1, <3>1, PipeType, BodyStays DEF Known, OneGet
    <3>3. CASE Announced(e)
      <4>1. Hash(e)' = Hash(e) /\ Hash(e) = Hash(d)
        BY <1>m, <3>1, <3>2, <3>3 DEF Hash
      <4>2. Excused(d, e) \/ Secured(Hash(e), j)
        BY <2>1, <3>1, <3>3, <4>1 DEF GetBehindSet
      <4>3. CASE Excused(d, e)
        <5>1. HashOf(body'[d]) \in lost' \/ (d # e /\ (<<d, e>> \in overlap' \/ <<e, d>> \in overlap'))
          BY <1>m, <3>2, <4>3 DEF Excused, Overlapped, Hash
        <5> QED
          BY <3>1, <5>1 DEF Excused, Overlapped, Hash
      <4>4. CASE Secured(Hash(e), j)
        <5>1. ASSUME NEW k, k = Hash(e) PROVE Secured(k, j)'
          BY <1>0, <1>3, <2>1, <4>4, <5>1, SecuredPush
        <5> QED
          BY <4>1, <5>1 DEF Secured
      <4> QED
        BY <4>2, <4>3, <4>4
    <3>4. CASE Notify(e)
      <4>1. e \in Deciding /\ d \in Deciding /\ d # e
        BY <3>2, <3>4 DEF Notify, Deciding
      <4>2. <<d, e>> \in overlap' \/ <<e, d>> \in overlap'
        BY <1>m, <4>1 DEF DecidingOverlap, Overlapped
      <4> QED
        BY <3>1, <4>1, <4>2 DEF Excused, Overlapped
    <3> QED
      BY <1>m, <3>3, <3>4
  <2>2. CASE j \notin 1..Len(pipe)
    <3>1. PICK c \in Command : pipe' = Append(pipe, c)
      BY <1>3, <2>2
    <3>2. j = Len(pipe') /\ j = Len(pipe) + 1 /\ pipe'[j] = c
      BY <2>2, <3>1, Push
    <3>3. ~Notify(e)
      BY <3>2 DEF Notify, Set
    <3>4. Announced(e) /\ Hash(e)' = Hash(e)
      BY <1>m, <3>3
    <3>5. Hash(e) \in lost \/ Secured(Hash(e), Len(pipe))
      BY <3>4 DEF AnnouncedSecured
    <3>6. CASE Hash(e) \in lost
      BY <1>m, <3>4, <3>6 DEF Excused, Hash
    <3>7. CASE Secured(Hash(e), Len(pipe))
      <4>1. ASSUME NEW k, k = Hash(e), NEW m, m = Len(pipe) PROVE Secured(k, m)'
        BY <1>0, <1>3, <3>7, <4>1, SecuredPush
      <4> QED
        BY <1>0, <3>2, <3>4, <4>1 DEF Secured
    <3> QED
      BY <3>5, <3>6, <3>7
  <2> QED
    BY <2>1, <2>2
<1> QED
  BY <1>1, <1>2, <1>3, PipeCases

LEMMA NilIsFreshStep == IInv /\ [Next]_vars => NilIsFresh'
<1> SUFFICES ASSUME IInv, [Next]_vars,
                    NEW d \in Deliveries, NEW e \in Deliveries,
                    pc'[d] = "replied", reply'[d] = "nil",
                    Announced(e)', Hash(e)' = Hash(d)'
             PROVE  Excused(d, e)'
  BY DEF NilIsFresh
<1> USE DEF IInv
<1>m. /\ overlap \subseteq overlap'
      /\ Announced(e) \/ Notify(e)
      /\ Announced(e) => body[e] \in Payloads /\ Hash(e)' = Hash(e)
      /\ body[d] \in Payloads /\ Excused(d, e) => Excused(d, e)'
  BY Monotone
<1>1. CASE RedisGet(d)
  <2>1. /\ pipe[1].d = d /\ pipe[1].op = "GET" /\ 1 \in 1..Len(pipe)
        /\ Hash(d) \notin keys /\ UNCHANGED <<sends, body>>
    <3>1. pipe[1].d = d /\ pipe[1].op = "GET"
      BY <1>1, HeadIsAsking
    <3>2. 1 \in 1..Len(pipe)
      BY <1>1, Pop DEF RedisGet
    <3>3. reply'[d] = IF Hash(d) \in keys THEN "1" ELSE "nil"
      BY <1>1 DEF RedisGet, TypeOK
    <3> QED
      BY <1>1, <3>1, <3>2, <3>3 DEF RedisGet
  <2>2. Announced(e) /\ Hash(e) = Hash(d) /\ body[d] \in Payloads
    BY <2>1 DEF Announced, Hash, Known
  <2>3. Excused(d, e) \/ Secured(Hash(e), 1)
    BY <2>1, <2>2 DEF GetBehindSet
  <2>4. ~Secured(Hash(e), 1)
    BY <2>1, <2>2 DEF Secured
  <2> QED
    BY <1>m, <2>2, <2>3, <2>4
<1>2. CASE ~RedisGet(d)
  <2>1. pc[d] = "replied" /\ reply[d] = "nil" /\ ~Notify(d)
    <3>1. ASSUME NEW f \in Deliveries,
                 \/ Dismiss(f) \/ Ask(f) \/ Silence(f) \/ Ignore(f) \/ Notify(f)
                 \/ Respond(f) \/ RedisGetFails(f)
          PROVE  f # d /\ pc'[d] = pc[d] /\ reply'[d] = reply[d]
      BY <3>1 DEF Dismiss, Ask, Post, Silence, Ignore, Notify, Respond, RedisGetFails,
         Return, TypeOK
    <3>2. ASSUME NEW f \in Deliveries, RedisGet(f)
          PROVE  pc'[d] = pc[d] /\ reply'[d] = reply[d]
      BY <1>2, <3>2 DEF RedisGet, TypeOK
    <3>3. ~Die
      BY DEF Die
    <3>4. UNCHANGED <<pc, reply>> => pc'[d] = pc[d] /\ reply'[d] = reply[d] /\ ~Notify(d)
      BY DEF Notify, Return, TypeOK
    <3>5. pc'[d] = pc[d] /\ reply'[d] = reply[d]
      BY <3>1, <3>2, <3>3, NextCases DEF RedisSet, FcmAccepts, Restart, vars
    <3>6. ~Notify(d)
      BY <3>1
    <3> QED
      BY <3>5, <3>6
  <2>2. body[d] \in Payloads /\ Hash(d)' = Hash(d)
    BY <2>1, HashStays DEF Known
  <2>3. CASE Announced(e)
    BY <1>m, <2>1, <2>2, <2>3 DEF NilIsFresh
  <2>4. CASE Notify(e)
    <3>1. e \in Deciding /\ d \in Deciding /\ d # e
      BY <2>1, <2>4 DEF Notify, Deciding
    <3>2. Overlapped(d, e)'
      BY <1>m, <3>1 DEF DecidingOverlap, Overlapped
    <3> QED
      BY <3>1, <3>2 DEF Excused
  <2> QED
    BY <1>m, <2>3, <2>4
<1> QED
  BY <1>1, <1>2

LEMMA SoundStep == IInv /\ [Next]_vars => Sound'
<1> SUFFICES ASSUME IInv, [Next]_vars PROVE Sound'
  OBVIOUS
<1> USE DEF IInv
<1>m. /\ overlap \subseteq overlap' /\ lost \subseteq lost'
      /\ \A d \in Deliveries : Announced(d)' => Announced(d) \/ Notify(d)
      /\ \A d \in Deliveries : Announced(d) => Hash(d)' = Hash(d)
  BY Monotone
<1>1. ASSUME NEW d \in Deliveries, Notify(d)
      PROVE  /\ UNCHANGED <<body, lost, overlap>>
             /\ \A e \in Deliveries \ {d} : sends'[e] = sends[e] /\ ~Notify(e)
             /\ sends[d] \in Nat /\ sends'[d] = sends[d] + 1
             /\ \A e \in Deliveries : Announced(e) /\ Hash(e) = Hash(d) => Excused(d, e)
  BY <1>1 DEF Notify, Return, TypeOK, NilIsFresh
<1>2. ASSUME NEW d \in Deliveries, Notify(d) PROVE Sound'
  <2>1. DuplicateNeedsOverlapOrLoss'
    BY <1>1, <1>2 DEF Sound, DuplicateNeedsOverlapOrLoss, Announced, Excused, Overlapped, Hash
  <2>2. RepeatNeedsLoss'
    BY <1>1, <1>2 DEF Sound, RepeatNeedsLoss, Announced, Excused, Hash
  <2> QED
    BY <2>1, <2>2 DEF Sound
<1>3. CASE \A d \in Deliveries : ~Notify(d)
  <2>1. UNCHANGED sends
    BY <1>3, NextCases DEF Dismiss, Ask, Silence, Ignore, Respond, RedisGet,
       RedisSet, RedisGetFails, FcmAccepts, Die, Restart, vars
  <2>2. DuplicateNeedsOverlapOrLoss'
    BY <1>m, <1>3 DEF Sound, DuplicateNeedsOverlapOrLoss
  <2>3. ASSUME NEW d \in Deliveries, sends'[d] > 1 PROVE Hash(d)' \in lost'
    <3>1. sends[d] > 1 /\ Announced(d)
      BY <2>1, <2>3 DEF Announced, TypeOK
    <3> QED
      BY <1>m, <3>1 DEF Sound, RepeatNeedsLoss
  <2> QED
    BY <2>2, <2>3 DEF Sound, RepeatNeedsLoss
<1> QED
  BY <1>2, <1>3

LEMMA IInvInit == Init => IInv
<1> SUFFICES ASSUME Init PROVE IInv
  OBVIOUS
<1>1. TypeOK
  BY TypeOKInit
<1>2. /\ Len(pipe) = 0 /\ keys = {} /\ Deciding = {}
      /\ \A d \in Deliveries : ~Announced(d) /\ sends[d] = 0 /\ pc[d] = "waiting"
                               /\ result[d] = "none"
  BY DEF Init, Deciding, Announced
<1> QED
  BY <1>1, <1>2 DEF IInv, Known, OneGet, KeysAnnounced, DecidingOverlap, AnnouncedSecured,
     GetBehindSet, NilIsFresh, Sound, DuplicateNeedsOverlapOrLoss, RepeatNeedsLoss

LEMMA IInvStep == IInv /\ [Next]_vars => IInv'
<1> SUFFICES ASSUME IInv, [Next]_vars PROVE IInv'
  OBVIOUS
<1>1. GetBehindSet' /\ NilIsFresh' /\ Sound'
  BY GetBehindSetStep, NilIsFreshStep, SoundStep
<1> QED
  BY <1>1, TypeOKStep, KnownStep, OneGetStep, KeysAnnouncedStep, DecidingOverlapStep,
     AnnouncedSecuredStep DEF IInv

THEOREM Invariant == Spec => []IInv
  BY IInvInit, IInvStep, PTL DEF Spec

(* Every variable keeps the type TypeOK gives it, whatever is delivered in  *)
(* whatever order and wherever the process dies.                            *)
THEOREM TypeCorrect == Spec => []TypeOK
<1>1. IInv => TypeOK
  BY DEF IInv
<1> QED
  BY <1>1, Invariant, PTL

(* The duplicate-notice window of lines 129-156, for any number of          *)
(* deliveries: two announcements of one hash overlapped, or a SET was lost. *)
THEOREM NoDuplicate == Spec => []DuplicateNeedsOverlapOrLoss
<1>1. IInv => DuplicateNeedsOverlapOrLoss
  BY DEF IInv, Sound
<1> QED
  BY <1>1, Invariant, PTL

(* A retried delivery is announced again only if its SET was lost.          *)
THEOREM NoRepeat == Spec => []RepeatNeedsLoss
<1>1. IInv => RepeatNeedsLoss
  BY DEF IInv, Sound
<1> QED
  BY <1>1, Invariant, PTL

(* What lines 132-137 silence was announced by some delivery, and that      *)
(* announcement was shown, is under way, or died with the process.          *)
THEOREM Accounted == Spec => []SilencedIsAccountedFor
<1>1. IInv => SilencedIsAccountedFor
  BY DEF IInv, KeysAnnounced, SilencedIsAccountedFor
<1> QED
  BY <1>1, Invariant, PTL

-----------------------------------------------------------------------------
\* What the handler concluded is what the body deserves.
Judged ==
    \A d \in Deliveries :
        /\ pc[d] \in {"get", "replied"} => ~body[d].test /\ ~Throws(body[d])
        /\ pc[d] \in {"returned", "done"} =>
            /\ result[d] # "none"
            /\ result[d] = "sent" => Announced(d)
            /\ result[d] = "ignored" => ~Qualifies(body[d])

LEMMA JudgedInit == Init => Judged
  BY DEF Init, Judged

LEMMA JudgedStep == IInv /\ Judged /\ [Next]_vars => Judged'
<1> SUFFICES ASSUME IInv, Judged, [Next]_vars PROVE Judged'
  OBVIOUS
<1> USE DEF IInv
<1>0. \A d \in Deliveries : pc[d] # "waiting" => body'[d] = body[d]
  BY BodyStays DEF Known
<1>1. ASSUME NEW d \in Deliveries, Dismiss(d) PROVE Judged'
  <2>1. /\ pc'[d] = "returned" /\ result'[d] = "ignored" /\ pc[d] = "waiting"
        /\ \A e \in Deliveries \ {d} : pc'[e] = pc[e] /\ result'[e] = result[e]
        /\ UNCHANGED sends
    BY <1>1 DEF Dismiss, Post, Return, TypeOK
  <2>2. ~Qualifies(body'[d])
    BY <1>1 DEF Dismiss, Post, Qualifies, TypeOK
  <2> QED
    BY <1>0, <2>1, <2>2 DEF Judged, Announced
<1>2. ASSUME NEW d \in Deliveries, Ask(d) PROVE Judged'
  <2>1. /\ pc'[d] = "get" /\ pc[d] = "waiting"
        /\ \A e \in Deliveries \ {d} : pc'[e] = pc[e]
        /\ UNCHANGED <<sends, result>>
    BY <1>2 DEF Ask, Post, TypeOK
  <2>2. ~body'[d].test /\ ~Throws(body'[d])
    BY <1>2 DEF Ask, Post, TypeOK
  <2> QED
    BY <1>0, <2>1, <2>2 DEF Judged, Announced
<1>3. ASSUME NEW d \in Deliveries,
             Silence(d) \/ Ignore(d) \/ RedisGetFails(d) \/ Respond(d)
      PROVE  Judged'
  <2>1. /\ pc'[d] \in {"returned", "done"}
        /\ \A e \in Deliveries \ {d} : pc'[e] = pc[e] /\ result'[e] = result[e]
        /\ UNCHANGED <<sends, body>>
    BY <1>3 DEF Silence, Ignore, RedisGetFails, Respond, Return, TypeOK
  <2>2. \/ result'[d] \in {"silenced", "failed"}
        \/ result'[d] = "ignored" /\ ~Matches(body[d])
        \/ result'[d] = result[d] /\ pc[d] = "returned"
    BY <1>3 DEF Silence, Ignore, RedisGetFails, Respond, Return, TypeOK
  <2> QED
    BY <2>1, <2>2 DEF Judged, Announced, Qualifies
<1>4. ASSUME NEW d \in Deliveries, Notify(d) PROVE Judged'
  <2>1. /\ pc'[d] = "returned" /\ result'[d] = "sent" /\ sends'[d] > 0
        /\ \A e \in Deliveries \ {d} : pc'[e] = pc[e] /\ result'[e] = result[e]
                                       /\ sends'[e] = sends[e]
        /\ UNCHANGED body
    BY <1>4 DEF Notify, Return, TypeOK
  <2> QED
    BY <2>1 DEF Judged, Announced
<1>5. ASSUME NEW d \in Deliveries, RedisGet(d) PROVE Judged'
  <2>1. /\ pc'[d] = "replied" /\ pc[d] = "get"
        /\ \A e \in Deliveries \ {d} : pc'[e] = pc[e]
        /\ UNCHANGED <<sends, body, result>>
    BY <1>5, HeadIsAsking DEF RedisGet, TypeOK
  <2> QED
    BY <2>1 DEF Judged, Announced
<1>6. CASE Die
  <2>1. /\ \A e \in Deliveries : pc'[e] = "waiting" \/ (pc'[e] = "done" /\ pc[e] = "done")
        /\ UNCHANGED <<sends, body, result>>
    BY <1>6 DEF Die, TypeOK
  <2> QED
    BY <2>1 DEF Judged, Announced
<1>7. CASE UNCHANGED <<pc, body, result, sends>>
  BY <1>7 DEF Judged, Announced
<1> QED
  BY <1>1, <1>2, <1>3, <1>4, <1>5, <1>6, <1>7, NextCases DEF RedisSet, FcmAccepts, Restart,
     vars

\* The instance of the abstract specification reads payloads as the handler does.
LEMMA SamePayload ==
    \A p : Notice!HashOf(p) = HashOf(p) /\ (Notice!Qualifies(p) <=> Qualifies(p))
BY DEF Notice!HashOf, Notice!Picked, Notice!NoItem, Notice!Qualifies, Notice!Throws,
   Notice!Matches, Notice!StartsWith, HashOf, Picked, NoItem, Qualifies, Throws, Matches,
   StartsWith

LEMMA PromiseInit == Init => Notice!Init
  BY DEF Init, Notice!Init, outcomeBar, Announced

LEMMA PromiseStep == IInv /\ Judged /\ [Next]_vars => [Notice!Next]_(Notice!vars)
<1> SUFFICES ASSUME IInv, Judged, [Next]_vars PROVE [Notice!Next]_(Notice!vars)
  OBVIOUS
<1> USE DEF IInv
<1>a. \A d \in Deliveries :
        outcomeBar[d] = IF Announced(d) THEN "told"
                        ELSE IF pc[d] = "done" THEN result[d] ELSE "pending"
  BY DEF outcomeBar
<1>b. (\A d \in Deliveries :
         /\ Announced(d)' <=> Announced(d)
         /\ ~Announced(d) => /\ (pc'[d] = "done" <=> pc[d] = "done")
                             /\ pc[d] = "done" => result'[d] = result[d])
      => UNCHANGED outcomeBar
  BY DEF outcomeBar
<1>1. ASSUME NEW d \in Deliveries, Dismiss(d) \/ Ask(d)
      PROVE  [Notice!Next]_(Notice!vars)
  <2>1. /\ pc[d] = "waiting" /\ pc'[d] # "done"
        /\ \A e \in Deliveries \ {d} : pc'[e] = pc[e] /\ result'[e] = result[e]
        /\ UNCHANGED <<sends, keys>>
    BY <1>1 DEF Dismiss, Ask, Post, Return, TypeOK
  <2>2. UNCHANGED outcomeBar
    BY <1>b, <2>1 DEF Announced
  <2>3. PICK p \in Payloads : body[d] \in {None, p} /\ body' = [body EXCEPT ![d] = p]
    BY <1>1 DEF Dismiss, Ask, Post
  <2>4. CASE body[d] = None
    BY <2>1, <2>2, <2>3, <2>4 DEF Notice!Next, Notice!Arrive
  <2>5. CASE body[d] = p
    BY <2>1, <2>2, <2>3, <2>5 DEF Notice!vars, TypeOK
  <2> QED
    BY <2>3, <2>4, <2>5
<1>2. ASSUME NEW d \in Deliveries, Notify(d)
      PROVE  [Notice!Next]_(Notice!vars)
  <2>1. /\ pc[d] = "replied" /\ pc'[d] = "returned" /\ Matches(body[d]) /\ sends'[d] > 0
        /\ \A e \in Deliveries \ {d} :
              pc'[e] = pc[e] /\ result'[e] = result[e] /\ sends'[e] = sends[e]
        /\ UNCHANGED <<body, keys>>
    BY <1>2 DEF Notify, Return, TypeOK
  <2>2. CASE Announced(d)
    BY <1>b, <2>1, <2>2 DEF Notice!vars, Announced
  <2>3. CASE ~Announced(d)
    <3>1. outcomeBar[d] = "pending" /\ outcomeBar' = [outcomeBar EXCEPT ![d] = "told"]
      BY <2>1, <2>3 DEF outcomeBar, Announced
    <3>2. body[d] # None /\ Qualifies(body[d])
      BY <2>1, PayloadsAssumption DEF Known, Judged, Qualifies
    <3> QED
      BY <2>1, <3>1, <3>2, SamePayload DEF Notice!Next, Notice!Tell, Notice!Settle
  <2> QED
    BY <2>2, <2>3
<1>3. ASSUME NEW d \in Deliveries, Respond(d)
      PROVE  [Notice!Next]_(Notice!vars)
  <2>1. /\ pc[d] = "returned" /\ pc'[d] = "done"
        /\ \A e \in Deliveries \ {d} : pc'[e] = pc[e]
        /\ UNCHANGED <<body, keys, sends, result>>
    BY <1>3 DEF Respond, TypeOK
  <2>2. CASE Announced(d)
    BY <1>b, <2>1, <2>2 DEF Notice!vars, Announced
  <2>3. CASE ~Announced(d)
    <3>1. outcomeBar[d] = "pending" /\ outcomeBar' = [outcomeBar EXCEPT ![d] = result[d]]
      BY <2>1, <2>3 DEF outcomeBar, Announced
    <3>2. body[d] # None
      BY <2>1, PayloadsAssumption DEF Known
    <3>3. \/ result[d] = "silenced" /\ Hash(d) \in keys
          \/ result[d] = "ignored" /\ ~Qualifies(body[d])
          \/ result[d] = "failed"
      BY <2>1, <2>3 DEF Judged, KeysAnnounced, TypeOK
    <3> QED
      BY <2>1, <3>1, <3>2, <3>3, SamePayload DEF Notice!Next, Notice!Silence, Notice!Ignore,
         Notice!Fail, Notice!Settle, Hash
  <2> QED
    BY <2>2, <2>3
<1>4. ASSUME NEW d \in Deliveries, RedisSet(d)
      PROVE  [Notice!Next]_(Notice!vars)
  <2>1. /\ pipe # <<>> /\ pipe' = Tail(pipe) /\ Head(pipe) = Set(d)
        /\ keys' = keys \cup {Hash(d)}
        /\ UNCHANGED <<body, pc, result, sends>>
    BY <1>4 DEF RedisSet
  <2>2. pipe[1] = Set(d) /\ 1 \in 1..Len(pipe)
    BY <2>1, Pop
  <2>3. pipe[1].op = "SET" /\ pipe[1].d = d
    BY <2>2 DEF Set
  <2>4. Announced(d)
    BY <2>2, <2>3 DEF KeysAnnounced
  <2>5. outcomeBar[d] = "told" /\ UNCHANGED outcomeBar
    BY <1>a, <1>b, <2>1, <2>4 DEF Announced
  <2> QED
    BY <2>1, <2>5, SamePayload DEF Notice!Next, Notice!Claim, Hash
<1>5. ASSUME NEW d \in Deliveries,
             Silence(d) \/ Ignore(d) \/ RedisGet(d) \/ RedisGetFails(d)
      PROVE  UNCHANGED (Notice!vars)
  <2>1. /\ pc[d] # "done" /\ pc'[d] # "done"
        /\ \A e \in Deliveries \ {d} : pc'[e] = pc[e] /\ result'[e] = result[e]
        /\ UNCHANGED <<sends, keys, body>>
    <3>1. RedisGetFails(d) => pc[d] = "get"
      <4> SUFFICES ASSUME RedisGetFails(d) PROVE pc[d] = "get"
        OBVIOUS
      <4>1. pipe[1] = Get(d) /\ 1 \in 1..Len(pipe)
        BY Pop DEF RedisGetFails
      <4>2. pipe[1].op = "GET" /\ pipe[1].d = d
        BY <4>1 DEF Get
      <4> QED
        BY <4>1, <4>2 DEF OneGet
    <3>2. RedisGet(d) => pc[d] = "get"
      BY HeadIsAsking
    <3> QED
      BY <1>5, <3>1, <3>2 DEF Silence, Ignore, RedisGet, RedisGetFails, Return, TypeOK
  <2> QED
    BY <1>b, <2>1 DEF Notice!vars, Announced
<1>6. CASE Die
  <2>1. /\ \A e \in Deliveries : pc'[e] = "done" <=> pc[e] = "done"
        /\ UNCHANGED <<sends, body, result, keys>>
    BY <1>6 DEF Die, TypeOK
  <2> QED
    BY <1>b, <2>1 DEF Notice!vars, Announced
<1>7. CASE UNCHANGED <<pc, body, result, sends, keys>>
  BY <1>b, <1>7 DEF Notice!vars, Announced
<1> QED
  BY <1>1, <1>2, <1>3, <1>4, <1>5, <1>6, <1>7, NextCases DEF FcmAccepts, Restart, vars

(* The handler with its Redis connection, FCM, crashes and retries keeps    *)
(* the promise of FundsNotice: each event settles once, silence only after  *)
(* a claim, and a claim only after an announcement.                         *)
THEOREM Refinement == Spec => Promise
<1>1. Spec => []Judged
  BY JudgedInit, JudgedStep, Invariant, PTL DEF Spec
<1> QED
  BY <1>1, Invariant, PromiseInit, PromiseStep, PTL DEF Spec, Promise, Notice!Spec
=============================================================================

--------------------------- MODULE MoralisWebhook ---------------------------
(***************************************************************************)
(* handleWebhookMoralis of webhook/webhook.service.ts, run by one Node     *)
(* process for many deliveries at once, with the Redis connection it asks, *)
(* the FCM sends and the SET it does not await, and the crash of the       *)
(* process that a rejection nobody awaits causes.                          *)
(*                                                                         *)
(* A delivery is one webhook event that Moralis wants acknowledged.  The   *)
(* same transaction comes in several deliveries: unconfirmed and confirmed,*)
(* once for every stream (wallet and device) that watches its address, and *)
(* once more when Moralis gives up waiting for an answer.  A delivery whose*)
(* request dies with the process is sent again.                            *)
(***************************************************************************)
EXTENDS MoralisPayload

CONSTANTS
    Deliveries,  \* webhook events
    Payloads,    \* the bodies Moralis may post
    MaxCrashes   \* bound on process deaths

ASSUME PayloadsAssumption == Payloads \subseteq Payload /\ None \notin Payloads
ASSUME MaxCrashesAssumption == MaxCrashes \in Nat

VARIABLES
    up,        \* the process listens
    pc,        \* where the request of each delivery stands
    body,      \* the body of each delivery, None until first posted
    reply,     \* what GET answered and the handler has yet to act on
    result,    \* how the last attempt of each delivery ended
    pipe,      \* commands on the Redis connection, answered in order
    keys,      \* keys present in Redis; they never expire
    sending,   \* deliveries with a sendNotification nobody awaits
    sends,     \* history: calls of sendNotification per delivery
    shown,     \* history: deliveries whose notice FCM accepted
    dropped,   \* history: deliveries whose send failed or died with the process
    lost,      \* history: hashes whose SET failed or died with the process
    overlap,   \* history: <<d, e>>, d was posted while e was not yet decided
    crashes    \* deaths so far

vars == <<up, pc, body, reply, result, pipe, keys, sending, sends, shown, dropped,
          lost, overlap, crashes>>

Hash(d) == HashOf(body[d])

Command == [op : {"GET", "SET"}, d : Deliveries]
Get(d) == [op |-> "GET", d |-> d]
\* Mutant: delKey called for setKey.
DelForSet(d) == [op |-> "DEL", d |-> d]
Set(d) == [op |-> "SET", d |-> d]

\* Requests that have not yet reached the end of the handler's decision.
Deciding == {d \in Deliveries : pc[d] \in {"get", "replied"}}

TypeOK ==
    /\ up \in BOOLEAN
    /\ pc \in [Deliveries -> {"waiting", "get", "replied", "returned", "done"}]
    /\ body \in [Deliveries -> Payloads \cup {None}]
    /\ reply \in [Deliveries -> {"none", "nil", "1"}]
    /\ result \in [Deliveries -> {"none", "sent", "silenced", "ignored", "failed"}]
    /\ pipe \in Seq(Command)
    /\ keys \in SUBSET Hashes
    /\ sending \in SUBSET Deliveries
    /\ sends \in [Deliveries -> Nat]
    /\ shown \in SUBSET Deliveries
    /\ dropped \in SUBSET Deliveries
    /\ lost \in SUBSET Hashes
    /\ overlap \in SUBSET (Deliveries \X Deliveries)
    /\ crashes \in 0..MaxCrashes

Init ==
    /\ up = TRUE
    /\ pc = [d \in Deliveries |-> "waiting"]
    /\ body = [d \in Deliveries |-> None]
    /\ reply = [d \in Deliveries |-> "none"]
    /\ result = [d \in Deliveries |-> "none"]
    /\ pipe = <<>>
    /\ keys = {}
    /\ sending = {}
    /\ sends = [d \in Deliveries |-> 0]
    /\ shown = {}
    /\ dropped = {}
    /\ lost = {}
    /\ overlap = {}
    /\ crashes = 0

Return(d, r) ==
    /\ pc' = [pc EXCEPT ![d] = "returned"]
    /\ result' = [result EXCEPT ![d] = r]

(* The request arrives, first or again with the same body.                 *)
Post(d, p) ==
    /\ up
    /\ pc[d] = "waiting"
    /\ body[d] \in {None, p}
    /\ body' = [body EXCEPT ![d] = p]

\* A test payload, or an exception before the lookup: nothing is asked of Redis.
Dismiss(d) ==
    /\ \E p \in Payloads : Post(d, p) /\ (p.test \/ Throws(p))
    /\ Return(d, "ignored")
    /\ UNCHANGED <<up, reply, pipe, keys, sending, sends, shown, dropped, lost, overlap,
                   crashes>>

\* await redisService.getKey(txnHash)
Ask(d) ==
    /\ \E p \in Payloads : Post(d, p) /\ ~p.test /\ ~Throws(p)
    /\ pc' = [pc EXCEPT ![d] = "get"]
    /\ pipe' = Append(pipe, Get(d))
    /\ overlap' = overlap \cup ({d} \X Deciding)
    /\ UNCHANGED <<up, reply, result, keys, sending, sends, shown, dropped, lost, crashes>>

(* Redis answers the oldest command of the connection.                     *)
\* Mutant: the key is read under another name than it is written.
RedisGetMisses(d) ==
    /\ pipe # <<>> /\ Head(pipe) = Get(d)
    /\ pipe' = Tail(pipe)
    /\ reply' = [reply EXCEPT ![d] = "nil"]
    /\ pc' = [pc EXCEPT ![d] = "replied"]
    /\ UNCHANGED <<up, body, result, keys, sending, sends, shown, dropped, lost, overlap,
                   crashes>>

RedisGet(d) ==
    /\ pipe # <<>> /\ Head(pipe) = Get(d)
    /\ pipe' = Tail(pipe)
    /\ reply' = [reply EXCEPT ![d] = IF Hash(d) \in keys THEN "1" ELSE "nil"]
    /\ pc' = [pc EXCEPT ![d] = "replied"]
    /\ UNCHANGED <<up, body, result, keys, sending, sends, shown, dropped, lost, overlap,
                   crashes>>

RedisSet(d) ==
    /\ pipe # <<>> /\ Head(pipe) = Set(d)
    /\ pipe' = Tail(pipe)
    /\ keys' = keys \cup {Hash(d)}
    /\ UNCHANGED <<up, pc, body, reply, result, sending, sends, shown, dropped, lost,
                   overlap, crashes>>

\* A rejected GET lands in the handler's catch.
RedisGetFails(d) ==
    /\ pipe # <<>> /\ Head(pipe) = Get(d)
    /\ pipe' = Tail(pipe)
    /\ Return(d, "failed")
    /\ UNCHANGED <<up, body, reply, keys, sending, sends, shown, dropped, lost, overlap,
                   crashes>>

(* The rest of the handler, after the await.                               *)
\* Mutant: the reply is not looked at.
SilenceAny(d) ==
    /\ pc[d] = "replied"
    /\ Return(d, "silenced")
    /\ reply' = [reply EXCEPT ![d] = "none"]
    /\ UNCHANGED <<up, body, pipe, keys, sending, sends, shown, dropped, lost, overlap,
                   crashes>>

Silence(d) ==
    /\ pc[d] = "replied" /\ reply[d] = "1"
    /\ Return(d, "silenced")
    /\ reply' = [reply EXCEPT ![d] = "none"]
    /\ UNCHANGED <<up, body, pipe, keys, sending, sends, shown, dropped, lost, overlap,
                   crashes>>

\* Mutant: the key is set before the address is compared.
IgnoreAndSet(d) ==
    /\ pc[d] = "replied" /\ reply[d] = "nil" /\ ~Matches(body[d])
    /\ Return(d, "ignored")
    /\ reply' = [reply EXCEPT ![d] = "none"]
    /\ pipe' = Append(pipe, Set(d))
    /\ UNCHANGED <<up, body, keys, sending, sends, shown, dropped, lost, overlap, crashes>>

Ignore(d) ==
    /\ pc[d] = "replied" /\ reply[d] = "nil" /\ ~Matches(body[d])
    /\ Return(d, "ignored")
    /\ reply' = [reply EXCEPT ![d] = "none"]
    /\ UNCHANGED <<up, body, pipe, keys, sending, sends, shown, dropped, lost, overlap,
                   crashes>>

\* Mutant: setKey is forgotten.
NotifyOnly(d) ==
    /\ pc[d] = "replied" /\ reply[d] = "nil" /\ Matches(body[d])
    /\ Return(d, "sent")
    /\ reply' = [reply EXCEPT ![d] = "none"]
    /\ sending' = sending \cup {d}
    /\ sends' = [sends EXCEPT ![d] = @ + 1]
    /\ UNCHANGED <<up, body, pipe, keys, shown, dropped, lost, overlap, crashes>>

\* Mutant: sendNotification is forgotten.
SetOnly(d) ==
    /\ pc[d] = "replied" /\ reply[d] = "nil" /\ Matches(body[d])
    /\ Return(d, "sent")
    /\ reply' = [reply EXCEPT ![d] = "none"]
    /\ pipe' = Append(pipe, Set(d))
    /\ UNCHANGED <<up, body, keys, sending, sends, shown, dropped, lost, overlap, crashes>>

\* sendNotification and setKey are started, in this order, and not awaited.
Notify(d) ==
    /\ pc[d] = "replied" /\ reply[d] = "nil" /\ Matches(body[d])
    /\ Return(d, "sent")
    /\ reply' = [reply EXCEPT ![d] = "none"]
    /\ sending' = sending \cup {d}
    /\ sends' = [sends EXCEPT ![d] = @ + 1]
    /\ pipe' = Append(pipe, Set(d))
    /\ UNCHANGED <<up, body, keys, shown, dropped, lost, overlap, crashes>>

\* The controller answers 200 whatever the handler did; Moralis is content.
Respond(d) ==
    /\ pc[d] = "returned"
    /\ pc' = [pc EXCEPT ![d] = "done"]
    /\ UNCHANGED <<up, body, reply, result, pipe, keys, sending, sends, shown, dropped,
                   lost, overlap, crashes>>

FcmAccepts(d) ==
    /\ d \in sending
    /\ sending' = sending \ {d}
    /\ shown' = shown \cup {d}
    /\ UNCHANGED <<up, pc, body, reply, result, pipe, keys, sends, dropped, lost, overlap,
                   crashes>>

(* The process dies: requests, unawaited sends and the connection with it. *)
Pending(s) == {c \in Command : \E i \in 1..Len(s) : s[i] = c}
LostSets == {Hash(c.d) : c \in {x \in Pending(pipe) : x.op = "SET"}}

Die ==
    /\ up
    /\ crashes < MaxCrashes
    /\ crashes' = crashes + 1
    /\ up' = FALSE
    /\ pc' = [d \in Deliveries |-> IF pc[d] = "done" THEN "done" ELSE "waiting"]
    /\ reply' = [d \in Deliveries |-> "none"]
    /\ pipe' = <<>>
    /\ sending' = {}
    /\ dropped' = dropped \cup sending
    /\ lost' = lost \cup LostSets
    /\ UNCHANGED <<body, result, keys, sends, shown, overlap>>

\* sendNotification rethrows, and nobody awaits it: an unhandled rejection.
FcmRejects(d) == d \in sending /\ Die

\* setKey rejects, and nobody awaits it.
RedisSetFails(d) == pipe # <<>> /\ Head(pipe) = Set(d) /\ Die

\* ECS replaces the task, or the host fails.
Kill == Die

Restart ==
    /\ ~up
    /\ up' = TRUE
    /\ UNCHANGED <<pc, body, reply, result, pipe, keys, sending, sends, shown, dropped,
                   lost, overlap, crashes>>

Handle(d) ==
    \/ Dismiss(d) \/ Ask(d)
    \/ Silence(d) \/ Ignore(d) \/ Notify(d)
    \/ Respond(d)

Redis(d) == RedisGet(d) \/ RedisSet(d)

Fault(d) == RedisGetFails(d) \/ RedisSetFails(d) \/ FcmRejects(d)

AllDone == (\A d \in Deliveries : pc[d] = "done") /\ pipe = <<>> /\ sending = {} /\ up

\* Every event is acknowledged and nothing is in flight: the server idles.
Idle == AllDone /\ UNCHANGED vars

Next ==
    \/ \E d \in Deliveries : Handle(d) \/ Redis(d) \/ FcmAccepts(d) \/ Fault(d)
    \/ Kill \/ Restart
    \/ Idle

Spec == Init /\ [][Next]_vars

(* Moralis posts until acknowledged, the event loop runs what is ready,    *)
(* Redis answers, ECS restarts the task.                                   *)
FairSpec ==
    /\ Spec
    /\ \A d \in Deliveries : WF_vars(Handle(d)) /\ WF_vars(Redis(d))
    /\ WF_vars(Restart)

-----------------------------------------------------------------------------
Announced(d) == sends[d] > 0

(* Two deliveries of one transaction are both announced only when the later *)
(* request arrived while the earlier one was still undecided, or when the   *)
(* SET of that hash was lost with a crash: lines 129-156.                   *)
DuplicateNeedsOverlapOrLoss ==
    \A d, e \in Deliveries :
        d # e /\ Announced(d) /\ Announced(e) /\ Hash(d) = Hash(e)
            => <<d, e>> \in overlap \/ <<e, d>> \in overlap \/ Hash(d) \in lost

(* One delivery is announced twice only if its first SET was lost: a retry  *)
(* after a crash is otherwise silenced by the key.                          *)
RepeatNeedsLoss == \A d \in Deliveries : sends[d] > 1 => Hash(d) \in lost

(* A delivery dropped as "already sent" is one whose transaction some       *)
(* delivery announced, with a notice that was shown, is still on its way,   *)
(* or died with the process: lines 132-137 never silence a hash of nobody.  *)
SilencedIsAccountedFor ==
    \A d \in Deliveries :
        result[d] = "silenced" =>
            \E e \in Deliveries : /\ Announced(e) /\ Hash(e) = Hash(d)
                                  /\ e \in shown \cup sending \cup dropped

(* An event that should be announced has, in the end, an announced hash,    *)
(* unless Redis refused the lookup (the catch acknowledges it all the same).*)
EventuallyAnnounced ==
    \A d \in Deliveries :
        (body[d] # None /\ Qualifies(body[d]))
            ~> \/ \E e \in Deliveries : Announced(e) /\ body[d] # None /\ Hash(e) = Hash(d)
               \/ result[d] = "failed"

-----------------------------------------------------------------------------
(* The promise: each event settles once.                                   *)
outcomeBar == [d \in Deliveries |->
    IF Announced(d) THEN "told"
    ELSE IF pc[d] = "done" THEN result[d] ELSE "pending"]

Notice == INSTANCE FundsNotice WITH event <- body, outcome <- outcomeBar, claimed <- keys

Promise == Notice!Spec
=============================================================================

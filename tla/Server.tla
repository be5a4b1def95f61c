------------------------------- MODULE Server -------------------------------
(***************************************************************************)
(* The process as a whole: main.ts boots it once MongoDB answers, Redis is *)
(* pinged without waiting for the answer (redis.service.ts), the device    *)
(* middleware looks up the device of every request that app.module.ts does *)
(* not exempt, and a webhook's notification, or the key it sets in Redis,  *)
(* may be rejected.  ECS starts another task whenever one ends.            *)
(***************************************************************************)
EXTENDS Naturals, FiniteSets

CONSTANTS
    Requests,
    Devices,     \* _ids of devices
    MaxOutages,  \* bound on the failures of MongoDB and Redis
    MaxEdits,    \* bound on registrations and removals of devices
    MaxKills     \* bound on deaths the process has no part in

\* What is asked: exempt are health and the webhooks, of which a Moralis one is such that a
\* notification is sent, and an Alchemy one ends as a Stellar one does.  The header of others
\* is missing, decodes to no _id, or to one.
Body == [kind : {"health", "moralis"}]
    \cup [kind : {"stellar"}, tag : {"test", "none", "bad", "good"}]
    \cup [kind : {"app"}, header : {"none", "noId"} \cup Devices]
Answers == {"200", "403", "404", "500"}

ASSUME BoundsAssumption == MaxOutages \in Nat /\ MaxEdits \in Nat /\ MaxKills \in Nat
ASSUME DevicesAssumption == {"none", "noId"} \cap Devices = {}

VARIABLES
    phase,       \* the process: down, loading its modules, or up
    ping,        \* the promise of checkConnection
    mongo,       \* whether MongoDB can be reached
    redis,
    registered,  \* the devices collection
    pc,          \* where each request stands, then its answer
    body,
    found,       \* what findOne read
    sends,       \* requests whose un-awaited send is out
    sets,        \* requests whose un-awaited SET is out
    was,         \* history: whether its device was registered, at any time since it came
    outages, edits, kills

external == <<mongo, redis, registered, outages, edits, kills>>
requests == <<pc, body, found, sends, sets, was>>
serverVars == <<phase, ping, external, requests>>

ServerTypeOK ==
    /\ phase \in {"down", "loading", "up"} /\ ping \in {"none", "pending", "pong"}
    /\ mongo \in BOOLEAN /\ redis \in BOOLEAN /\ registered \subseteq Devices
    /\ pc \in [Requests -> {"new", "lookup", "read", "handler", "sending", "lost"} \cup Answers]
    /\ body \in [Requests -> Body]
    /\ found \in [Requests -> BOOLEAN] /\ sends \subseteq Requests /\ sets \subseteq Requests
    /\ was \in [Requests -> SUBSET BOOLEAN]
    /\ outages \in 0..MaxOutages /\ edits \in 0..MaxEdits /\ kills \in 0..MaxKills

ServerInit ==
    /\ phase = "down" /\ ping = "none"
    /\ mongo \in BOOLEAN /\ redis \in BOOLEAN /\ registered \in SUBSET Devices
    /\ pc = [r \in Requests |-> "new"]
    /\ body \in [Requests -> Body]
    /\ found = [r \in Requests |-> FALSE] /\ sends = {} /\ sets = {}
    /\ was = [r \in Requests |-> {}]
    /\ outages = 0 /\ edits = 0 /\ kills = 0

-----------------------------------------------------------------------------
(* The process.                                                            *)

\* It ends, and with it whatever was under way.
Die ==
    /\ phase' = "down" /\ ping' = "none" /\ sends' = {} /\ sets' = {}
    /\ pc' = [r \in Requests |-> IF pc[r] \in {"new"} \cup Answers THEN pc[r] ELSE "lost"]
    /\ UNCHANGED <<body, found, was>>

Start ==
    /\ phase = "down"
    /\ phase' = "loading"
    /\ UNCHANGED <<ping, external, requests>>

\* MongoDB answers; the modules are initialised, the ping is sent, the port is opened.
Boot ==
    /\ phase = "loading" /\ mongo
    /\ phase' = "up" /\ ping' = "pending"
    /\ UNCHANGED <<external, requests>>

\* Mutant: the process goes on without listening.
GiveUpQuiet ==
    /\ phase = "loading" /\ ~mongo
    /\ phase' = "idle"
    /\ UNCHANGED <<ping, external, requests>>

\* Every retry to connect failed: NestFactory.create ends the process.
GiveUp ==
    /\ phase = "loading" /\ ~mongo
    /\ Die /\ UNCHANGED external

Pong ==
    /\ ping = "pending" /\ redis
    /\ ping' = "pong"
    /\ UNCHANGED <<phase, external, requests>>

\* checkConnection throws again, in a promise nobody awaits.
PingFails ==
    /\ ping = "pending" /\ ~redis
    /\ Die /\ UNCHANGED external

Kill ==
    /\ phase # "down" /\ kills < MaxKills
    /\ kills' = kills + 1
    /\ Die
    /\ UNCHANGED <<mongo, redis, registered, outages, edits>>

-----------------------------------------------------------------------------
(* A request.                                                              *)

Answer(r, code) ==
    /\ pc' = [pc EXCEPT ![r] = code]
    /\ UNCHANGED <<phase, ping, external, body, found, sends, sets, was>>

Arrives(r, kind) == phase = "up" /\ pc[r] = "new" /\ body[r].kind = kind

\* getHealth and getHello answer without a look at MongoDB or Redis.
Health(r) == Arrives(r, "health") /\ Answer(r, "200")

\* A test, no tag, or one that does not decrypt: logged only.  Else the send is awaited.
Stellar(r) ==
    /\ Arrives(r, "stellar")
    /\ Answer(r, IF body[r].tag = "good" THEN "sending" ELSE "200")

\* Mutant: a rejected send is nobody's.
StellarSentUncaught(r) ==
    pc[r] = "sending" /\ (Answer(r, "200") \/ (Die /\ UNCHANGED external))

\* Mutant: Nest's default for a POST, without @HttpCode(HttpStatus.OK).
StellarSentCreated(r) == pc[r] = "sending" /\ Answer(r, "201")

\* Accepted or rejected, the webhook is answered the same.
StellarSent(r) == pc[r] = "sending" /\ Answer(r, "200")

\* The key is read; then neither the send of a Moralis webhook nor its SET is awaited.
Moralis(r) ==
    /\ Arrives(r, "moralis") /\ redis
    /\ pc' = [pc EXCEPT ![r] = "200"]
    /\ sends' = sends \cup {r}
    /\ sets' = sets \cup {r}
    /\ UNCHANGED <<phase, ping, external, body, found, was>>

\* The GET is rejected; the catch logs it and the webhook is answered the same.
MoralisFails(r) == Arrives(r, "moralis") /\ ~redis /\ Answer(r, "200")

FcmAccepts(r) ==
    /\ r \in sends
    /\ sends' = sends \ {r}
    /\ UNCHANGED <<phase, ping, external, pc, body, found, sets, was>>

FcmRejects(r) == r \in sends /\ Die /\ UNCHANGED external

RedisSet(r) ==
    /\ r \in sets /\ redis
    /\ sets' = sets \ {r}
    /\ UNCHANGED <<phase, ping, external, pc, body, found, sends, was>>

RedisSetFails(r) == r \in sets /\ ~redis /\ Die /\ UNCHANGED external

\* No header: 404.  No _id in it: 403.  Else the device is looked up.
Authenticate(r) ==
    /\ Arrives(r, "app")
    /\ was' = [was EXCEPT ![r] = {body[r].header \in registered}]
    /\ pc' = [pc EXCEPT ![r] = IF body[r].header = "none" THEN "404"
                               ELSE IF body[r].header = "noId" THEN "403" ELSE "lookup"]
    /\ UNCHANGED <<phase, ping, external, body, found, sends, sets>>

FindOne(r) ==
    /\ pc[r] = "lookup" /\ mongo
    /\ found' = [found EXCEPT ![r] = body[r].header \in registered]
    /\ pc' = [pc EXCEPT ![r] = "read"]
    /\ UNCHANGED <<phase, ping, external, body, sends, sets, was>>

FindOneFails(r) == pc[r] = "lookup" /\ ~mongo /\ Answer(r, "500")

\* Mutant: the answer of findOne is not looked at.
ProceedUnchecked(r) == pc[r] = "read" /\ Answer(r, "handler")

\* The middleware goes on with what was found, whatever became of the device.
Proceed(r) == pc[r] = "read" /\ Answer(r, IF found[r] THEN "handler" ELSE "403")

Handle(r) == pc[r] = "handler" /\ \E code \in {"200", "500"} : Answer(r, code)

Step(r) ==
    \/ StellarSent(r) \/ FcmAccepts(r) \/ FcmRejects(r) \/ RedisSet(r) \/ RedisSetFails(r)
    \/ FindOne(r) \/ FindOneFails(r) \/ Proceed(r) \/ Handle(r)

Arrival(r) ==
    Health(r) \/ Stellar(r) \/ Moralis(r) \/ MoralisFails(r) \/ Authenticate(r)

-----------------------------------------------------------------------------
(* What it depends on.                                                     *)

Outage ==
    /\ outages < MaxOutages
    /\ \/ mongo /\ mongo' = FALSE /\ redis' = redis
       \/ redis /\ redis' = FALSE /\ mongo' = mongo
    /\ outages' = outages + 1
    /\ UNCHANGED <<phase, ping, registered, edits, kills, requests>>

Recovery ==
    /\ \/ ~mongo /\ mongo' = TRUE /\ redis' = redis
       \/ ~redis /\ redis' = TRUE /\ mongo' = mongo
    /\ UNCHANGED <<phase, ping, registered, outages, edits, kills, requests>>

\* The users service adds a device or removes it.
EditDevice(d) ==
    /\ edits < MaxEdits
    /\ registered' = IF d \in registered THEN registered \ {d} ELSE registered \cup {d}
    /\ edits' = edits + 1
    /\ was' = [r \in Requests |->
                IF pc[r] = "lookup" /\ body[r].header = d
                THEN was[r] \cup {d \notin registered} ELSE was[r]]
    /\ UNCHANGED <<phase, ping, mongo, redis, outages, kills, pc, body, found, sends, sets>>

\* Up, with nothing under way.
ServerIdle ==
    /\ phase = "up" /\ ping = "pong" /\ sends = {} /\ sets = {}
    /\ \A r \in Requests : pc[r] \in {"new", "lost"} \cup Answers
    /\ UNCHANGED serverVars

ServerNext ==
    \/ Start \/ Boot \/ GiveUp \/ Pong \/ PingFails \/ Kill
    \/ \E r \in Requests : Arrival(r) \/ Step(r)
    \/ Outage \/ Recovery \/ \E d \in Devices : EditDevice(d)
    \/ ServerIdle

ServerSpec == ServerInit /\ [][ServerNext]_serverVars

(* ECS replaces a task that ended, and every promise settles: the driver   *)
(* and ioredis give up after their retries, Firebase after its timeout.    *)
FairServerSpec ==
    /\ ServerSpec
    /\ WF_serverVars(Start) /\ WF_serverVars(Boot) /\ WF_serverVars(GiveUp)
    /\ WF_serverVars(Pong) /\ WF_serverVars(PingFails)
    /\ \A r \in Requests : WF_serverVars(Step(r))

-----------------------------------------------------------------------------
(* Once MongoDB and Redis can be reached for good, the server comes to     *)
(* listen and stays so, whatever they did while it booted: a boot that     *)
(* failed, a ping that was rejected (redis.service.ts:21), a send or a SET *)
(* that was each end the process, none leaves it alive and deaf.           *)
ListensAgain == <>[](mongo /\ redis) => <>[](phase = "up" /\ ping = "pong")

(* A process that is up ends by no request but a Moralis webhook, by its   *)
(* send or by its SET while Redis is out (webhook.service.ts:151, 156):    *)
(* every other promise is awaited inside a try or by Nest.                 *)
OnlyMoralisKills ==
    [][phase = "up" /\ phase' = "down" =>
        \/ kills' # kills
        \/ ping = "pending" /\ ~redis
        \/ \E r \in sends \cup sets :
            body[r].kind = "moralis" /\ (r \in sends \/ ~redis)]_serverVars

(* The middleware's verdict on a device was true at some time between the  *)
(* request and the answer of findOne, though devices come and go meanwhile *)
(* and the handler runs on a document that may be gone (38-46).            *)
VerdictWasTrue ==
    \A r \in Requests : body[r].kind = "app" /\ body[r].header \in Devices =>
        /\ pc[r] \in {"handler", "200"} => TRUE \in was[r]
        /\ pc[r] = "403" => FALSE \in was[r]
=============================================================================

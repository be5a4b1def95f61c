--------------------------- MODULE AlchemyWebhook ---------------------------
(***************************************************************************)
(* handleAlchemyOnRamp and handleAlchemyOffRamp of                         *)
(* webhook/alchemyWebhook.service.ts over the Order collection.  Every     *)
(* await is a step of its own: look the order up, look its device up, send *)
(* the notice, write the whole order document back.  Handlers of several   *)
(* deliveries interleave; any of them may fail, and the process may die.   *)
(*                                                                         *)
(* The service that creates and edits orders is not in this repository: it *)
(* shares the collection and is modelled by CreateOrder and EditOrder.     *)
(***************************************************************************)
EXTENDS Naturals

CONSTANTS
    Deliveries,   \* webhook requests
    Bodies,       \* the DTOs that pass validation
    Orders,       \* _ids of order documents
    OrderNos,     \* order numbers
    OrderNo,      \* the orderNo of each order; nothing makes it unique
    Devices,      \* _ids of device documents
    DeviceOf,     \* the deviceId of each order, or None
    Registered,   \* devices that exist and hold a token FCM may accept
    Statuses,     \* statuses the ramps report
    OrderStatus,  \* the enum of order.enum.ts
    PENDING,      \* its default
    None,
    Edited,       \* bound: the orders the order service edits
    MaxEdits,     \* bound on its edits of one order
    MaxCrashes    \* bound on process deaths

Kinds == {"on", "off"}

\* An on-ramp status may be the empty string, None here; IsEnum keeps it from off-ramp.
BodyType == [kind : Kinds, no : OrderNos, status : Statuses \cup {None}]

\* A document; rest stands for every other field, as the number of edits made to it.
Document == [device : Devices \cup {None}, status : Statuses \cup OrderStatus,
             response : Deliveries \cup {None}, rest : 0..MaxEdits]

ASSUME BodiesAssumption ==
    Bodies \subseteq {b \in BodyType : b.kind = "off" => b.status # None}
ASSUME NoneAssumption ==
    None \notin Bodies /\ None \notin Deliveries /\ None \notin Orders /\ None \notin Devices
    /\ None \notin Document
ASSUME OrderAssumption ==
    /\ OrderNo \in [Orders -> OrderNos]
    /\ DeviceOf \in [Orders -> Devices \cup {None}]
    /\ Registered \subseteq Devices
    /\ PENDING \in OrderStatus
ASSUME BoundAssumption == MaxEdits \in Nat /\ MaxCrashes \in Nat

VARIABLES
    up,        \* the process listens
    order,     \* the collection: document or None
    edits,     \* external edits made to each order
    pc,        \* where each request stands
    body,      \* its DTO
    found,     \* the _id of the document it read
    snapshot,  \* the document as it read it
    target,    \* the device it tells
    result,    \* how its last attempt ended
    shown,     \* history: notices FCM accepted, <<delivery, device>>
    applied,   \* history: <<delivery, order>>, its last attempt wrote the order
    after,     \* history: <<e, d>>, the last attempt of e began after that of d ended
    raced,     \* history: orders edited while a handler held a snapshot
    severed,   \* history: deliveries a death of the process cut off
    crashes

dbVars == <<order, edits>>
localVars == <<found, snapshot, target>>
histVars == <<shown, applied, after, raced, severed>>
vars == <<up, dbVars, pc, body, localVars, result, histVars, crashes>>

Working == {"findOrder", "findDevice", "send", "update", "returned"}
Results == {"none", "noStatus", "noOrder", "noDevice", "failed", "stored"}

TypeOK ==
    /\ up \in BOOLEAN
    /\ order \in [Orders -> Document \cup {None}]
    /\ edits \in [Orders -> 0..MaxEdits]
    /\ pc \in [Deliveries -> Working \cup {"waiting", "cut", "done"}]
    /\ body \in [Deliveries -> Bodies \cup {None}]
    /\ found \in [Deliveries -> Orders \cup {None}]
    /\ snapshot \in [Deliveries -> Document \cup {None}]
    /\ target \in [Deliveries -> Devices \cup {None}]
    /\ result \in [Deliveries -> Results]
    /\ shown \in SUBSET (Deliveries \X Devices)
    /\ applied \in SUBSET (Deliveries \X Orders)
    /\ after \in SUBSET (Deliveries \X Deliveries)
    /\ raced \in SUBSET Orders
    /\ severed \in SUBSET Deliveries
    /\ crashes \in 0..MaxCrashes

Init ==
    /\ up = TRUE
    /\ order = [o \in Orders |-> None]
    /\ edits = [o \in Orders |-> 0]
    /\ pc = [d \in Deliveries |-> "waiting"]
    /\ body = [d \in Deliveries |-> None]
    /\ found = [d \in Deliveries |-> None]
    /\ snapshot = [d \in Deliveries |-> None]
    /\ target = [d \in Deliveries |-> None]
    /\ result = [d \in Deliveries |-> "none"]
    /\ shown = {} /\ applied = {} /\ after = {} /\ raced = {} /\ severed = {}
    /\ crashes = 0

-----------------------------------------------------------------------------
(* The order service, outside this repository.                             *)
CreateOrder(o) ==
    /\ order[o] = None
    /\ order' = [order EXCEPT ![o] = [device |-> DeviceOf[o], status |-> PENDING,
                                      response |-> None, rest |-> 0]]
    /\ UNCHANGED <<up, edits, pc, body, localVars, result, histVars, crashes>>

Holding(o) == {d \in Deliveries : pc[d] \in {"findDevice", "send", "update"} /\ found[d] = o}

EditOrder(o) ==
    /\ order[o] # None
    /\ o \in Edited /\ edits[o] < MaxEdits
    /\ edits' = [edits EXCEPT ![o] = @ + 1]
    /\ order' = [order EXCEPT ![o].rest = edits[o] + 1]
    /\ raced' = IF Holding(o) = {} THEN raced ELSE raced \cup {o}
    /\ UNCHANGED <<up, pc, body, localVars, result, shown, applied, after,
                   severed, crashes>>

-----------------------------------------------------------------------------
Return(d, r) ==
    /\ pc' = [pc EXCEPT ![d] = "returned"]
    /\ result' = [result EXCEPT ![d] = r]
    /\ found' = [found EXCEPT ![d] = None]
    /\ snapshot' = [snapshot EXCEPT ![d] = None]
    /\ target' = [target EXCEPT ![d] = None]

Goto(d, label) == pc' = [pc EXCEPT ![d] = label] /\ UNCHANGED result

\* The request arrives, first or again with the same body.
Post(d) ==
    /\ up
    /\ pc[d] \in {"waiting", "cut"}
    /\ \E b \in Bodies :
        /\ body[d] \in {None, b}
        /\ body' = [body EXCEPT ![d] = b]
        /\ \/ b.status = None /\ Return(d, "noStatus")
           \/ b.status # None /\ Goto(d, "findOrder") /\ UNCHANGED localVars
    /\ after' = {p \in after : p[2] # d}
                    \cup {<<d, e>> : e \in {x \in Deliveries \ {d} :
                                              pc[x] \in {"returned", "cut", "done"}}}
    /\ applied' = {p \in applied : p[1] # d}
    /\ UNCHANGED <<up, dbVars, shown, raced, severed, crashes>>

\* findOneByOrderNo: any document with that number
OrdersOf(no) == {o \in Orders : order[o] # None /\ OrderNo[o] = no}

\* Mutant: the guard is missing from both handlers.
NeedsNone(b) == FALSE

\* `if (!order.deviceId) return` stands in the on-ramp handler only.
NeedsDevice(b) == b.kind = "on"

Refused(d, o) == NeedsDevice(body[d]) /\ order[o].device = None

FindOrder(d) ==
    /\ pc[d] = "findOrder"
    /\ \E o \in OrdersOf(body[d].no) :
        /\ ~Refused(d, o)
        /\ found' = [found EXCEPT ![d] = o]
        /\ snapshot' = [snapshot EXCEPT ![d] = order[o]]
    /\ Goto(d, "findDevice")
    /\ UNCHANGED <<up, dbVars, body, target, histVars, crashes>>

FindNoDeviceId(d) ==
    /\ pc[d] = "findOrder"
    /\ \E o \in OrdersOf(body[d].no) : Refused(d, o)
    /\ Return(d, "noDevice")
    /\ UNCHANGED <<up, dbVars, body, histVars, crashes>>

FindNoOrder(d) ==
    /\ pc[d] = "findOrder"
    /\ OrdersOf(body[d].no) = {}
    /\ Return(d, "noOrder")
    /\ UNCHANGED <<up, dbVars, body, histVars, crashes>>

\* findOne({ _id: undefined }) may return no document or, as mongoose documents, any.
DevicesOf(id) == IF id = None THEN Devices \cup {None} ELSE {id}

FindDevice(d) ==
    /\ pc[d] = "findDevice"
    /\ \E v \in DevicesOf(snapshot[d].device) : target' = [target EXCEPT ![d] = v]
    /\ Goto(d, "send")
    /\ UNCHANGED <<up, dbVars, body, found, snapshot, histVars, crashes>>

\* Mutant: a refused notice is tried again, for ever.
SendUntilAccepted(d) ==
    /\ pc[d] = "send"
    /\ shown' = IF target[d] \in Registered THEN shown \cup {<<d, target[d]>>} ELSE shown
    /\ Goto(d, IF target[d] \in Registered THEN "update" ELSE "findDevice")
    /\ UNCHANGED <<up, dbVars, body, localVars, applied, after, raced, severed, crashes>>

\* await sendNotification(device?.fcmToken); a missing token is always rejected
Send(d) ==
    /\ pc[d] = "send"
    /\ target[d] \in Registered
    /\ shown' = shown \cup {<<d, target[d]>>}
    /\ Goto(d, "update")
    /\ UNCHANGED <<up, dbVars, body, localVars, applied, after, raced, severed, crashes>>

\* Mutants: a status the DTO does not have, the status forgotten, the first answer kept,
\* the other fields reset.
WrittenUndefined(d) == [snapshot[d] EXCEPT !.status = None, !.response = d]
WrittenResponse(d) == [snapshot[d] EXCEPT !.response = d]
WrittenOnce(d) ==
    IF snapshot[d].response # None THEN snapshot[d]
    ELSE [snapshot[d] EXCEPT !.status = body[d].status, !.response = d]
WrittenReset(d) == [snapshot[d] EXCEPT !.status = body[d].status, !.response = d, !.rest = 0]

\* Object.assign(order, { webhookResponse: dto, status: dto.status })
Written(d) == [snapshot[d] EXCEPT !.status = body[d].status, !.response = d]

\* Mutants: the order is updated by its number; a document changed meanwhile is left alone.
UpdateByNumber(d) ==
    /\ pc[d] = "update"
    /\ \E o \in OrdersOf(body[d].no) :
        /\ order' = [order EXCEPT ![o] = Written(d)]
        /\ applied' = applied \cup {<<d, o>>}
    /\ Return(d, "stored")
    /\ UNCHANGED <<up, edits, body, shown, after, raced, severed, crashes>>

UpdateIfUnchanged(d) ==
    /\ pc[d] = "update"
    /\ \/ /\ order[found[d]] = snapshot[d]
          /\ order' = [order EXCEPT ![found[d]] = Written(d)]
          /\ applied' = applied \cup {<<d, found[d]>>}
       \/ /\ order[found[d]] # snapshot[d]
          /\ UNCHANGED <<order, applied>>
    /\ Return(d, "stored")
    /\ UNCHANGED <<up, edits, body, shown, after, raced, severed, crashes>>

\* findByIdAndUpdate of the whole document, with no validators
Update(d) ==
    /\ pc[d] = "update"
    /\ order' = [order EXCEPT ![found[d]] = Written(d)]
    /\ applied' = applied \cup {<<d, found[d]>>}
    /\ Return(d, "stored")
    /\ UNCHANGED <<up, edits, body, shown, after, raced, severed, crashes>>

\* Any awaited call rejects; the catch logs it and the request is answered anyway.
Fails(d) ==
    /\ pc[d] \in Working \ {"returned"}
    /\ Return(d, "failed")
    /\ UNCHANGED <<up, dbVars, body, histVars, crashes>>

Respond(d) ==
    /\ pc[d] = "returned"
    /\ Goto(d, "done")
    /\ UNCHANGED <<up, dbVars, body, localVars, histVars, crashes>>

-----------------------------------------------------------------------------
\* The process dies, for a reason outside these handlers; requests are cut off.
Kill ==
    /\ up
    /\ crashes < MaxCrashes
    /\ crashes' = crashes + 1
    /\ up' = FALSE
    /\ pc' = [d \in Deliveries |-> IF pc[d] \in Working THEN "cut" ELSE pc[d]]
    /\ found' = [d \in Deliveries |-> None]
    /\ snapshot' = [d \in Deliveries |-> None]
    /\ target' = [d \in Deliveries |-> None]
    /\ severed' = severed \cup {d \in Deliveries : pc[d] \in Working}
    /\ UNCHANGED <<dbVars, body, result, shown, applied, after, raced>>

Restart ==
    /\ ~up
    /\ up' = TRUE
    /\ UNCHANGED <<dbVars, pc, body, localVars, result, histVars, crashes>>

Advance(d) ==
    \/ FindOrder(d) \/ FindNoDeviceId(d) \/ FindNoOrder(d) \/ FindDevice(d)
    \/ Send(d) \/ Update(d) \/ Fails(d) \/ Respond(d)

\* Every request is answered: the server idles.
Idle == up /\ (\A d \in Deliveries : pc[d] = "done") /\ UNCHANGED vars

Next ==
    \/ \E o \in Orders : CreateOrder(o) \/ EditOrder(o)
    \/ \E d \in Deliveries : Post(d) \/ Advance(d)
    \/ Kill \/ Restart
    \/ Idle

Spec == Init /\ [][Next]_vars

(* Mongo and FCM calls settle, and the event loop runs what is ready.      *)
FairSpec == Spec /\ \A d \in Deliveries : WF_vars(Advance(d))

-----------------------------------------------------------------------------
\* The device of order o is v, or o has none and any may have been found.
ToldDevice(o, v) == DeviceOf[o] \in {v, None}

(* An order carries a ramp's answer only if FCM accepted the notice about  *)
(* that very answer first, and for the device of that very order (33-59),  *)
(* whatever was overwritten and however many orders share the number.      *)
StoredWasShown ==
    \A o \in Orders : \A d \in Deliveries :
        order[o] # None /\ order[o].response = d
            => \E v \in Devices : <<d, v>> \in shown /\ ToldDevice(o, v)

(* What a user was told is stored in an order of theirs, or about to be,   *)
(* unless an awaited call failed or the process died in between (51-59):   *)
(* neither other answers nor edits keep a notice from being followed by    *)
(* its update.                                                             *)
ToldIsStored ==
    \A d \in Deliveries \ severed : \A v \in Devices : <<d, v>> \in shown =>
        \/ pc[d] = "update"
        \/ result[d] = "failed"
        \/ \E o \in Orders : <<d, o>> \in applied /\ ToldDevice(o, v)

(* The stored status is the one of the stored answer: no interleaving of   *)
(* read-modify-writes mixes two deliveries.                                *)
StatusMatchesResponse ==
    \A o \in Orders : order[o] # None =>
        order[o].status = IF order[o].response = None THEN PENDING
                          ELSE body[order[o].response].status

(* Of the deliveries written to an order, one posted after another had     *)
(* ended is never buried under it: answers go backwards only between       *)
(* requests that overlapped.                                               *)
NewerAnswerWins ==
    \A o \in Orders : \A d, e \in Deliveries :
        /\ order[o] # None /\ order[o].response = d
        /\ <<e, o>> \in applied
        => <<e, d>> \notin after

(* A field edited elsewhere is lost only if the edit fell between a        *)
(* handler's read of that order and its write: lines 33-59 and 75-99.      *)
EditsSurviveUnlessRaced ==
    \A o \in Orders : order[o] # None /\ order[o].rest # edits[o] => o \in raced

(* A notice goes to the device of an order with that number.  The guard of *)
(* line 40 keeps an undefined _id out of the on-ramp's device lookup; the  *)
(* off-ramp may tell any device, but only about an order that has none.    *)
NoticeGoesToTheOwner ==
    \A d \in Deliveries : \A v \in Devices : <<d, v>> \in shown =>
        \E o \in OrdersOf(body[d].no) :
            \/ DeviceOf[o] = v
            \/ body[d].kind = "off" /\ DeviceOf[o] = None

(* A request that is being worked on is answered or dies with the process. *)
EventuallyAnswered ==
    \A d \in Deliveries : pc[d] \in Working ~> pc[d] \in {"done", "cut"}
=============================================================================

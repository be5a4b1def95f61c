------------------------ MODULE AlchemyWebhookProofs ------------------------
(***************************************************************************)
(* For every set of deliveries, orders, devices and bounds: the type       *)
(* invariant of AlchemyWebhook and the six safety invariants of the        *)
(* read, tell, write-back cycle.                                           *)
(***************************************************************************)
EXTENDS AlchemyWebhook, TLAPS

Reading == {"findDevice", "send", "update"}
Running == {"findOrder", "findDevice", "send", "update"}

\* A document of order o as the handlers may read or leave it.
Genuine(doc, o) ==
    /\ doc.device = DeviceOf[o]
    /\ doc.response # None => /\ body[doc.response] # None
                              /\ \E v \in Devices :
                                    <<doc.response, v>> \in shown /\ ToldDevice(o, v)
    /\ doc.status = IF doc.response = None THEN PENDING ELSE body[doc.response].status

Stored == \A o \in Orders : order[o] # None => Genuine(order[o], o)

\* A running request has a validated body with a status to store.
Worked == \A d \in Deliveries : pc[d] \in Running => body[d] # None /\ body[d].status # None

\* What a handler holds between its read and its write.
HeldBy(d) ==
    pc[d] \in Reading =>
        /\ found[d] \in Orders /\ order[found[d]] # None /\ snapshot[d] # None
        /\ OrderNo[found[d]] = body[d].no
        /\ Genuine(snapshot[d], found[d])
        /\ found[d] \notin raced => snapshot[d].rest = edits[found[d]]
        /\ body[d].kind = "on" => snapshot[d].device # None

Held == \A d \in Deliveries : HeldBy(d)

\* It tells the device of the document it read, if that has one.
Targeted ==
    \A d \in Deliveries :
        pc[d] \in {"send", "update"} /\ snapshot[d].device # None
            => target[d] = snapshot[d].device

\* A notice accepted by FCM precedes the write, and comes from a known body.
Sent ==
    /\ \A d \in Deliveries : pc[d] = "update" => target[d] \in Devices /\ <<d, target[d]>> \in shown
    /\ \A d \in Deliveries : \A v \in Devices : <<d, v>> \in shown => body[d] # None

\* A request no death cut off tells one device once, and then it writes.
Once ==
    /\ \A d \in Deliveries : pc[d] = "cut" => d \in severed
    /\ \A d \in Deliveries \ severed : \A v \in Devices : <<d, v>> \in shown =>
        /\ pc[d] \in {"update", "returned", "done"}
        /\ pc[d] = "update" => v = target[d]

\* Only documents that exist are edited.
Unborn == \A o \in Orders : order[o] = None => edits[o] = 0

\* "After d ended" is forgotten when d starts again.
AfterEnded ==
    \A d, e \in Deliveries : <<e, d>> \in after => pc[d] \in {"returned", "cut", "done"}

IInv ==
    /\ TypeOK /\ Worked /\ Stored /\ Held /\ Targeted /\ Sent /\ Once /\ Unborn /\ AfterEnded
    /\ ToldIsStored
    /\ NewerAnswerWins /\ EditsSurviveUnlessRaced /\ NoticeGoesToTheOwner

-----------------------------------------------------------------------------
(* The steps of the system, the idle one taken as a stutter.                *)
LEMMA NextCases ==
    ASSUME [Next]_vars
    PROVE  \/ \E o \in Orders : CreateOrder(o) \/ EditOrder(o)
           \/ \E d \in Deliveries :
               \/ Post(d) \/ FindOrder(d) \/ FindNoDeviceId(d) \/ FindNoOrder(d)
               \/ FindDevice(d) \/ Send(d) \/ Update(d) \/ Fails(d) \/ Respond(d)
           \/ Kill \/ Restart \/ UNCHANGED vars
  BY DEF Next, Advance, Idle

(* A body, once known, never changes, and notices are never taken back.     *)
LEMMA Monotone ==
    ASSUME TypeOK, [Next]_vars
    PROVE  /\ \A d \in Deliveries : body[d] # None => body'[d] = body[d]
           /\ shown \subseteq shown'
<1>1. ASSUME NEW e \in Deliveries, Post(e)
      PROVE  \A d \in Deliveries : body[d] # None => body'[d] = body[d]
  BY <1>1 DEF Post, TypeOK
<1>2. CASE \E e \in Deliveries : Post(e)
  BY <1>1, <1>2 DEF Post
<1>3. CASE \E e \in Deliveries : Send(e)
  BY <1>3 DEF Send
<1> QED
  BY <1>2, <1>3, NextCases DEF CreateOrder, EditOrder, FindOrder, FindNoDeviceId, FindNoOrder,
     FindDevice, Update, Fails, Respond, Kill, Restart, histVars, vars

(* So a genuine document stays genuine.                                     *)
LEMMA GenuineStays ==
    ASSUME TypeOK, [Next]_vars, NEW doc \in Document, NEW o \in Orders, Genuine(doc, o)
    PROVE  Genuine(doc, o)'
  BY Monotone DEF Genuine, Document, ToldDevice

(* The document a handler writes is a document, and genuine if it was told. *)
LEMMA WrittenIsGenuine ==
    ASSUME IInv, NEW d \in Deliveries, pc[d] = "update"
    PROVE  /\ Written(d) \in Document
           /\ Genuine(Written(d), found[d])
           /\ Written(d).rest = snapshot[d].rest
           /\ Written(d).response = d
<1>1. snapshot[d] \in Document /\ body[d] \in Bodies /\ body[d].status \in Statuses
  BY BodiesAssumption DEF IInv, TypeOK, Worked, Held, HeldBy, Running, Reading, BodyType
<1>2. /\ Written(d) \in Document
      /\ Written(d).device = snapshot[d].device
      /\ Written(d).rest = snapshot[d].rest
      /\ Written(d).response = d
      /\ Written(d).status = body[d].status
  BY <1>1 DEF Written, Document
<1>3. Genuine(snapshot[d], found[d])
  BY DEF IInv, Held, HeldBy, Reading
<1>4. /\ target[d] \in Devices /\ <<d, target[d]>> \in shown
      /\ ToldDevice(found[d], target[d])
  BY <1>3 DEF IInv, Sent, Targeted, Genuine, ToldDevice
<1> QED
  BY <1>1, <1>2, <1>3, <1>4, NoneAssumption DEF Genuine

-----------------------------------------------------------------------------
LEMMA IInvInit == Init => IInv
BY BoundAssumption DEF Init, IInv, TypeOK, Worked, Stored, Held, HeldBy, Targeted, Sent, Once, ToldIsStored,
   Unborn, AfterEnded, NewerAnswerWins, EditsSurviveUnlessRaced, NoticeGoesToTheOwner, Results, Working, Running,
   Reading

LEMMA TypeOKStep == ASSUME IInv, [Next]_vars PROVE TypeOK'
<1> USE DEF IInv
<1>1. ASSUME NEW o \in Orders, CreateOrder(o) PROVE TypeOK'
  <2>1. [device |-> DeviceOf[o], status |-> PENDING, response |-> None, rest |-> 0] \in Document
    BY OrderAssumption, BoundAssumption DEF Document
  <2> QED
    BY <1>1, <2>1 DEF TypeOK, CreateOrder, localVars, histVars
<1>2. ASSUME NEW o \in Orders, EditOrder(o) PROVE TypeOK'
  <2>1. /\ edits[o] + 1 \in 0..MaxEdits
        /\ [order[o] EXCEPT !.rest = edits[o] + 1] \in Document
    BY <1>2, BoundAssumption DEF EditOrder, TypeOK, Document
  <2> QED
    BY <1>2, <2>1 DEF TypeOK, EditOrder, localVars
<1>3. ASSUME NEW d \in Deliveries, Post(d) PROVE TypeOK'
  BY <1>3 DEF TypeOK, Post, Return, Goto, Working, Results, localVars, dbVars
<1>4. ASSUME NEW d \in Deliveries, FindOrder(d) PROVE TypeOK'
  BY <1>4 DEF TypeOK, FindOrder, OrdersOf, Goto, Working, dbVars, histVars
<1>5. ASSUME NEW d \in Deliveries, FindNoDeviceId(d) \/ FindNoOrder(d) \/ Fails(d)
      PROVE  TypeOK'
  BY <1>5 DEF TypeOK, FindNoDeviceId, FindNoOrder, Fails, Return, Working, Results, dbVars,
     histVars
<1>6. ASSUME NEW d \in Deliveries, FindDevice(d) PROVE TypeOK'
  <2>1. snapshot[d] \in Document
    BY <1>6 DEF FindDevice, TypeOK, Held, HeldBy, Reading
  <2>2. DevicesOf(snapshot[d].device) \subseteq Devices \cup {None}
    BY <2>1 DEF DevicesOf, Document
  <2> QED
    BY <1>6, <2>2 DEF TypeOK, FindDevice, Goto, Working, dbVars, histVars
<1>7. ASSUME NEW d \in Deliveries, Send(d) \/ Respond(d) PROVE TypeOK'
  BY <1>7, OrderAssumption DEF TypeOK, Send, Respond, Goto, Working, dbVars, localVars, histVars
<1>8. ASSUME NEW d \in Deliveries, Update(d) PROVE TypeOK'
  <2>1. found[d] \in Orders /\ Written(d) \in Document
    BY <1>8, WrittenIsGenuine DEF Update, Held, HeldBy, Reading
  <2>2. order' \in [Orders -> Document \cup {None}]
    BY <1>8, <2>1 DEF TypeOK, Update
  <2>3. applied' \in SUBSET (Deliveries \X Orders)
    BY <1>8, <2>1 DEF TypeOK, Update
  <2> QED
    BY <1>8, <2>2, <2>3 DEF TypeOK, Update, Return, Working, Results
<1>9. CASE Kill
  <2>1. pc' \in [Deliveries -> Working \cup {"waiting", "cut", "done"}]
    BY <1>9 DEF TypeOK, Kill, Working
  <2>2. crashes' \in 0..MaxCrashes
    BY <1>9, BoundAssumption DEF TypeOK, Kill
  <2>3. /\ found' \in [Deliveries -> Orders \cup {None}]
        /\ snapshot' \in [Deliveries -> Document \cup {None}]
        /\ target' \in [Deliveries -> Devices \cup {None}]
    BY <1>9 DEF Kill
  <2> QED
    BY <1>9, <2>1, <2>2, <2>3 DEF TypeOK, Kill, dbVars, histVars
<1>10. CASE Restart
  BY <1>10 DEF TypeOK, Restart, dbVars, localVars, histVars
<1>11. CASE UNCHANGED vars
  BY <1>11 DEF TypeOK, vars, dbVars, localVars, histVars
<1> QED
  BY <1>1, <1>2, <1>3, <1>4, <1>5, <1>6, <1>7, <1>8, <1>9, <1>10, <1>11, NextCases

(* What each step does to the requests other than the one it belongs to.    *)
LEMMA WorkedStep == ASSUME IInv, [Next]_vars PROVE Worked'
<1> USE DEF IInv, Running
<1>1. ASSUME NEW d \in Deliveries, Post(d) PROVE Worked'
  <2>1. \A e \in Deliveries \ {d} : pc'[e] = pc[e] /\ body'[e] = body[e]
    BY <1>1 DEF Post, Return, Goto, TypeOK
  <2>2. pc'[d] = "returned" \/ (pc'[d] = "findOrder" /\ body'[d] # None /\ body'[d].status # None)
    BY <1>1, NoneAssumption DEF Post, Return, Goto, TypeOK
  <2> QED
    BY <2>1, <2>2 DEF Worked
<1>2. ASSUME NEW d \in Deliveries,
             \/ FindOrder(d) \/ FindNoDeviceId(d) \/ FindNoOrder(d) \/ FindDevice(d)
             \/ Send(d) \/ Update(d) \/ Fails(d) \/ Respond(d)
      PROVE  Worked'
  <2>1. /\ \A e \in Deliveries \ {d} : pc'[e] = pc[e]
        /\ pc[d] \in Running \/ pc'[d] \notin Running
        /\ UNCHANGED body
    BY <1>2 DEF FindOrder, FindNoDeviceId, FindNoOrder, FindDevice, Send, Update, Fails,
       Respond, Return, Goto, TypeOK, Working
  <2> QED
    BY <2>1 DEF Worked
<1>3. CASE Kill
  BY <1>3 DEF Kill, Worked, Working, TypeOK
<1> QED
  BY <1>1, <1>2, <1>3, NextCases DEF CreateOrder, EditOrder, Restart, Worked, vars

LEMMA StoredStep == ASSUME IInv, [Next]_vars PROVE Stored'
<1> USE DEF IInv
<1>0. \A doc \in Document : \A o \in Orders : Genuine(doc, o) => Genuine(doc, o)'
  BY GenuineStays
<1>a. ASSUME NEW o \in Orders, order'[o] = order[o], order[o] # None PROVE Genuine(order[o], o)'
  <2> SUFFICES ASSUME NEW doc, doc = order[o] PROVE Genuine(doc, o)'
    BY <1>a DEF Genuine
  <2> QED
    BY <1>0, <1>a DEF Stored, TypeOK
<1>1. ASSUME NEW o \in Orders, CreateOrder(o) PROVE Stored'
  <2>1. /\ order'[o].device = DeviceOf[o]
        /\ order'[o].status = PENDING
        /\ order'[o].response = None
        /\ \A q \in Orders \ {o} : order'[q] = order[q]
    BY <1>1 DEF CreateOrder, TypeOK
  <2>2. Genuine(order[o], o)'
    BY <2>1 DEF Genuine
  <2> QED
    BY <1>a, <2>1, <2>2 DEF Stored
<1>2. ASSUME NEW o \in Orders, EditOrder(o) PROVE Stored'
  <2>1. /\ order[o] \in Document /\ order[o] # None
        /\ order'[o] = [order[o] EXCEPT !.rest = edits[o] + 1]
        /\ \A q \in Orders \ {o} : order'[q] = order[q]
        /\ UNCHANGED <<body, shown>>
    BY <1>2 DEF EditOrder, TypeOK
  <2>2. /\ order'[o].device = order[o].device
        /\ order'[o].status = order[o].status
        /\ order'[o].response = order[o].response
    BY <2>1 DEF Document
  <2>3. Genuine(order[o], o)'
    BY <2>1, <2>2 DEF Genuine, Stored
  <2> QED
    BY <1>a, <2>1, <2>3 DEF Stored
<1>3. ASSUME NEW d \in Deliveries, Update(d) PROVE Stored'
  <2>1. PICK o \in Orders : o = found[d]
    BY <1>3 DEF Update, Held, HeldBy, Reading
  <2>2. PICK doc \in Document : doc = Written(d) /\ Genuine(doc, o)
    BY <1>3, <2>1, WrittenIsGenuine DEF Update
  <2>3. order'[o] = doc /\ \A q \in Orders \ {o} : order'[q] = order[q]
    BY <1>3, <2>1, <2>2 DEF Update, TypeOK
  <2>4. Genuine(doc, o)'
    BY <1>0, <2>2
  <2>5. Genuine(order[o], o)'
    BY <2>3, <2>4 DEF Genuine
  <2> QED
    BY <1>a, <2>3, <2>5 DEF Stored
<1>4. ASSUME UNCHANGED order PROVE Stored'
  BY <1>4, <1>a DEF Stored
<1> QED
  BY <1>1, <1>2, <1>3, <1>4, NextCases DEF Post, FindOrder, FindNoDeviceId, FindNoOrder,
     FindDevice, Send, Fails, Respond, Kill, Restart, dbVars, vars

(* An edit of an order some handler holds is remembered as a race.          *)
LEMMA RacedStep ==
    ASSUME IInv, [Next]_vars, NEW o \in Orders, o \notin raced'
    PROVE  /\ o \notin raced
           /\ Holding(o) # {} => edits'[o] = edits[o]
<1>1. ASSUME NEW q \in Orders, EditOrder(q) PROVE o \notin raced /\ (Holding(o) # {} => edits'[o] = edits[o])
  BY <1>1 DEF EditOrder, IInv, TypeOK
<1>2. CASE UNCHANGED <<edits, raced>>
  BY <1>2
<1> QED
  BY <1>1, <1>2, NextCases DEF CreateOrder, Post, FindOrder, FindNoDeviceId, FindNoOrder,
     FindDevice, Send, Update, Fails, Respond, Kill, Restart, dbVars, histVars, vars

(* Documents are never deleted.                                             *)
LEMMA OrderStays ==
    ASSUME IInv, [Next]_vars, NEW o \in Orders, order[o] # None
    PROVE  order'[o] # None
<1>1. ASSUME NEW q \in Orders, CreateOrder(q) PROVE order'[o] # None
  BY <1>1 DEF CreateOrder, IInv, TypeOK
<1>2. ASSUME NEW q \in Orders, EditOrder(q) PROVE order'[o] # None
  <2>1. order[q] \in Document /\ edits[q] + 1 \in 0..MaxEdits
    BY <1>2, BoundAssumption DEF EditOrder, IInv, TypeOK
  <2>2. [order[q] EXCEPT !.rest = edits[q] + 1] \in Document
    BY <2>1 DEF Document
  <2>3. order'[o] = IF o = q THEN [order[q] EXCEPT !.rest = edits[q] + 1] ELSE order[o]
    BY <1>2 DEF EditOrder, IInv, TypeOK
  <2> QED
    BY <2>2, <2>3, NoneAssumption
<1>3. ASSUME NEW d \in Deliveries, Update(d) PROVE order'[o] # None
  BY <1>3, WrittenIsGenuine, NoneAssumption DEF Update, IInv, TypeOK
<1>4. CASE UNCHANGED order
  BY <1>4
<1> QED
  BY <1>1, <1>2, <1>3, <1>4, NextCases DEF Post, FindOrder, FindNoDeviceId, FindNoOrder,
     FindDevice, Send, Fails, Respond, Kill, Restart, dbVars, vars

(* A request holds a document because it just read it or held it before.    *)
LEMMA HeldCases ==
    ASSUME IInv, [Next]_vars, NEW d \in Deliveries, pc'[d] \in Reading
    PROVE  \/ FindOrder(d)
           \/ pc[d] \in Reading /\ found'[d] = found[d] /\ snapshot'[d] = snapshot[d]
<1> USE DEF IInv, Reading
<1>1. ASSUME NEW e \in Deliveries,
             \/ Post(e) \/ FindNoDeviceId(e) \/ FindNoOrder(e) \/ Update(e) \/ Fails(e)
      PROVE  pc[d] \in Reading /\ found'[d] = found[d] /\ snapshot'[d] = snapshot[d]
  BY <1>1 DEF Post, FindNoDeviceId, FindNoOrder, Update, Fails, Return, Goto, TypeOK, localVars
<1>2. ASSUME NEW e \in Deliveries, FindOrder(e), d # e
      PROVE  pc[d] \in Reading /\ found'[d] = found[d] /\ snapshot'[d] = snapshot[d]
  BY <1>2 DEF FindOrder, Goto, TypeOK
<1>3. ASSUME NEW e \in Deliveries, FindDevice(e) \/ Send(e) \/ Respond(e)
      PROVE  pc[d] \in Reading /\ found'[d] = found[d] /\ snapshot'[d] = snapshot[d]
  BY <1>3 DEF FindDevice, Send, Respond, Goto, TypeOK, localVars
<1>4. ~Kill
  BY DEF Kill, Working, TypeOK
<1> QED
  BY <1>1, <1>2, <1>3, <1>4, NextCases DEF CreateOrder, EditOrder, Restart, localVars, vars

LEMMA HeldStep == ASSUME IInv, [Next]_vars PROVE Held'
<1> SUFFICES ASSUME NEW d \in Deliveries, pc'[d] \in Reading PROVE HeldBy(d)'
  BY DEF Held, HeldBy
<1> USE DEF IInv
<1>0. \A doc \in Document : \A o \in Orders : Genuine(doc, o) => Genuine(doc, o)'
  BY GenuineStays
<1>1. CASE FindOrder(d)
  <2>1. PICK o \in Orders : /\ order[o] # None /\ OrderNo[o] = body[d].no /\ ~Refused(d, o)
                            /\ found'[d] = o /\ snapshot'[d] = order[o]
    BY <1>1 DEF FindOrder, OrdersOf, TypeOK
  <2>2. PICK doc \in Document : doc = order[o]
    BY <2>1 DEF TypeOK
  <2>3. Genuine(doc, o)'
    BY <1>0, <2>1, <2>2 DEF Stored
  <2>4. Genuine(snapshot[d], found[d])'
    BY <2>1, <2>2, <2>3 DEF Genuine
  <2>5. o \notin raced => doc.rest = edits[o]
    BY <2>1, <2>2 DEF EditsSurviveUnlessRaced
  <2>6. body[d].kind = "on" => doc.device # None
    BY <2>1, <2>2 DEF Refused, NeedsDevice
  <2> QED
    BY <1>1, <2>1, <2>2, <2>4, <2>5, <2>6 DEF FindOrder, HeldBy, dbVars, histVars
<1>2. CASE pc[d] \in Reading /\ found'[d] = found[d] /\ snapshot'[d] = snapshot[d]
  <2>1. HeldBy(d) /\ pc[d] \in Reading
    BY <1>2 DEF Held
  <2>2. PICK o \in Orders, doc \in Document : o = found[d] /\ doc = snapshot[d]
    BY <2>1 DEF HeldBy, TypeOK
  <2>3. Genuine(doc, o)'
    BY <1>0, <2>1, <2>2 DEF HeldBy
  <2>4. Genuine(snapshot[d], found[d])'
    BY <1>2, <2>2, <2>3 DEF Genuine
  <2>5. body'[d] = body[d]
    BY <2>1, Monotone DEF Worked, Running, Reading
  <2>6. o \notin raced' => o \notin raced /\ edits'[o] = edits[o]
    BY <2>1, <2>2, RacedStep DEF Holding, Reading
  <2>7. order'[o] # None
    BY <2>1, <2>2, OrderStays DEF HeldBy
  <2> QED
    BY <1>2, <2>1, <2>2, <2>4, <2>5, <2>6, <2>7 DEF HeldBy
<1> QED
  BY <1>1, <1>2, HeldCases

(* Only its own request tells a device of a delivery.                       *)
LEMMA NewNotice ==
    ASSUME [Next]_vars, NEW d \in Deliveries, NEW v \in Devices,
           <<d, v>> \in shown', <<d, v>> \notin shown
    PROVE  Send(d) /\ v = target[d]
<1>1. \E e \in Deliveries : Send(e)
  BY NextCases DEF CreateOrder, EditOrder, Post, FindOrder, FindNoDeviceId, FindNoOrder,
     FindDevice, Update, Fails, Respond, Kill, Restart, histVars, vars
<1> QED
  BY <1>1 DEF Send

(* A request has a target because it just looked it up or had it before.    *)
LEMMA TargetCases ==
    ASSUME IInv, [Next]_vars, NEW d \in Deliveries, pc'[d] \in {"send", "update"}
    PROVE  \/ FindDevice(d) /\ pc'[d] = "send"
           \/ /\ pc[d] \in {"send", "update"}
              /\ target'[d] = target[d] /\ snapshot'[d] = snapshot[d]
              /\ pc[d] = pc'[d] \/ Send(d)
<1> USE DEF IInv
<1> DEFINE Kept == /\ pc[d] \in {"send", "update"}
                   /\ target'[d] = target[d] /\ snapshot'[d] = snapshot[d]
                   /\ pc[d] = pc'[d] \/ Send(d)
<1>1. ASSUME NEW e \in Deliveries,
             \/ Post(e) \/ FindNoDeviceId(e) \/ FindNoOrder(e) \/ Update(e) \/ Fails(e)
      PROVE  Kept
  BY <1>1 DEF Post, FindNoDeviceId, FindNoOrder, Update, Fails, Return, Goto, TypeOK,
     localVars
<1>2. ASSUME NEW e \in Deliveries, FindOrder(e) \/ Send(e) \/ Respond(e)
      PROVE  Kept
  BY <1>2 DEF FindOrder, Send, Respond, Goto, TypeOK, localVars
<1>3. ASSUME NEW e \in Deliveries, FindDevice(e), e # d
      PROVE  Kept
  BY <1>3 DEF FindDevice, Goto, TypeOK
<1>4. FindDevice(d) => pc'[d] = "send"
  BY DEF FindDevice, Goto, TypeOK
<1>5. ~Kill
  BY DEF Kill, Working, TypeOK
<1>6. ASSUME UNCHANGED <<pc, target, snapshot>> PROVE Kept
  BY <1>6
<1> HIDE DEF Kept
<1>7. Kept \/ (FindDevice(d) /\ pc'[d] = "send")
  BY <1>1, <1>2, <1>3, <1>4, <1>5, <1>6, NextCases
     DEF CreateOrder, EditOrder, Restart, localVars, vars
<1> QED
  BY <1>7 DEF Kept

LEMMA TargetedStep == ASSUME IInv, [Next]_vars PROVE Targeted'
<1> SUFFICES ASSUME NEW d \in Deliveries, pc'[d] \in {"send", "update"},
                    snapshot'[d].device # None
             PROVE  target'[d] = snapshot'[d].device
  BY DEF Targeted
<1>1. CASE FindDevice(d)
  BY <1>1 DEF FindDevice, DevicesOf, IInv, TypeOK
<1>2. CASE ~FindDevice(d)
  BY <1>2, TargetCases DEF IInv, Targeted
<1> QED
  BY <1>1, <1>2

LEMMA SentStep == ASSUME IInv, [Next]_vars PROVE Sent'
<1> USE DEF IInv
<1>1. ASSUME NEW d \in Deliveries, pc'[d] = "update"
      PROVE  target'[d] \in Devices /\ <<d, target'[d]>> \in shown'
  <2>1. CASE Send(d)
    BY <2>1, OrderAssumption DEF Send, localVars
  <2>2. CASE ~Send(d)
    BY <1>1, <2>2, TargetCases, Monotone DEF Sent
  <2> QED
    BY <2>1, <2>2
<1>2. ASSUME NEW d \in Deliveries, NEW v \in Devices, <<d, v>> \in shown' PROVE body'[d] # None
  <2>1. CASE <<d, v>> \in shown
    BY <2>1, Monotone DEF Sent
  <2>2. CASE <<d, v>> \notin shown
    <3>1. Send(d)
      BY <1>2, <2>2, NewNotice
    <3> QED
      BY <3>1, Monotone DEF Send, Worked, Running
  <2> QED
    BY <2>1, <2>2
<1> QED
  BY <1>1, <1>2 DEF Sent

(* What becomes of a request that was told and not cut off.                 *)
LEMMA ToldCases ==
    ASSUME IInv, [Next]_vars, NEW d \in Deliveries, NEW v \in Devices,
           d \notin severed', <<d, v>> \in shown'
    PROVE  \/ Send(d) /\ v = target[d]
           \/ <<d, v>> \in shown /\ (Update(d) \/ Fails(d) \/ Respond(d))
           \/ /\ <<d, v>> \in shown
              /\ pc'[d] = pc[d] /\ result'[d] = result[d]
              /\ pc[d] = "update" => target'[d] = target[d]
              /\ \A o \in Orders : <<d, o>> \in applied => <<d, o>> \in applied'
<1> USE DEF IInv
<1>1. CASE <<d, v>> \notin shown
  BY <1>1, NewNotice
<1>2. CASE <<d, v>> \in shown
  <2> DEFINE Still == /\ pc'[d] = pc[d] /\ result'[d] = result[d]
                      /\ pc[d] = "update" => target'[d] = target[d]
                      /\ \A o \in Orders : <<d, o>> \in applied => <<d, o>> \in applied'
  <2>1. d \notin severed
    BY NextCases DEF CreateOrder, EditOrder, Post, FindOrder, FindNoDeviceId, FindNoOrder,
       FindDevice, Send, Update, Fails, Respond, Kill, Restart, histVars, vars
  <2>2. pc[d] \in {"update", "returned", "done"}
    BY <1>2, <2>1 DEF Once
  <2>3. ASSUME NEW e \in Deliveries, Post(e)
        PROVE  Still
    BY <2>2, <2>3 DEF Post, Return, Goto, TypeOK, localVars
  <2>4. ASSUME NEW e \in Deliveries, FindNoDeviceId(e) \/ FindNoOrder(e) \/ FindOrder(e)
        PROVE  Still
    BY <2>2, <2>4 DEF FindNoDeviceId, FindNoOrder, FindOrder, Return, Goto, TypeOK, histVars
  <2>5. ASSUME NEW e \in Deliveries, FindDevice(e) \/ Send(e)
        PROVE  Still
    BY <2>2, <2>5 DEF FindDevice, Send, Goto, TypeOK, localVars, histVars
  <2>6. ASSUME NEW e \in Deliveries, e # d, Update(e) \/ Fails(e) \/ Respond(e)
        PROVE  Still
    BY <2>6 DEF Update, Fails, Respond, Return, Goto, TypeOK, localVars, histVars
  <2>7. ASSUME Kill PROVE Still
    BY <2>2, <2>7 DEF Kill, Working, TypeOK
  <2>8. ASSUME UNCHANGED <<pc, result, target, applied>> PROVE Still
    BY <2>8
  <2> HIDE DEF Still
  <2>9. Still \/ Update(d) \/ Fails(d) \/ Respond(d)
    BY <2>3, <2>4, <2>5, <2>6, <2>7, <2>8, NextCases
       DEF CreateOrder, EditOrder, Restart, localVars, histVars, vars
  <2> QED
    BY <1>2, <2>9 DEF Still
<1> QED
  BY <1>1, <1>2

LEMMA OnceStep == ASSUME IInv, [Next]_vars PROVE Once'
<1> USE DEF IInv
<1>1. severed \subseteq severed'
  BY NextCases DEF CreateOrder, EditOrder, Post, FindOrder, FindNoDeviceId, FindNoOrder,
     FindDevice, Send, Update, Fails, Respond, Kill, Restart, histVars, vars
<1>2. ASSUME NEW d \in Deliveries, pc'[d] = "cut" PROVE d \in severed'
  <2>1. CASE Kill
    BY <1>2, <2>1 DEF Kill, Once, TypeOK
  <2>2. CASE ~Kill
    <3>1. ASSUME NEW e \in Deliveries,
                 \/ Post(e) \/ FindOrder(e) \/ FindNoDeviceId(e) \/ FindNoOrder(e)
                 \/ FindDevice(e) \/ Send(e) \/ Update(e) \/ Fails(e) \/ Respond(e)
          PROVE  pc[d] = "cut"
      BY <1>2, <3>1 DEF Post, FindOrder, FindNoDeviceId, FindNoOrder, FindDevice, Send,
         Update, Fails, Respond, Return, Goto, TypeOK
    <3>2. pc[d] = "cut"
      BY <1>2, <2>2, <3>1, NextCases DEF CreateOrder, EditOrder, Restart, vars
    <3> QED
      BY <1>1, <3>2 DEF Once
  <2> QED
    BY <2>1, <2>2
<1>3. ASSUME NEW d \in Deliveries, d \notin severed', NEW v \in Devices, <<d, v>> \in shown'
      PROVE  /\ pc'[d] \in {"update", "returned", "done"}
             /\ pc'[d] = "update" => v = target'[d]
  <2>1. CASE Send(d) /\ v = target[d]
    BY <2>1 DEF Send, Goto, TypeOK, localVars
  <2>2. CASE Update(d) \/ Fails(d) \/ Respond(d)
    BY <2>2 DEF Update, Fails, Respond, Return, Goto, TypeOK
  <2>3. CASE /\ <<d, v>> \in shown /\ pc'[d] = pc[d]
             /\ pc[d] = "update" => target'[d] = target[d]
    BY <1>1, <1>3, <2>3 DEF Once
  <2> QED
    BY <1>3, <2>1, <2>2, <2>3, ToldCases
<1> QED
  BY <1>2, <1>3 DEF Once

LEMMA ToldIsStoredStep == ASSUME IInv, [Next]_vars PROVE ToldIsStored'
<1> USE DEF IInv
<1> SUFFICES ASSUME NEW d \in Deliveries, d \notin severed', NEW v \in Devices,
                    <<d, v>> \in shown'
             PROVE  \/ pc'[d] = "update" \/ result'[d] = "failed"
                    \/ \E o \in Orders : <<d, o>> \in applied' /\ ToldDevice(o, v)
  BY DEF ToldIsStored, ToldDevice
<1>0. severed \subseteq severed'
  BY NextCases DEF CreateOrder, EditOrder, Post, FindOrder, FindNoDeviceId, FindNoOrder,
     FindDevice, Send, Update, Fails, Respond, Kill, Restart, histVars, vars
<1>1. CASE Send(d)
  BY <1>1 DEF Send, Goto, TypeOK
<1>2. CASE Fails(d)
  BY <1>2 DEF Fails, Return, TypeOK
<1>3. CASE <<d, v>> \in shown /\ Update(d)
  <2>1. pc[d] = "update" /\ v = target[d] /\ found[d] \in Orders
    BY <1>0, <1>3 DEF Update, Once, Held, HeldBy, Reading
  <2>2. ToldDevice(found[d], v)
    BY <2>1 DEF Held, HeldBy, Reading, Genuine, Targeted, ToldDevice
  <2>3. <<d, found[d]>> \in applied'
    BY <1>3 DEF Update
  <2> QED
    BY <2>1, <2>2, <2>3
<1>4. CASE <<d, v>> \in shown /\ Respond(d)
  <2>1. pc[d] = "returned" /\ UNCHANGED <<result, applied>>
    BY <1>4 DEF Respond, Goto, histVars
  <2> QED
    BY <1>0, <1>4, <2>1 DEF ToldIsStored
<1>5. CASE /\ <<d, v>> \in shown
           /\ pc'[d] = pc[d] /\ result'[d] = result[d]
           /\ \A o \in Orders : <<d, o>> \in applied => <<d, o>> \in applied'
  BY <1>0, <1>5 DEF ToldIsStored
<1> QED
  BY <1>1, <1>2, <1>3, <1>4, <1>5, ToldCases

(* History kept by the steps other than Post and Update.                    *)
LEMMA HistoryCases ==
    ASSUME IInv, [Next]_vars
    PROVE  \/ \E d \in Deliveries : Post(d)
           \/ \E d \in Deliveries : Update(d)
           \/ UNCHANGED <<applied, after>>
  BY NextCases DEF CreateOrder, EditOrder, FindOrder, FindNoDeviceId, FindNoOrder, FindDevice,
     Send, Fails, Respond, Kill, Restart, histVars, vars

LEMMA AfterEndedStep == ASSUME IInv, [Next]_vars PROVE AfterEnded'
<1> USE DEF IInv
<1> DEFINE Ended == {"returned", "cut", "done"}
<1>1. ASSUME NEW x \in Deliveries, Post(x) PROVE AfterEnded'
  <2>1. /\ \A d \in Deliveries \ {x} : pc'[d] = pc[d]
        /\ after' = {p \in after : p[2] # x}
                      \cup {<<x, e>> : e \in {y \in Deliveries \ {x} : pc[y] \in Ended}}
    BY <1>1 DEF Post, Return, Goto, TypeOK
  <2>2. ASSUME NEW d \in Deliveries, NEW e \in Deliveries, <<e, d>> \in after'
        PROVE  pc'[d] \in Ended
    BY <2>1, <2>2 DEF AfterEnded
  <2> QED
    BY <2>2 DEF AfterEnded
<1>2. ASSUME UNCHANGED after,
             \A d \in Deliveries : pc[d] \in Ended => pc'[d] \in Ended
      PROVE  AfterEnded'
  BY <1>2 DEF AfterEnded
<1>3. ASSUME NEW x \in Deliveries,
             \/ FindOrder(x) \/ FindNoDeviceId(x) \/ FindNoOrder(x) \/ FindDevice(x)
             \/ Send(x) \/ Update(x) \/ Fails(x) \/ Respond(x)
      PROVE  AfterEnded'
  <2>1. UNCHANGED after
    BY <1>3 DEF FindOrder, FindNoDeviceId, FindNoOrder, FindDevice, Send, Update, Fails,
       Respond, histVars
  <2>2. \A d \in Deliveries : pc[d] \in Ended => pc'[d] \in Ended
    BY <1>3 DEF FindOrder, FindNoDeviceId, FindNoOrder, FindDevice, Send, Update, Fails,
       Respond, Return, Goto, Working, TypeOK
  <2> QED
    BY <1>2, <2>1, <2>2
<1>4. CASE Kill
  BY <1>2, <1>4 DEF Kill, Working, TypeOK, histVars
<1> QED
  BY <1>1, <1>2, <1>3, <1>4, NextCases DEF CreateOrder, EditOrder, Restart, histVars, vars

LEMMA NewerAnswerStep == ASSUME IInv, [Next]_vars PROVE NewerAnswerWins'
<1> USE DEF IInv
<1> DEFINE Answered(o, d) == order[o] # None /\ order[o].response = d
<1>1. ASSUME NEW x \in Deliveries, Post(x) PROVE NewerAnswerWins'
  <2>1. /\ UNCHANGED order
        /\ applied' = {p \in applied : p[1] # x}
        /\ \A d, e \in Deliveries : <<e, d>> \in after' => e = x \/ <<e, d>> \in after
    BY <1>1 DEF Post, dbVars
  <2>2. \A o \in Orders : \A e \in Deliveries :
          <<e, o>> \in applied' => e # x /\ <<e, o>> \in applied
    BY <2>1
  <2> QED
    BY <2>1, <2>2 DEF NewerAnswerWins
<1>2. ASSUME NEW x \in Deliveries, Update(x) PROVE NewerAnswerWins'
  <2>1. PICK q \in Orders : q = found[x]
    BY <1>2 DEF Update, Held, HeldBy, Reading
  <2>2. /\ order'[q].response = x
        /\ \A o \in Orders \ {q} : order'[o] = order[o]
        /\ applied' = applied \cup {<<x, q>>}
        /\ UNCHANGED after
    BY <1>2, <2>1, WrittenIsGenuine DEF Update, TypeOK
  <2>3. \A e \in Deliveries : <<e, x>> \notin after
    BY <1>2 DEF Update, AfterEnded
  <2>4. ASSUME NEW o \in Orders, NEW d \in Deliveries, NEW e \in Deliveries,
               order'[o] # None, order'[o].response = d, <<e, o>> \in applied'
        PROVE  <<e, d>> \notin after'
    BY <2>2, <2>3, <2>4 DEF NewerAnswerWins
  <2> QED
    BY <2>4 DEF NewerAnswerWins
<1>3. ASSUME UNCHANGED <<applied, after>>,
             \A o \in Orders : \A d \in Deliveries : Answered(o, d)' => Answered(o, d)
      PROVE  NewerAnswerWins'
  BY <1>3 DEF NewerAnswerWins
<1>4. ASSUME NEW q \in Orders, CreateOrder(q) PROVE NewerAnswerWins'
  <2>1. /\ order'[q].response = None
        /\ \A o \in Orders \ {q} : order'[o] = order[o]
        /\ UNCHANGED <<applied, after>>
    BY <1>4 DEF CreateOrder, TypeOK, histVars
  <2> QED
    BY <1>3, <2>1, NoneAssumption
<1>5. ASSUME NEW q \in Orders, EditOrder(q) PROVE NewerAnswerWins'
  <2>1. /\ order[q] \in Document /\ order[q] # None
        /\ order'[q] = [order[q] EXCEPT !.rest = edits[q] + 1]
        /\ \A o \in Orders \ {q} : order'[o] = order[o]
        /\ UNCHANGED <<applied, after>>
    BY <1>5 DEF EditOrder, TypeOK
  <2>2. order'[q].response = order[q].response
    BY <2>1 DEF Document
  <2> QED
    BY <1>3, <2>1, <2>2
<1> QED
  BY <1>1, <1>2, <1>3, <1>4, <1>5, NextCases DEF FindOrder, FindNoDeviceId, FindNoOrder,
     FindDevice, Send, Fails, Respond, Kill, Restart, dbVars, histVars, vars

LEMMA UnbornStep == ASSUME IInv, [Next]_vars PROVE Unborn'
<1> USE DEF IInv
<1>1. \A o \in Orders : order'[o] = None => order[o] = None
  BY OrderStays
<1>2. ASSUME NEW q \in Orders, EditOrder(q) PROVE Unborn'
  <2>1. /\ order[q] # None
        /\ \A o \in Orders \ {q} : edits'[o] = edits[o]
    BY <1>2 DEF EditOrder, TypeOK
  <2> QED
    BY <1>1, <2>1 DEF Unborn
<1>3. CASE UNCHANGED edits
  BY <1>1, <1>3 DEF Unborn
<1> QED
  BY <1>2, <1>3, NextCases DEF CreateOrder, Post, FindOrder, FindNoDeviceId, FindNoOrder,
     FindDevice, Send, Update, Fails, Respond, Kill, Restart, dbVars, vars

LEMMA EditsSurviveStep == ASSUME IInv, [Next]_vars PROVE EditsSurviveUnlessRaced'
<1> USE DEF IInv
<1>1. ASSUME NEW q \in Orders, CreateOrder(q) PROVE EditsSurviveUnlessRaced'
  <2>1. /\ order'[q].rest = 0 /\ edits[q] = 0
        /\ \A o \in Orders \ {q} : order'[o] = order[o]
        /\ UNCHANGED <<edits, raced>>
    BY <1>1 DEF CreateOrder, TypeOK, histVars, Unborn
  <2> QED
    BY <2>1 DEF EditsSurviveUnlessRaced
<1>2. ASSUME NEW q \in Orders, EditOrder(q) PROVE EditsSurviveUnlessRaced'
  <2>1. /\ order[q] \in Document /\ raced \subseteq raced'
        /\ order'[q] = [order[q] EXCEPT !.rest = edits[q] + 1]
        /\ edits'[q] = edits[q] + 1
        /\ \A o \in Orders \ {q} : order'[o] = order[o] /\ edits'[o] = edits[o]
    BY <1>2 DEF EditOrder, TypeOK
  <2>2. order'[q].rest = edits'[q]
    BY <2>1 DEF Document
  <2> QED
    BY <2>1, <2>2 DEF EditsSurviveUnlessRaced
<1>3. ASSUME NEW x \in Deliveries, Update(x) PROVE EditsSurviveUnlessRaced'
  <2>1. PICK q \in Orders : q = found[x]
    BY <1>3 DEF Update, Held, HeldBy, Reading
  <2>2. /\ order'[q].rest = snapshot[x].rest
        /\ \A o \in Orders \ {q} : order'[o] = order[o]
        /\ UNCHANGED <<edits, raced>>
    BY <1>3, <2>1, WrittenIsGenuine DEF Update, TypeOK
  <2>3. q \notin raced => snapshot[x].rest = edits[q]
    BY <1>3, <2>1 DEF Update, Held, HeldBy, Reading
  <2> QED
    BY <2>2, <2>3 DEF EditsSurviveUnlessRaced
<1> QED
  BY <1>1, <1>2, <1>3, NextCases DEF Post, FindOrder, FindNoDeviceId, FindNoOrder, FindDevice,
     Send, Fails, Respond, Kill, Restart, dbVars, histVars, vars, EditsSurviveUnlessRaced

LEMMA NoticeStep == ASSUME IInv, [Next]_vars PROVE NoticeGoesToTheOwner'
<1> USE DEF IInv
<1> SUFFICES ASSUME NEW d \in Deliveries, NEW v \in Devices, <<d, v>> \in shown'
             PROVE  \E o \in Orders :
                      /\ order'[o] # None /\ OrderNo[o] = body'[d].no
                      /\ DeviceOf[o] = v \/ (body'[d].kind = "off" /\ DeviceOf[o] = None)
  BY DEF NoticeGoesToTheOwner, OrdersOf
<1>1. CASE <<d, v>> \in shown
  <2>1. PICK o \in Orders :
            /\ order[o] # None /\ OrderNo[o] = body[d].no
            /\ DeviceOf[o] = v \/ (body[d].kind = "off" /\ DeviceOf[o] = None)
    BY <1>1 DEF NoticeGoesToTheOwner, OrdersOf
  <2>2. order'[o] # None /\ body'[d] = body[d]
    BY <1>1, <2>1, OrderStays, Monotone DEF Sent
  <2> QED
    BY <2>1, <2>2
<1>2. CASE <<d, v>> \notin shown
  <2>1. pc[d] = "send" /\ v = target[d] /\ UNCHANGED <<body, order>>
    BY <1>2, NewNotice DEF Send, dbVars
  <2>2. /\ found[d] \in Orders /\ order[found[d]] # None /\ OrderNo[found[d]] = body[d].no
        /\ snapshot[d].device = DeviceOf[found[d]]
        /\ body[d].kind = "on" => snapshot[d].device # None
    BY <2>1 DEF Held, HeldBy, Reading, Genuine
  <2>3. body[d].kind \in Kinds
    BY <2>1, BodiesAssumption DEF Worked, Running, TypeOK, BodyType
  <2> QED
    BY <2>1, <2>2, <2>3 DEF Targeted, Kinds
<1> QED
  BY <1>1, <1>2

-----------------------------------------------------------------------------
(* The inductive invariant holds in every behaviour.                        *)
THEOREM Invariant == Spec => []IInv
<1>1. IInv /\ [Next]_vars => IInv'
  BY TypeOKStep, WorkedStep, StoredStep, HeldStep, TargetedStep, SentStep, UnbornStep,
     AfterEndedStep, NewerAnswerStep, EditsSurviveStep, NoticeStep, OnceStep,
     ToldIsStoredStep DEF IInv
<1> QED
  BY <1>1, IInvInit, PTL DEF Spec

(* Type correctness.                                                        *)
THEOREM TypeCorrect == Spec => []TypeOK
BY Invariant, PTL DEF IInv

(* A stored answer was told first, to the device of the order that holds    *)
(* it: findByIdAndUpdate comes after the awaited sendNotification in both   *)
(* handlers and writes the document the device was taken from, and a stale  *)
(* snapshot only ever carries answers that were told themselves.            *)
THEOREM ToldBeforeStored == Spec => []StoredWasShown
<1>1. IInv => StoredWasShown
  BY NoneAssumption DEF IInv, Stored, Genuine, StoredWasShown
<1> QED
  BY <1>1, Invariant, PTL

(* The stored status and the stored answer are of one delivery.             *)
THEOREM StatusOfResponse == Spec => []StatusMatchesResponse
<1>1. IInv => StatusMatchesResponse
  BY DEF IInv, Stored, Genuine, StatusMatchesResponse
<1> QED
  BY <1>1, Invariant, PTL

(* Answers go backwards only between overlapping requests.                  *)
THEOREM NewerWins == Spec => []NewerAnswerWins
BY Invariant, PTL DEF IInv

(* Edits are lost only to a handler that read before them.                  *)
THEOREM EditsSurvive == Spec => []EditsSurviveUnlessRaced
BY Invariant, PTL DEF IInv

(* What was told is stored, unless an awaited call failed or the process    *)
(* died between the notice and the update.                                  *)
THEOREM ToldThenStored == Spec => []ToldIsStored
BY Invariant, PTL DEF IInv

(* Notices go to the device of an order of that number, off-ramp notices    *)
(* also to any device if such an order has none.                            *)
THEOREM TellsTheOwner == Spec => []NoticeGoesToTheOwner
BY Invariant, PTL DEF IInv
=============================================================================

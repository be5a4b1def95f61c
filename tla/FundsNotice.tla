---------------------------- MODULE FundsNotice ----------------------------
(***************************************************************************)
(* What the Moralis webhook promises about "Funds Received" notices,       *)
(* without Redis, FCM, requests or crashes.  Every event ends once and for *)
(* all: told (a notice was handed to FCM), silenced (its hash had already  *)
(* been claimed), ignored (it is not one to announce) or failed.  A hash   *)
(* is claimed only after an event with that hash was told, and claims are  *)
(* never withdrawn.                                                        *)
(***************************************************************************)
EXTENDS MoralisPayload

CONSTANTS Deliveries, Payloads

VARIABLES
    event,    \* [Deliveries -> the body that arrived, or None]
    outcome,  \* [Deliveries -> Outcomes]
    claimed   \* hashes announced for good

vars == <<event, outcome, claimed>>

Outcomes == {"pending", "told", "silenced", "ignored", "failed"}

Init ==
    /\ event = [d \in Deliveries |-> None]
    /\ outcome = [d \in Deliveries |-> "pending"]
    /\ claimed = {}

Arrive(d) ==
    /\ event[d] = None
    /\ \E p \in Payloads : event' = [event EXCEPT ![d] = p]
    /\ UNCHANGED <<outcome, claimed>>

Settle(d, o) ==
    /\ event[d] # None
    /\ outcome[d] = "pending"
    /\ outcome' = [outcome EXCEPT ![d] = o]
    /\ UNCHANGED <<event, claimed>>

Tell(d) == Settle(d, "told") /\ Qualifies(event[d])
Silence(d) == Settle(d, "silenced") /\ HashOf(event[d]) \in claimed
Ignore(d) == Settle(d, "ignored") /\ ~Qualifies(event[d])
Fail(d) == Settle(d, "failed")

Claim(d) ==
    /\ outcome[d] = "told"
    /\ claimed' = claimed \cup {HashOf(event[d])}
    /\ UNCHANGED <<event, outcome>>

Next == \E d \in Deliveries :
    Arrive(d) \/ Tell(d) \/ Silence(d) \/ Ignore(d) \/ Fail(d) \/ Claim(d)

Spec == Init /\ [][Next]_vars
=============================================================================

-------------------------- MODULE MCAlchemyWebhook --------------------------
(***************************************************************************)
(* Answers of either flow about two orders of one number, of which one     *)
(* belongs to the phone and one to no device.  A lookup without a device   *)
(* may find the phone or the tablet.                                       *)
(***************************************************************************)
EXTENDS AlchemyWebhook

CONSTANTS none

MCOrderStatus == {"pending", "completed"}
MCDevices == {"phone", "tablet"}
MCRegistered == {"phone", "tablet"}
MCStatuses == {"FINISHED", "4"}

MCOrders == {1, 2}
MCOrderNo == <<"A", "A">>
MCDeviceOf == <<"phone", none>>
MCBodies == {[kind |-> "on", no |-> "A", status |-> "FINISHED"],
             [kind |-> "on", no |-> "A", status |-> none],
             [kind |-> "off", no |-> "A", status |-> "4"]}
=============================================================================

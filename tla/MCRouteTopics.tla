---------------------------- MODULE MCRouteTopics ----------------------------
(* An instance of RouteTopics with the settings that make a difference: a  *)
(* dynamic route of a device, a route of all devices with another MAC      *)
(* address and its topic typed in, and a dynamic one without MAC address.  *)
EXTENDS RouteTopics

CONSTANTS d1, m1, m2

Setting(d, e, dyn, m) == [device |-> d, enabled |-> e, dynamic |-> dyn, mac |-> m]

MCChoices ==
  {Setting(d1, TRUE, TRUE, m1), Setting(AllDevices, TRUE, FALSE, m2),
   Setting(AllDevices, TRUE, TRUE, NoMac)}

(* No device is in the mapping at first.                                   *)
MCInit == Init /\ mapping = [m \in Macs |-> UnknownMac]

MCSpec == MCInit /\ [][Next]_vars /\ Fairness
=============================================================================

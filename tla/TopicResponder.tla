---------------------------- MODULE TopicResponder ----------------------------
(***************************************************************************)
(* TopicResponder of services/topic_responder.py, the server that gives a  *)
(* route its topic: it copies the mapping of MAC addresses to places from  *)
(* a database once per interval, and answers requests from the copy.       *)
(***************************************************************************)
EXTENDS Naturals

CONSTANTS Macs,        \* MAC addresses of devices
          Places,      \* plant, line and equipment, as the topic names them
          UnknownMac,  \* what the topic says if the MAC address has no place
          MaxMoves     \* bound on the changes of the mapping

ASSUME ResponderAssumption == MaxMoves \in Nat /\ UnknownMac \notin Places

Topics == [mac : Macs, place : Places \cup {UnknownMac}]

VARIABLES
  mapping,     \* the view v_topic_mapping of the database
  device_map,  \* self.device_map
  up,          \* the responder answers
  moves        \* how often the mapping has changed

responder == <<mapping, device_map, up, moves>>

ResponderTypeOK ==
  /\ mapping \in [Macs -> Places \cup {UnknownMac}]
  /\ device_map \in [Macs -> Places \cup {UnknownMac}]
  /\ up \in BOOLEAN
  /\ moves \in 0 .. MaxMoves

(* run() has fetched the mapping and is connected.                         *)
ResponderInit ==
  /\ mapping \in [Macs -> Places \cup {UnknownMac}]
  /\ device_map = mapping
  /\ up = TRUE
  /\ moves = 0

(* Somebody edits the database.                                            *)
Move ==
  /\ moves < MaxMoves
  /\ moves' = moves + 1
  /\ \E m \in Macs : \E place \in (Places \cup {UnknownMac}) \ {mapping[m]} :
       mapping' = [mapping EXCEPT ![m] = place]
  /\ UNCHANGED <<device_map, up>>

RefreshMapping ==
  /\ up
  /\ device_map # mapping
  /\ device_map' = mapping
  /\ UNCHANGED <<mapping, up, moves>>

(* The database cannot be read, in refresh_mapping_once() or in a callback *)
(* that looks up sensors: nothing catches it, and the thread ends.         *)
ResponderFails ==
  /\ up
  /\ up' = FALSE
  /\ UNCHANGED <<mapping, device_map, moves>>

(* The topic in the response to a request for m.  A mutant: the address is *)
(* not looked up.                                                          *)
EchoFor(m) == [mac |-> m, place |-> m]

TopicFor(m) == [mac |-> m, place |-> device_map[m]]
=============================================================================

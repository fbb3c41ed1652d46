---------------------------- MODULE MqttInputDriver ----------------------------
(***************************************************************************)
(* MqttInputDriver of drivers/mqtt.py and the paho client it opens: the    *)
(* operations its worker calls, and the callbacks that paho's network      *)
(* thread makes meanwhile.  The two threads share `emit` and `_connected`  *)
(* and take no lock.                                                       *)
(*                                                                         *)
(* The client is external.  Its session is clean: what was subscribed to   *)
(* on one connection is forgotten with it, and subscribe() on a client     *)
(* without a connection returns an error code that the driver ignores.     *)
(***************************************************************************)

VARIABLES
  client,      \* self.client is not None
  emit,        \* self.emit is not None
  connected,   \* self._connected
  link,        \* the client's connection; "waiting" for CONNACK
  looping,     \* the client's network thread runs
  subscribed,  \* the client has subscribed on this connection
  handling     \* the network thread is in _on_message, past its test of emit

driver == <<client, emit, connected, link, looping, subscribed, handling>>

DriverTypeOK ==
  /\ client \in BOOLEAN /\ emit \in BOOLEAN /\ connected \in BOOLEAN
  /\ link \in {"none", "waiting", "up", "down"}
  /\ looping \in BOOLEAN /\ subscribed \in BOOLEAN /\ handling \in BOOLEAN
  /\ looping => client
  /\ handling => looping
  /\ subscribed => emit /\ link \in {"waiting", "up"}

NoSession == ~client /\ ~emit /\ link = "none" /\ ~looping /\ ~subscribed /\ ~handling

DriverInit ==
  /\ client = FALSE /\ emit = FALSE /\ connected = FALSE
  /\ link = "none" /\ looping = FALSE /\ subscribed = FALSE /\ handling = FALSE

-----------------------------------------------------------------------------
(***************************************************************************)
(* Called by the worker.  connect() is Dial, or DialFails, and then Mark:  *)
(* the network thread runs by the time `_connected` is set.                *)
(***************************************************************************)
DialFails ==
  /\ client' = TRUE
  /\ UNCHANGED <<emit, connected, link, looping, subscribed, handling>>

Dial ==
  /\ client' = TRUE
  /\ link' = "waiting"
  /\ looping' = TRUE
  /\ UNCHANGED <<emit, connected, subscribed, handling>>

Mark ==
  /\ connected' = TRUE
  /\ UNCHANGED <<client, emit, link, looping, subscribed, handling>>

(* A mutant: a subscription that takes no account of the connection.       *)
StartSubscriptionAnyway ==
  /\ emit' = TRUE
  /\ subscribed' = TRUE
  /\ UNCHANGED <<client, connected, link, looping, handling>>

(* start_subscription(); a client that still waits for CONNACK sends the   *)
(* subscription when it may.                                               *)
StartSubscription ==
  /\ emit' = TRUE
  /\ subscribed' = (link \in {"waiting", "up"})
  /\ UNCHANGED <<client, connected, link, looping, handling>>

(* start_subscription() sets `emit` before it raises.                      *)
SubscriptionFails ==
  /\ emit' = TRUE
  /\ UNCHANGED <<client, connected, link, looping, subscribed, handling>>

(* run_subscription_once() raises, and read_server_status().               *)
NotConnected == ~connected

StopSubscription ==
  /\ emit' = FALSE
  /\ subscribed' = FALSE
  /\ UNCHANGED <<client, connected, link, looping, handling>>

(* disconnect(): loop_stop() joins the network thread.                     *)
Hangup ==
  /\ ~handling
  /\ client' = FALSE
  /\ emit' = FALSE
  /\ connected' = FALSE
  /\ link' = "none"
  /\ looping' = FALSE
  /\ subscribed' = FALSE
  /\ UNCHANGED handling

-----------------------------------------------------------------------------
(***************************************************************************)
(* The network thread: it is in one callback at a time.                    *)
(***************************************************************************)
Idle == looping /\ ~handling

(* _on_connect, rc = 0                                                     *)
Accepted ==
  /\ Idle /\ link = "waiting"
  /\ link' = "up"
  /\ connected' = TRUE
  /\ UNCHANGED <<client, emit, looping, subscribed, handling>>

(* _on_disconnect, after an _on_connect with another rc or not             *)
Lost ==
  /\ Idle /\ link \in {"waiting", "up"}
  /\ link' = "down"
  /\ connected' = FALSE
  /\ subscribed' = FALSE
  /\ UNCHANGED <<client, emit, looping, handling>>

(* The client dials again by itself, after a second or more.               *)
Redial ==
  /\ Idle /\ link = "down"
  /\ link' = "waiting"
  /\ UNCHANGED <<client, emit, connected, looping, subscribed, handling>>

Received ==
  /\ Idle /\ link = "up" /\ subscribed /\ emit
  /\ handling' = TRUE
  /\ UNCHANGED <<client, emit, connected, link, looping, subscribed>>

(* The message is decoded: self.emit(ReadResult(...)).  If emit has become *)
(* None in between, the call raises and ends the network thread.           *)
Handled ==
  /\ handling
  /\ handling' = FALSE
  /\ looping' = emit
  /\ UNCHANGED <<client, emit, connected, link, subscribed>>
==============================================================================

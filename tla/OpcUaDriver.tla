------------------------------ MODULE OpcUaDriver ------------------------------
(***************************************************************************)
(* OpcUaDriver of drivers/opcua.py with a subscription, and the asyncua    *)
(* client it opens.  The driver has an asyncio loop of its own that runs   *)
(* only while the worker is in a call: what the server sends in between    *)
(* waits, and is handled in the next call, whichever that is.              *)
(*                                                                         *)
(* The client is external.  It does not connect again by itself, and a     *)
(* subscription ends with its session.                                     *)
(***************************************************************************)

VARIABLES
  loop,          \* self._loop is not None
  session,       \* the client's session with the server
  subscription,  \* self._subscription: none, without, or with monitored items
  waiting        \* a notification has arrived that the loop has not handled

opcua == <<loop, session, subscription, waiting>>

OpcUaTypeOK ==
  /\ loop \in BOOLEAN /\ waiting \in BOOLEAN
  /\ session \in {"none", "up", "lost"} /\ subscription \in {"none", "empty", "monitored"}
  /\ session # "none" => loop
  /\ subscription # "none" => session # "none"
  /\ waiting => subscription = "monitored"

NoOpcUaSession ==
  loop = FALSE /\ session = "none" /\ subscription = "none" /\ waiting = FALSE

-----------------------------------------------------------------------------
(* Called by the worker                                                    *)

(* connect() makes the loop before it fails.                               *)
OpenFails ==
  /\ loop' = TRUE
  /\ UNCHANGED <<session, subscription, waiting>>

Open ==
  /\ loop' = TRUE /\ session' = "up"
  /\ UNCHANGED <<subscription, waiting>>

(* start_subscription(): create_subscription(), then the monitored items;  *)
(* either request may fail, and the server may have done what it asks.     *)
MonitorFails ==
  /\ subscription' \in {"none", "empty", "monitored"}
  /\ UNCHANGED <<loop, session, waiting>>

Monitor ==
  /\ session = "up" /\ subscription' = "monitored"
  /\ UNCHANGED <<loop, session, waiting>>

(* read_server_status() of the health check; run_subscription_once() only  *)
(* sleeps.                                                                 *)
IsLost == session = "lost"

(* stop_subscription(): delete() may fail, and does without a session.     *)
Delete ==
  /\ \/ session = "up" /\ subscription' = "none" /\ waiting' = FALSE
     \/ UNCHANGED <<subscription, waiting>>
  /\ UNCHANGED <<loop, session>>

(* disconnect(), whether or not the client's own fails.                    *)
CloseLoop == loop' = FALSE /\ session' = "none" /\ subscription' = "none" /\ waiting' = FALSE

-----------------------------------------------------------------------------
(* The server and the network                                              *)

Notify ==
  /\ session = "up" /\ subscription = "monitored" /\ waiting' = TRUE
  /\ UNCHANGED <<loop, session, subscription>>

Lose ==
  /\ session = "up" /\ session' = "lost"
  /\ UNCHANGED <<loop, subscription, waiting>>

(* datachange_notification() in the loop.                                  *)
DataChange ==
  /\ loop /\ waiting /\ waiting' = FALSE
  /\ UNCHANGED <<loop, session, subscription>>
==============================================================================

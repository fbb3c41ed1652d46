-------------------------- MODULE SubscriptionWorker --------------------------
(***************************************************************************)
(* OpcUaSubscriptionWorker of workers.py, the worker of a device whose     *)
(* driver pushes its data, running an MqttInputDriver or an OpcUaDriver: a *)
(* session is created, connected and subscribed, runs until it fails or    *)
(* the worker is told to stop, is reported if it failed, is cleaned up and *)
(* tried again.  MQTT data comes from paho's thread, OPC UA data from the  *)
(* worker's own, inside the calls to its driver.                           *)
(***************************************************************************)
EXTENDS MqttInputDriver, OpcUaDriver

VARIABLES
  kind,      \* driver_type of the device
  pc,        \* where the worker's thread is in run()
  started,   \* self._subscription_started
  stop,      \* the worker's stop event
  last,      \* the kind of the result it put in its outbox last
  calm,      \* history: from now on server and network do their part
  dry        \* history: when the session failed, no more data could come

drivers == <<driver, opcua, kind>>
worker == <<pc, started, last, dry>>
workerVars == <<drivers, worker, stop, calm>>

WorkerTypeOK ==
  /\ DriverTypeOK /\ OpcUaTypeOK
  /\ kind \in {"mqtt", "opcua"}
  /\ pc \in {"loop", "connecting", "connected", "subscribing", "running",
             "cleanup", "closing", "retry", "ended"}
  /\ started \in BOOLEAN /\ stop \in BOOLEAN /\ calm \in BOOLEAN /\ dry \in BOOLEAN
  /\ last \in {"none", "data", "error"}

WorkerInit ==
  /\ DriverInit /\ NoOpcUaSession
  /\ kind \in {"mqtt", "opcua"}
  /\ pc = "loop" /\ started = FALSE /\ stop = FALSE /\ last = "none"
  /\ calm = FALSE /\ dry = TRUE

-----------------------------------------------------------------------------
(* A call to the driver: what either kind does in it.                      *)
Call(mqtt, opc) ==
  /\ \/ kind = "mqtt" /\ mqtt /\ UNCHANGED opcua
     \/ kind = "opcua" /\ opc /\ UNCHANGED driver
  /\ UNCHANGED kind

(* A mutant: the stop event is only looked at while a session runs.        *)
BeginAnyway ==
  /\ pc = "loop"
  /\ pc' = "connecting"
  /\ started' = FALSE
  /\ dry' = TRUE
  /\ UNCHANGED <<drivers, last, stop, calm>>

(* The head of `while not self._stop_event.is_set()`.                      *)
Begin ==
  /\ pc = "loop"
  /\ pc' = IF stop THEN "ended" ELSE "connecting"
  /\ started' = FALSE
  /\ dry' = TRUE
  /\ UNCHANGED <<drivers, last, stop, calm>>

(* An exception in start_once() or in the session's loop: the failure is   *)
(* put in the outbox, and then the driver is cleaned up.                   *)
Report ==
  /\ last' = "error"
  /\ dry' = (kind = "mqtt" \/ (session' # "up" /\ ~waiting))
  /\ pc' = "cleanup"
  /\ UNCHANGED <<started, stop, calm>>

ConnectFails ==
  /\ pc = "connecting"
  /\ ~calm
  /\ Call(DialFails, OpenFails)
  /\ Report

Connect ==
  /\ pc = "connecting"
  /\ Call(Dial, Open)
  /\ pc' = IF kind = "mqtt" THEN "connected" ELSE "subscribing"
  /\ UNCHANGED <<started, last, dry, stop, calm>>

MarkConnected ==
  /\ pc = "connected"
  /\ Mark
  /\ pc' = "subscribing"
  /\ UNCHANGED <<kind, opcua, started, last, dry, stop, calm>>

SubscribeFails ==
  /\ pc = "subscribing"
  /\ ~calm \/ (kind = "opcua" /\ IsLost)
  /\ Call(SubscriptionFails, MonitorFails)
  /\ Report

Subscribe ==
  /\ pc = "subscribing"
  /\ Call(StartSubscription, Monitor)
  /\ started' = TRUE
  /\ pc' = "running"
  /\ UNCHANGED <<last, dry, stop, calm>>

(* run_subscription_once() or the health check raises: for MQTT if there   *)
(* is no connection, for OPC UA if the status cannot be read.              *)
Fails == IF kind = "mqtt" THEN NotConnected ELSE IsLost \/ ~calm

(* A mutant: a session that has run is cleaned up without a report.        *)
SessionEnds ==
  /\ pc = "running"
  /\ Fails
  /\ pc' = "cleanup"
  /\ UNCHANGED <<drivers, started, last, dry, stop, calm>>

SessionFails ==
  /\ pc = "running"
  /\ Fails
  /\ UNCHANGED drivers
  /\ Report

SessionStops ==
  /\ pc = "running"
  /\ stop
  /\ pc' = "cleanup"
  /\ UNCHANGED <<drivers, started, last, dry, stop, calm>>

(* _cleanup_driver(): stop_subscription() if there is one, disconnect().   *)
CleanUp ==
  /\ pc = "cleanup"
  /\ IF started THEN Call(StopSubscription, Delete) ELSE UNCHANGED drivers
  /\ pc' = "closing"
  /\ UNCHANGED <<started, last, dry, stop, calm>>

(* A mutant: a subscription that did not start needs no clean-up.          *)
CloseStarted ==
  /\ pc = "closing"
  /\ IF started THEN Call(Hangup, CloseLoop) ELSE UNCHANGED drivers
  /\ pc' = "retry"
  /\ UNCHANGED <<started, last, dry, stop, calm>>

Close ==
  /\ pc = "closing"
  /\ Call(Hangup, CloseLoop)
  /\ pc' = "retry"
  /\ UNCHANGED <<started, last, dry, stop, calm>>

(* A mutant: the worker gives up after a session that could not start.     *)
RetryStarted ==
  /\ pc = "retry"
  /\ pc' = IF started THEN "loop" ELSE "ended"
  /\ UNCHANGED <<drivers, started, last, dry, stop, calm>>

(* The wait for retry_interval_s, which the stop event cuts short.         *)
Retry ==
  /\ pc = "retry"
  /\ pc' = "loop"
  /\ UNCHANGED <<drivers, started, last, dry, stop, calm>>

WorkerStep ==
  \/ Begin \/ ConnectFails \/ Connect \/ MarkConnected \/ SubscribeFails \/ Subscribe
  \/ SessionFails \/ SessionStops \/ CleanUp \/ Close \/ Retry

-----------------------------------------------------------------------------
(* paho waits a second or more before it dials again.  The worker looks at *)
(* _connected every 0.2 s while the session runs, and gets into and out of *)
(* a session without waiting: it is done with that by then.                *)
Unnoticed ==
  \/ pc = "running" /\ ~connected
  \/ pc \in {"connected", "subscribing", "cleanup", "closing"}

Elsewhere == UNCHANGED <<opcua, kind, worker, stop, calm>>

Answer == Accepted /\ Elsewhere

Break == ~calm /\ Lost /\ Elsewhere

DialAgain == ~Unnoticed /\ Redial /\ Elsewhere

Receive == Received /\ Elsewhere

(* _emit_result() puts the result in the outbox.                           *)
Emit ==
  /\ Handled
  /\ last' = IF emit THEN "data" ELSE last
  /\ UNCHANGED <<opcua, kind, pc, started, dry, stop, calm>>

(* The loop runs in every call to the driver, those of the clean-up too.   *)
EmitDataChange ==
  /\ pc \in {"subscribing", "running", "closing"} \/ (pc = "cleanup" /\ started)
  /\ DataChange
  /\ last' = "data"
  /\ UNCHANGED <<driver, kind, pc, started, dry, stop, calm>>

ServerNotifies == Notify /\ UNCHANGED <<driver, kind, worker, stop, calm>>

SessionIsLost == ~calm /\ Lose /\ UNCHANGED <<driver, kind, worker, stop, calm>>

NetworkStep == Answer \/ DialAgain \/ Emit

Stop == ~stop /\ stop' = TRUE /\ UNCHANGED <<drivers, worker, calm>>

CalmDown == ~calm /\ calm' = TRUE /\ UNCHANGED <<drivers, worker, stop>>

WorkerNext ==
  \/ WorkerStep \/ NetworkStep \/ Break \/ Receive \/ Stop \/ CalmDown
  \/ EmitDataChange \/ ServerNotifies \/ SessionIsLost

(* The worker's thread runs, and so do paho's: a connection that is dialled *)
(* is answered or lost, and a message that is received is handled.         *)
WorkerSpec == WorkerInit /\ [][WorkerNext]_workerVars /\ WF_workerVars(WorkerStep) /\ WF_workerVars(NetworkStep)

-----------------------------------------------------------------------------
(* Sessions do not overlap: between two of them, and after the last one,   *)
(* there is no network thread left that could call back into a driver, no  *)
(* callback in progress, and no loop that could still handle data.         *)
SessionsAreSeparate == pc \in {"loop", "retry", "ended"} => NoSession /\ NoOpcUaSession

(* While the worker waits to try a failed session again, what it put last  *)
(* in its outbox is the failure: no value of the failed session, received  *)
(* before or during its clean-up, comes after and shows the device online. *)
(* Data of an OPC UA server that still answers, or that has arrived, may   *)
(* come in the calls that clean up (opcua.py:65).                          *)
FailureIsTheLastWord == pc = "retry" /\ ~stop /\ dry => last = "error"

(* A worker that is told to stop ends, from wherever it is, a session with *)
(* a callback in progress included.                                        *)
StoppedWorkerEnds == stop ~> pc = "ended"

(* Once server and network do their part and nobody stops it, the worker   *)
(* gets through its failures to a session that it keeps.                   *)
WorkerRecovers ==
  <>[](calm /\ ~stop) =>
    <>[](/\ pc = "running"
         /\ IF kind = "mqtt" THEN connected /\ link = "up"
            ELSE session = "up" /\ subscription = "monitored")

(* tests/test_mqtt_input_driver.py:153:                                    *)
(* "test_mqtt_input_driver_raises_when_client_disconnects_during_          *)
(* subscription".  A session that runs while its client has no connection  *)
(* ends.  It does not if the connection was lost before connect() had set  *)
(* _connected, which then hides what _on_disconnect had written.           *)
DisconnectEndsTheSession == (pc = "running" /\ link = "down") ~> pc # "running"
==============================================================================

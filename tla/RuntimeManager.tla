---------------------------- MODULE RuntimeManager ----------------------------
(***************************************************************************)
(* RuntimeManager of services/runtime_manager.py: start() and stop(),      *)
(* called by the web API's thread pool, and the threads they start and     *)
(* signal: one publisher, one topic refresh loop, one worker per device.   *)
(*                                                                         *)
(* Each start() that gets past its `if self.running` is a generation.  The *)
(* stop event of a publisher or worker is its own; the refresh loops share *)
(* topic_refresh_stop.  Every join() has a timeout of two seconds and is   *)
(* over whether or not the thread has ended.                               *)
(***************************************************************************)
EXTENDS Naturals, FiniteSets

CONSTANTS Clients,     \* threads that call the API
          Devices,     \* the enabled devices
          Nobody,      \* the holder of a free lock
          MaxStarts    \* bound on the generations

ASSUME RuntimeAssumption == MaxStarts \in Nat /\ Nobody \notin Clients

Generations == 1 .. MaxStarts

VARIABLES
  lock,           \* the client that holds self._lock
  pc,             \* where each client is in start() or stop()
  todo,           \* the devices for which start() has not started a worker yet
  running,        \* self.running
  generation,     \* the latest generation, 0 before the first
  publisher,      \* the generation of self.publisher, 0 for None
  workers,        \* self.pollers and self.subscription_workers
  pub,            \* the publisher thread of each generation
  refresher,      \* the refresh thread of each generation
  worker,         \* the worker thread of each generation and device
  pubStop,        \* the publishers whose stop event is set
  workerStop,     \* the workers whose stop event is set
  refreshStop,    \* self.topic_refresh_stop
  queued,         \* the generation whose result the queue holds for a device, or 0
  crossed,        \* history: <<p, w>>, publisher p took a result of worker w # p
  leftover,       \* history: generations with live threads after stop() or a failed start()
  startFailed     \* history: some start() has raised

manager == <<lock, pc, todo, running, generation, publisher, workers>>
threads == <<pub, refresher, worker>>
events == <<pubStop, workerStop, refreshStop>>
history == <<crossed, leftover, startFailed>>
vars == <<manager, threads, events, queued, history>>

TypeOK ==
  /\ lock \in Clients \cup {Nobody}
  /\ pc \in [Clients -> {"idle", "publisher", "refresh", "workers", "stopping", "joining"}]
  /\ todo \subseteq Devices
  /\ running \in BOOLEAN
  /\ generation \in 0 .. MaxStarts
  /\ publisher \in 0 .. MaxStarts
  /\ workers \subseteq Generations \X Devices
  /\ pub \in [Generations -> {"none", "connecting", "running", "ended"}]
  /\ refresher \in [Generations -> {"none", "waiting", "resolving", "leaving", "ended", "failed"}]
  /\ worker \in [Generations \X Devices -> {"none", "waiting", "polling", "ended"}]
  /\ pubStop \subseteq Generations
  /\ workerStop \subseteq Generations \X Devices
  /\ refreshStop \in BOOLEAN
  /\ queued \in [Devices -> 0 .. MaxStarts]
  /\ crossed \subseteq Generations \X Generations
  /\ leftover \subseteq Generations
  /\ startFailed \in BOOLEAN

Init ==
  /\ lock = Nobody
  /\ pc = [c \in Clients |-> "idle"]
  /\ todo = {}
  /\ running = FALSE
  /\ generation = 0
  /\ publisher = 0
  /\ workers = {}
  /\ pub = [g \in Generations |-> "none"]
  /\ refresher = [g \in Generations |-> "none"]
  /\ worker = [w \in Generations \X Devices |-> "none"]
  /\ pubStop = {}
  /\ workerStop = {}
  /\ refreshStop = FALSE
  /\ queued = [d \in Devices |-> 0]
  /\ crossed = {}
  /\ leftover = {}
  /\ startFailed = FALSE

Ended == {"none", "ended", "failed"}

Alive(g) == \/ pub[g] \notin Ended
            \/ refresher[g] \notin Ended
            \/ \E d \in Devices : worker[<<g, d>>] \notin Ended

-----------------------------------------------------------------------------
(***************************************************************************)
(* start().  It returns at once when the runtime is running.               *)
(***************************************************************************)
(* Mutants: the test of self.running outside the lock; a queue that keeps  *)
(* what the last run left in it.                                           *)
StartBeginUnlocked(c) ==
  /\ pc[c] = "idle"
  /\ ~running
  /\ generation < MaxStarts
  /\ lock' = c
  /\ pc' = [pc EXCEPT ![c] = "publisher"]
  /\ generation' = generation + 1
  /\ refreshStop' = FALSE
  /\ queued' = [d \in Devices |-> 0]
  /\ UNCHANGED <<todo, running, publisher, workers, threads, pubStop, workerStop, history>>

StartBeginUncleared(c) ==
  /\ pc[c] = "idle"
  /\ lock = Nobody
  /\ ~running
  /\ generation < MaxStarts
  /\ lock' = c
  /\ pc' = [pc EXCEPT ![c] = "publisher"]
  /\ generation' = generation + 1
  /\ refreshStop' = FALSE
  /\ UNCHANGED <<todo, running, publisher, workers, threads, pubStop, workerStop, queued, history>>

StartBegin(c) ==
  /\ pc[c] = "idle"
  /\ lock = Nobody
  /\ ~running
  /\ generation < MaxStarts
  /\ lock' = c
  /\ pc' = [pc EXCEPT ![c] = "publisher"]
  /\ generation' = generation + 1
  /\ refreshStop' = FALSE
  /\ queued' = [d \in Devices |-> 0]
  /\ UNCHANGED <<todo, running, publisher, workers, threads, pubStop, workerStop, history>>

(* publisher.start()                                                       *)
StartPublisher(c) ==
  /\ pc[c] = "publisher"
  /\ pc' = [pc EXCEPT ![c] = "refresh"]
  /\ publisher' = generation
  /\ pub' = [pub EXCEPT ![generation] = "connecting"]
  /\ UNCHANGED <<lock, todo, running, generation, workers, refresher, worker, events, queued, history>>

(* _start_topic_refresh_thread(): no thread when the interval is not       *)
(* positive, otherwise one, and the event is cleared once more.            *)
StartRefresh(c) ==
  /\ pc[c] = "refresh"
  /\ pc' = [pc EXCEPT ![c] = "workers"]
  /\ \/ UNCHANGED <<refreshStop, refresher>>
     \/ /\ refreshStop' = FALSE
        /\ refresher' = [refresher EXCEPT ![generation] = "waiting"]
  /\ workers' = {}
  /\ todo' = Devices
  /\ UNCHANGED <<lock, running, generation, publisher, pub, worker, pubStop, workerStop, queued, history>>

StartWorker(c, d) ==
  /\ pc[c] = "workers"
  /\ d \in todo
  /\ todo' = todo \ {d}
  /\ worker' = [worker EXCEPT ![<<generation, d>>] = "waiting"]
  /\ workers' = workers \cup {<<generation, d>>}
  /\ UNCHANGED <<lock, pc, running, generation, publisher, pub, refresher, events, queued, history>>

StartDone(c) ==
  /\ pc[c] = "workers"
  /\ todo = {}
  /\ running' = TRUE
  /\ lock' = Nobody
  /\ pc' = [pc EXCEPT ![c] = "idle"]
  /\ UNCHANGED <<todo, generation, publisher, workers, threads, events, queued, history>>

(* The store, a registry or the creation of a sink or thread raises; the   *)
(* `with` statement releases the lock, and nothing that start() has done   *)
(* is undone.                                                              *)
StartRaises(c) ==
  /\ pc[c] \in {"publisher", "refresh", "workers"}
  /\ lock' = Nobody
  /\ pc' = [pc EXCEPT ![c] = "idle"]
  /\ todo' = {}
  /\ startFailed' = TRUE
  /\ leftover' = leftover \cup {g \in Generations : Alive(g)}
  /\ UNCHANGED <<running, generation, publisher, workers, threads, events, queued, crossed>>

(***************************************************************************)
(* stop().  It returns at once when the runtime is not running.            *)
(***************************************************************************)
(* Event.set() ends the wait of every loop that is in its wait(), even if  *)
(* the event is cleared again before that loop runs.                       *)
Notified == [g \in Generations |-> IF refresher[g] = "waiting" THEN "leaving" ELSE refresher[g]]

(* Mutants: stop() that does not wait for the lock, or forgets the refresh *)
(* loop.                                                                   *)
StopSignalUnlocked(c) ==
  /\ pc[c] = "idle"
  /\ running
  /\ lock' = c
  /\ pc' = [pc EXCEPT ![c] = "stopping"]
  /\ workerStop' = workerStop \cup workers
  /\ refreshStop' = TRUE
  /\ refresher' = Notified
  /\ UNCHANGED <<todo, running, generation, publisher, workers, pub, worker, pubStop, queued, history>>

StopSignalForgets(c) ==
  /\ pc[c] = "idle"
  /\ lock = Nobody
  /\ running
  /\ lock' = c
  /\ pc' = [pc EXCEPT ![c] = "stopping"]
  /\ workerStop' = workerStop \cup workers
  /\ UNCHANGED <<todo, running, generation, publisher, workers, threads, pubStop, refreshStop, queued, history>>

StopSignal(c) ==
  /\ pc[c] = "idle"
  /\ lock = Nobody
  /\ running
  /\ lock' = c
  /\ pc' = [pc EXCEPT ![c] = "stopping"]
  /\ workerStop' = workerStop \cup workers
  /\ refreshStop' = TRUE
  /\ refresher' = Notified
  /\ UNCHANGED <<todo, running, generation, publisher, workers, pub, worker, pubStop, queued, history>>

(* The refresh thread has ended or its join() has timed out.               *)
StopPublisher(c) ==
  /\ pc[c] = "stopping"
  /\ pc' = [pc EXCEPT ![c] = "joining"]
  /\ pubStop' = pubStop \cup {publisher}
  /\ UNCHANGED <<lock, todo, running, generation, publisher, workers, threads, workerStop, refreshStop,
                 queued, history>>

(* All workers and the publisher have ended or their join() has timed out. *)
StopDone(c) ==
  /\ pc[c] = "joining"
  /\ running' = FALSE
  /\ lock' = Nobody
  /\ pc' = [pc EXCEPT ![c] = "idle"]
  /\ leftover' = leftover \cup {g \in Generations : Alive(g)}
  /\ UNCHANGED <<todo, generation, publisher, workers, threads, events, queued, crossed, startFailed>>

-----------------------------------------------------------------------------
(* SinkPublisher.run(): the sink starts, or the thread ends.               *)
Connect(g) ==
  /\ pub[g] = "connecting"
  /\ \E outcome \in {"running", "ended"} : pub' = [pub EXCEPT ![g] = outcome]
  /\ UNCHANGED <<manager, refresher, worker, events, queued, history>>

(* A mutant: it does not notice that the queue is empty.                   *)
TakeEmpty(g) ==
  /\ pub[g] = "running"
  /\ \E d \in Devices :
       /\ queued' = [queued EXCEPT ![d] = 0]
       /\ crossed' = IF queued[d] = g THEN crossed ELSE crossed \cup {<<g, queued[d]>>}
  /\ UNCHANGED <<manager, threads, events, leftover, startFailed>>

(* publish_once(); the stop event may have been set since it was tested.   *)
Take(g) ==
  /\ pub[g] = "running"
  /\ \E d \in Devices :
       /\ queued[d] # 0
       /\ queued' = [queued EXCEPT ![d] = 0]
       /\ crossed' = IF queued[d] = g THEN crossed ELSE crossed \cup {<<g, queued[d]>>}
  /\ UNCHANGED <<manager, threads, events, leftover, startFailed>>

PublisherExit(g) ==
  /\ pub[g] = "running"
  /\ g \in pubStop
  /\ pub' = [pub EXCEPT ![g] = "ended"]
  /\ UNCHANGED <<manager, refresher, worker, events, queued, history>>

(* DriverPoller.run(): poll, put the result, wait.                         *)
Poll(w) ==
  /\ worker[w] = "waiting"
  /\ w \notin workerStop
  /\ worker' = [worker EXCEPT ![w] = "polling"]
  /\ UNCHANGED <<manager, pub, refresher, events, queued, history>>

PutResult(w) ==
  /\ worker[w] = "polling"
  /\ worker' = [worker EXCEPT ![w] = "waiting"]
  /\ queued' = [queued EXCEPT ![w[2]] = w[1]]
  /\ UNCHANGED <<manager, pub, refresher, events, history>>

WorkerExit(w) ==
  /\ worker[w] = "waiting"
  /\ w \in workerStop
  /\ worker' = [worker EXCEPT ![w] = "ended"]
  /\ UNCHANGED <<manager, pub, refresher, events, queued, history>>

(* refresh_loop(): `while not topic_refresh_stop.wait(interval_s)`, and a  *)
(* resolver that may take longer than stop() waits.                        *)
Resolve(g) ==
  /\ refresher[g] = "waiting"
  /\ refresher' = [refresher EXCEPT ![g] = "resolving"]
  /\ UNCHANGED <<manager, pub, worker, events, queued, history>>

Resolved(g) ==
  /\ refresher[g] = "resolving"
  /\ refresher' = [refresher EXCEPT ![g] = IF refreshStop THEN "leaving" ELSE "waiting"]
  /\ UNCHANGED <<manager, pub, worker, events, queued, history>>

(* Nothing in refresh_loop() catches an exception of the refresh: of the   *)
(* store, of a conversion, of a route that has been deleted meanwhile.  It *)
(* ends the thread, and nothing starts another before the next start().    *)
RefreshRaises(g) ==
  /\ refresher[g] = "resolving"
  /\ refresher' = [refresher EXCEPT ![g] = "failed"]
  /\ UNCHANGED <<manager, pub, worker, events, queued, history>>

RefreshExit(g) ==
  /\ refresher[g] = "leaving"
  /\ refresher' = [refresher EXCEPT ![g] = "ended"]
  /\ UNCHANGED <<manager, pub, worker, events, queued, history>>

-----------------------------------------------------------------------------
ManagerStep(c) ==
  \/ StartPublisher(c) \/ StartRefresh(c) \/ (\E d \in Devices : StartWorker(c, d)) \/ StartDone(c)
  \/ StopPublisher(c) \/ StopDone(c)

ThreadStep(g) ==
  \/ Connect(g) \/ Take(g) \/ PublisherExit(g)
  \/ Resolve(g) \/ Resolved(g) \/ RefreshRaises(g) \/ RefreshExit(g)
  \/ \E d \in Devices : Poll(<<g, d>>) \/ PutResult(<<g, d>>) \/ WorkerExit(<<g, d>>)

Next == \/ \E c \in Clients : StartBegin(c) \/ StopSignal(c) \/ StartRaises(c) \/ ManagerStep(c)
        \/ \E g \in Generations : ThreadStep(g)

(* A call of the API runs to its end, and a thread that is signalled       *)
(* leaves its poll, its resolver or its sink and then its loop.  Nobody    *)
(* has to call start() or stop().                                          *)
Fairness ==
  /\ \A c \in Clients : WF_vars(ManagerStep(c))
  /\ \A g \in Generations :
       /\ WF_vars(Connect(g)) /\ WF_vars(PublisherExit(g))
       /\ WF_vars(Resolved(g) \/ RefreshRaises(g)) /\ WF_vars(RefreshExit(g))
       /\ \A d \in Devices : WF_vars(PutResult(<<g, d>>)) /\ WF_vars(WorkerExit(<<g, d>>))

Spec == Init /\ [][Next]_vars /\ Fairness

-----------------------------------------------------------------------------
ActivePublishers == {g \in Generations : pub[g] \notin Ended /\ g \notin pubStop}

ActiveWorkers == {w \in Generations \X Devices : worker[w] \notin Ended /\ w \notin workerStop}

(* As long as no start() has raised, every publisher and worker that has   *)
(* not been told to stop is one that stop() would tell: concurrent calls   *)
(* of start() and stop() lose no thread and start no second set.           *)
NoOrphans ==
  ~startFailed => /\ ActivePublishers \subseteq {publisher}
                  /\ ActiveWorkers \subseteq workers
                  /\ \A v, w \in ActiveWorkers : v[1] = w[1]

(* While the runtime is running and nobody is stopping it, every enabled   *)
(* device has a live worker of the latest start, and neither it nor the    *)
(* publisher nor the refresh loop has been told to stop: the call of       *)
(* another client never reaches into the run.  A refresh loop is there     *)
(* unless the interval asks for none or an exception has ended it.         *)
RunningIsComplete ==
  running /\ lock = Nobody =>
    /\ \A d \in Devices : <<generation, d>> \in ActiveWorkers
    /\ publisher = generation /\ generation \notin pubStop
    /\ refresher[generation] \notin {"leaving", "ended"} /\ ~refreshStop

(* A publisher takes a result of another generation only if one of the two *)
(* had a thread that outlived a stop() or a failed start(): what a clean   *)
(* stop leaves in the queue is not published by the next start.            *)
OnlyLeftoversCross ==
  \A p \in crossed : p[1] \in leftover \/ p[2] \in leftover

(* A stopped gateway goes quiet: when the last call is a stop() that had   *)
(* something to stop, every thread of every generation ends, those whose   *)
(* join() timed out included.                                              *)
StoppedGoesQuiet ==
  <>[](~running /\ lock = Nobody /\ ~startFailed)
    => <>[](\A g \in Generations : ~Alive(g))

(* docs/superpowers/specs/2026-05-19-web-ui-daemon-design.md:49: "must     *)
(* guard start/stop with a lock so concurrent API calls cannot create      *)
(* duplicate worker sets".  A refresh loop whose resolver outlives the     *)
(* join() goes on when the next start() clears the event they share: two   *)
(* loops then wait for their next refresh.                                 *)
OneRefreshLoop ==
  running /\ lock = Nobody /\ ~startFailed =>
    Cardinality({g \in Generations : refresher[g] = "waiting"}) <= 1

==============================================================================

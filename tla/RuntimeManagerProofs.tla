------------------------- MODULE RuntimeManagerProofs -------------------------
(***************************************************************************)
(* For any number of clients, devices and generations: RuntimeManager is   *)
(* type correct, and its NoOrphans, RunningIsComplete and                  *)
(* OnlyLeftoversCross are invariant.                                       *)
(*                                                                         *)
(* None is inductive.  The strengthening says what start() and stop()      *)
(* have done at each phase of the lock holder: whom start() has started so *)
(* far, whom stop() has told to stop, and that a generation which is about *)
(* to start has never been told to stop.                                   *)
(***************************************************************************)
EXTENDS RuntimeManager, TLAPS

(* Where the holder of the lock is; between calls, whether the gateway runs. *)
Phase == IF lock = Nobody THEN (IF running THEN "up" ELSE "down") ELSE pc[lock]

(* The lock excludes: only its holder is inside start() or stop().         *)
LockInv ==
  /\ \A c \in Clients : (lock = c) <=> (pc[c] # "idle")
  /\ lock \in Clients => (running <=> pc[lock] \in {"stopping", "joining"})

(* A generation that has not begun has no thread and no stop event set.    *)
GenerationInv ==
  /\ publisher <= generation
  /\ \A g \in Generations : g > generation => pub[g] = "none" /\ refresher[g] = "none"
  /\ \A g \in Generations, d \in Devices : g > generation => worker[<<g, d>>] = "none"
  /\ \A g \in pubStop : g <= publisher
  /\ \A w \in workers \cup workerStop : w[1] <= generation

(* What a start() in progress has yet to do, it has not done.              *)
FreshInv ==
  /\ Phase = "publisher" => publisher < generation
  /\ Phase \in {"publisher", "refresh"} =>
       /\ refresher[generation] = "none"
       /\ \A d \in Devices : worker[<<generation, d>>] = "none"
       /\ \A w \in workers \cup workerStop : w[1] < generation
  /\ Phase = "workers" => \A w \in workerStop : w[1] < generation

(* What start() has done stays done until stop() undoes it.                *)
CompleteInv ==
  /\ Phase # "down" => generation \in Generations
  /\ Phase \in {"publisher", "refresh", "workers", "up"} => ~refreshStop
  /\ Phase \in {"refresh", "workers", "up"} => generation \notin pubStop
  /\ Phase \notin {"down", "publisher"} => publisher = generation
  /\ Phase \in {"workers", "up"} =>
       /\ refresher[generation] \notin {"leaving", "ended"}
       /\ \A w \in workers : w[1] = generation
       /\ \A d \in Devices : d \notin todo => <<generation, d>> \in ActiveWorkers
  /\ Phase = "up" => todo = {}

(* As long as no start() has raised, nobody is active whom stop() would    *)
(* not tell, and outside a run nobody is active at all.                    *)
ToldInv ==
  ~startFailed =>
    /\ ActivePublishers \subseteq {publisher}
    /\ Phase \in {"down", "publisher", "joining"} => ActivePublishers = {}
    /\ ActiveWorkers \subseteq workers
    /\ Phase \notin {"workers", "up"} => ActiveWorkers = {}

IInv == TypeOK /\ LockInv /\ GenerationInv /\ FreshInv /\ CompleteInv /\ ToldInv

(* StartBegin keeps the strengthening.                                     *)
LEMMA StartBeginKeeps ==
  ASSUME IInv, NEW c \in Clients, StartBegin(c)
  PROVE  IInv'
<1> USE RuntimeAssumption DEF Generations, Ended
<1>1. TypeOK'
  <2>1. queued' \in [Devices -> 0 .. MaxStarts]
    BY DEF StartBegin
  <2>2. pc' \in [Clients -> {"idle", "publisher", "refresh", "workers", "stopping", "joining"}]
    BY DEF IInv, TypeOK, StartBegin
  <2>3. generation' \in 0 .. MaxStarts
    BY DEF IInv, TypeOK, StartBegin
  <2>4. QED
    BY <2>1, <2>2, <2>3 DEF IInv, TypeOK, StartBegin, threads, history
<1>2. LockInv'
  BY DEF IInv, TypeOK, LockInv, StartBegin
<1>3. GenerationInv'
  BY DEF IInv, TypeOK, GenerationInv, StartBegin, threads
<1>4. FreshInv'
  BY DEF IInv, TypeOK, GenerationInv, FreshInv, StartBegin, threads
<1>5. CompleteInv'
  BY DEF IInv, TypeOK, CompleteInv, Phase, StartBegin
<1>6. ToldInv'
  BY DEF IInv, ToldInv, Phase, ActivePublishers, ActiveWorkers, StartBegin, threads, history
<1> QED
  BY <1>1, <1>2, <1>3, <1>4, <1>5, <1>6 DEF IInv

(* StartPublisher keeps the strengthening.                                 *)
LEMMA StartPublisherKeeps ==
  ASSUME IInv, NEW c \in Clients, StartPublisher(c)
  PROVE  IInv'
<1> USE RuntimeAssumption DEF Generations, Ended
<1>1. TypeOK'
  BY DEF IInv, TypeOK, StartPublisher, events, history
<1>2. LockInv'
  BY DEF IInv, LockInv, StartPublisher
<1>3. GenerationInv'
  BY DEF IInv, TypeOK, GenerationInv, StartPublisher, events
<1>4. FreshInv'
  BY DEF IInv, TypeOK, LockInv, FreshInv, Phase, StartPublisher, events
<1>5. CompleteInv'
  BY DEF IInv, TypeOK, GenerationInv, FreshInv, CompleteInv, Phase, ActiveWorkers,
         StartPublisher, events
<1>6. ToldInv'
  BY DEF IInv, TypeOK, LockInv, ToldInv, Phase, ActivePublishers, ActiveWorkers,
         StartPublisher, events, history
<1> QED
  BY <1>1, <1>2, <1>3, <1>4, <1>5, <1>6 DEF IInv

(* StartRefresh keeps the strengthening.                                   *)
LEMMA StartRefreshKeeps ==
  ASSUME IInv, NEW c \in Clients, StartRefresh(c)
  PROVE  IInv'
<1> USE RuntimeAssumption DEF Generations, Ended
<1>1. lock = c /\ lock # Nobody /\ Phase = "refresh" /\ Phase' = "workers"
  BY DEF IInv, TypeOK, LockInv, Phase, StartRefresh
<1>2. /\ generation \in Generations /\ generation' = generation
      /\ refreshStop' = FALSE
      /\ refresher' \in {refresher, [refresher EXCEPT ![generation] = "waiting"]}
  BY <1>1 DEF IInv, TypeOK, CompleteInv, StartRefresh
<1>3. /\ refresher' \in [Generations -> {"none", "waiting", "resolving", "leaving", "ended", "failed"}]
      /\ refresher'[generation] \in {"none", "waiting"}
      /\ \A g \in Generations : g # generation => refresher'[g] = refresher[g]
  BY <1>1, <1>2 DEF IInv, TypeOK, FreshInv
<1>4. TypeOK'
  BY <1>2, <1>3 DEF IInv, TypeOK, StartRefresh, history
<1>5. LockInv'
  BY DEF IInv, LockInv, StartRefresh
<1>6. GenerationInv'
  BY <1>2, <1>3 DEF IInv, TypeOK, GenerationInv, StartRefresh
<1>7. FreshInv'
  BY <1>1 DEF IInv, FreshInv, StartRefresh
<1>8. CompleteInv'
  BY <1>1, <1>2, <1>3 DEF IInv, TypeOK, CompleteInv, StartRefresh
<1>9. ToldInv'
  BY <1>1 DEF IInv, ToldInv, ActivePublishers, ActiveWorkers, StartRefresh, history
<1> QED
  BY <1>4, <1>5, <1>6, <1>7, <1>8, <1>9 DEF IInv

(* StartWorker keeps the strengthening.                                    *)
LEMMA StartWorkerKeeps ==
  ASSUME IInv, NEW c \in Clients, NEW d \in Devices, StartWorker(c, d)
  PROVE  IInv'
<1> USE RuntimeAssumption DEF Generations, Ended
<1>1. TypeOK'
  <2>1. lock = c /\ generation \in Generations
    BY DEF IInv, TypeOK, LockInv, CompleteInv, Phase, StartWorker
  <2>2. <<generation, d>> \in Generations \X Devices
    BY <2>1
  <2>3. workers' \subseteq Generations \X Devices
    BY <2>2 DEF IInv, TypeOK, StartWorker
  <2>4. worker' \in [Generations \X Devices -> {"none", "waiting", "polling", "ended"}]
    BY <2>2 DEF IInv, TypeOK, StartWorker
  <2>5. QED
    BY <2>3, <2>4 DEF IInv, TypeOK, StartWorker, events, history
<1>2. LockInv'
  BY DEF IInv, LockInv, StartWorker
<1>3. GenerationInv'
  BY DEF IInv, TypeOK, GenerationInv, StartWorker, events
<1>4. FreshInv'
  BY DEF IInv, LockInv, FreshInv, Phase, StartWorker, events
<1>5. CompleteInv'
  BY DEF IInv, TypeOK, FreshInv, CompleteInv, Phase, ActiveWorkers, StartWorker, events
<1>6. ToldInv'
  BY DEF IInv, LockInv, ToldInv, Phase, ActivePublishers, ActiveWorkers, StartWorker, events,
         history
<1> QED
  BY <1>1, <1>2, <1>3, <1>4, <1>5, <1>6 DEF IInv

(* StartDone keeps the strengthening.                                      *)
LEMMA StartDoneKeeps ==
  ASSUME IInv, NEW c \in Clients, StartDone(c)
  PROVE  IInv'
<1> USE RuntimeAssumption DEF Generations, Ended
<1>1. TypeOK'
  BY DEF IInv, TypeOK, StartDone, threads, events, history
<1>2. LockInv'
  BY DEF IInv, TypeOK, LockInv, StartDone
<1>3. GenerationInv'
  BY DEF IInv, GenerationInv, StartDone, threads, events
<1>4. FreshInv'
  BY DEF FreshInv, Phase, StartDone
<1>5. CompleteInv'
  BY DEF IInv, LockInv, CompleteInv, Phase, ActiveWorkers, StartDone, threads, events
<1>6. ToldInv'
  BY DEF IInv, ToldInv, Phase, ActivePublishers, ActiveWorkers, StartDone, threads, events,
         history
<1> QED
  BY <1>1, <1>2, <1>3, <1>4, <1>5, <1>6 DEF IInv

(* StartRaises keeps the strengthening.                                    *)
LEMMA StartRaisesKeeps ==
  ASSUME IInv, NEW c \in Clients, StartRaises(c)
  PROVE  IInv'
<1> USE RuntimeAssumption DEF Generations, Ended
<1>1. TypeOK'
  BY DEF IInv, TypeOK, StartRaises, threads, events
<1>2. LockInv'
  BY DEF IInv, TypeOK, LockInv, StartRaises
<1>3. GenerationInv'
  BY DEF IInv, GenerationInv, StartRaises, threads, events
<1>4. FreshInv'
  BY DEF FreshInv, Phase, StartRaises
<1>5. CompleteInv'
  BY DEF IInv, LockInv, CompleteInv, Phase, StartRaises
<1>6. ToldInv'
  BY DEF ToldInv, StartRaises
<1> QED
  BY <1>1, <1>2, <1>3, <1>4, <1>5, <1>6 DEF IInv

(* StopSignal keeps the strengthening.                                     *)
LEMMA StopSignalKeeps ==
  ASSUME IInv, NEW c \in Clients, StopSignal(c)
  PROVE  IInv'
<1> USE RuntimeAssumption DEF Generations, Ended
<1>1. TypeOK'
  BY DEF IInv, TypeOK, StopSignal, history, Notified
<1>2. LockInv'
  BY DEF IInv, TypeOK, LockInv, StopSignal, Notified
<1>3. GenerationInv'
  BY DEF IInv, GenerationInv, StopSignal, Notified
<1>4. FreshInv'
  BY DEF FreshInv, Phase, StopSignal, Notified
<1>5. CompleteInv'
  BY DEF IInv, CompleteInv, Phase, StopSignal, Notified
<1>6. ToldInv'
  BY DEF IInv, ToldInv, Phase, ActivePublishers, ActiveWorkers, StopSignal, history, Notified
<1> QED
  BY <1>1, <1>2, <1>3, <1>4, <1>5, <1>6 DEF IInv

(* StopPublisher keeps the strengthening.                                  *)
LEMMA StopPublisherKeeps ==
  ASSUME IInv, NEW c \in Clients, StopPublisher(c)
  PROVE  IInv'
<1> USE RuntimeAssumption DEF Generations, Ended
<1>1. TypeOK'
  BY DEF IInv, TypeOK, LockInv, CompleteInv, Phase, StopPublisher, threads, history
<1>2. LockInv'
  BY DEF IInv, LockInv, StopPublisher
<1>3. GenerationInv'
  BY DEF IInv, TypeOK, GenerationInv, StopPublisher, threads
<1>4. FreshInv'
  BY DEF IInv, FreshInv, Phase, StopPublisher, threads
<1>5. CompleteInv'
  BY DEF IInv, LockInv, CompleteInv, Phase, StopPublisher
<1>6. ToldInv'
  BY DEF IInv, ToldInv, Phase, ActivePublishers, ActiveWorkers, StopPublisher, threads, history
<1> QED
  BY <1>1, <1>2, <1>3, <1>4, <1>5, <1>6 DEF IInv

(* StopDone keeps the strengthening.                                       *)
LEMMA StopDoneKeeps ==
  ASSUME IInv, NEW c \in Clients, StopDone(c)
  PROVE  IInv'
<1> USE RuntimeAssumption DEF Generations, Ended
<1>1. TypeOK'
  BY DEF IInv, TypeOK, StopDone, threads, events
<1>2. LockInv'
  BY DEF IInv, TypeOK, LockInv, StopDone
<1>3. GenerationInv'
  BY DEF IInv, GenerationInv, StopDone, threads, events
<1>4. FreshInv'
  BY DEF FreshInv, Phase, StopDone
<1>5. CompleteInv'
  BY DEF CompleteInv, Phase, StopDone
<1>6. ToldInv'
  BY DEF IInv, LockInv, ToldInv, Phase, ActivePublishers, ActiveWorkers, StopDone, threads,
         events
<1> QED
  BY <1>1, <1>2, <1>3, <1>4, <1>5, <1>6 DEF IInv

(* Connect keeps the strengthening.                                        *)
LEMMA ConnectKeeps ==
  ASSUME IInv, NEW g \in Generations, Connect(g)
  PROVE  IInv'
<1> USE RuntimeAssumption DEF Generations, Ended
<1>1. TypeOK'
  BY DEF IInv, TypeOK, Connect, manager, events, history
<1>2. LockInv'
  BY DEF IInv, LockInv, Connect, manager
<1>3. GenerationInv'
  BY DEF IInv, GenerationInv, Connect, manager, events
<1>4. FreshInv'
  BY DEF IInv, FreshInv, Phase, Connect, manager, events
<1>5. CompleteInv'
  BY DEF IInv, CompleteInv, Phase, ActiveWorkers, Connect, manager, events
<1>6. ToldInv'
  BY DEF IInv, ToldInv, Phase, ActivePublishers, ActiveWorkers, Connect, manager, events,
         history
<1> QED
  BY <1>1, <1>2, <1>3, <1>4, <1>5, <1>6 DEF IInv

(* Take keeps the strengthening.                                           *)
LEMMA TakeKeeps ==
  ASSUME IInv, NEW g \in Generations, Take(g)
  PROVE  IInv'
<1> USE RuntimeAssumption DEF Generations, Ended
<1>1. TypeOK'
  BY DEF IInv, TypeOK, Take, manager, threads, events
<1>2. LockInv'
  BY DEF IInv, LockInv, Take, manager
<1>3. GenerationInv'
  BY DEF IInv, GenerationInv, Take, manager, threads, events
<1>4. FreshInv'
  BY DEF IInv, FreshInv, Phase, Take, manager, threads, events
<1>5. CompleteInv'
  BY DEF IInv, CompleteInv, Phase, ActiveWorkers, Take, manager, threads, events
<1>6. ToldInv'
  BY DEF IInv, ToldInv, Phase, ActivePublishers, ActiveWorkers, Take, manager, threads, events
<1> QED
  BY <1>1, <1>2, <1>3, <1>4, <1>5, <1>6 DEF IInv

(* PublisherExit keeps the strengthening.                                  *)
LEMMA PublisherExitKeeps ==
  ASSUME IInv, NEW g \in Generations, PublisherExit(g)
  PROVE  IInv'
<1> USE RuntimeAssumption DEF Generations, Ended
<1>1. TypeOK'
  BY DEF IInv, TypeOK, PublisherExit, manager, events, history
<1>2. LockInv'
  BY DEF IInv, LockInv, PublisherExit, manager
<1>3. GenerationInv'
  BY DEF IInv, GenerationInv, PublisherExit, manager, events
<1>4. FreshInv'
  BY DEF IInv, FreshInv, Phase, PublisherExit, manager, events
<1>5. CompleteInv'
  BY DEF IInv, CompleteInv, Phase, ActiveWorkers, PublisherExit, manager, events
<1>6. ToldInv'
  BY DEF IInv, ToldInv, Phase, ActivePublishers, ActiveWorkers, PublisherExit, manager,
         events, history
<1> QED
  BY <1>1, <1>2, <1>3, <1>4, <1>5, <1>6 DEF IInv

(* Resolve keeps the strengthening.                                        *)
LEMMA ResolveKeeps ==
  ASSUME IInv, NEW g \in Generations, Resolve(g)
  PROVE  IInv'
<1> USE RuntimeAssumption DEF Generations, Ended
<1>1. TypeOK'
  BY DEF IInv, TypeOK, Resolve, manager, events, history
<1>2. LockInv'
  BY DEF IInv, LockInv, Resolve, manager
<1>3. GenerationInv'
  BY DEF IInv, GenerationInv, Resolve, manager, events
<1>4. FreshInv'
  BY DEF IInv, FreshInv, Phase, Resolve, manager, events
<1>5. CompleteInv'
  BY DEF IInv, CompleteInv, Phase, ActiveWorkers, Resolve, manager, events
<1>6. ToldInv'
  BY DEF IInv, ToldInv, Phase, ActivePublishers, ActiveWorkers, Resolve, manager, events,
         history
<1> QED
  BY <1>1, <1>2, <1>3, <1>4, <1>5, <1>6 DEF IInv

(* Resolved keeps the strengthening.                                       *)
LEMMA ResolvedKeeps ==
  ASSUME IInv, NEW g \in Generations, Resolved(g)
  PROVE  IInv'
<1> USE RuntimeAssumption DEF Generations, Ended
<1>1. TypeOK'
  BY DEF IInv, TypeOK, Resolved, manager, events, history
<1>2. LockInv'
  BY DEF IInv, LockInv, Resolved, manager
<1>3. GenerationInv'
  BY DEF IInv, GenerationInv, Resolved, manager, events
<1>4. FreshInv'
  BY DEF IInv, FreshInv, Phase, Resolved, manager, events
<1>5. CompleteInv'
  BY DEF IInv, CompleteInv, Phase, ActiveWorkers, Resolved, manager, events
<1>6. ToldInv'
  BY DEF IInv, ToldInv, Phase, ActivePublishers, ActiveWorkers, Resolved, manager, events,
         history
<1> QED
  BY <1>1, <1>2, <1>3, <1>4, <1>5, <1>6 DEF IInv

(* RefreshRaises keeps the strengthening.                                  *)
LEMMA RefreshRaisesKeeps ==
  ASSUME IInv, NEW g \in Generations, RefreshRaises(g)
  PROVE  IInv'
<1> USE RuntimeAssumption DEF Generations, Ended
<1>1. TypeOK'
  BY DEF IInv, TypeOK, RefreshRaises, manager, events, history
<1>2. LockInv'
  BY DEF IInv, LockInv, RefreshRaises, manager
<1>3. GenerationInv'
  BY DEF IInv, GenerationInv, RefreshRaises, manager, events
<1>4. FreshInv'
  BY DEF IInv, FreshInv, Phase, RefreshRaises, manager, events
<1>5. CompleteInv'
  BY DEF IInv, CompleteInv, Phase, ActiveWorkers, RefreshRaises, manager, events
<1>6. ToldInv'
  BY DEF IInv, ToldInv, Phase, ActivePublishers, ActiveWorkers, RefreshRaises, manager, events,
         history
<1> QED
  BY <1>1, <1>2, <1>3, <1>4, <1>5, <1>6 DEF IInv

(* RefreshExit keeps the strengthening.                                    *)
LEMMA RefreshExitKeeps ==
  ASSUME IInv, NEW g \in Generations, RefreshExit(g)
  PROVE  IInv'
<1> USE RuntimeAssumption DEF Generations, Ended
<1>1. TypeOK'
  BY DEF IInv, TypeOK, RefreshExit, manager, events, history
<1>2. LockInv'
  BY DEF IInv, LockInv, RefreshExit, manager
<1>3. GenerationInv'
  BY DEF IInv, GenerationInv, RefreshExit, manager, events
<1>4. FreshInv'
  BY DEF IInv, FreshInv, Phase, RefreshExit, manager, events
<1>5. CompleteInv'
  BY DEF IInv, CompleteInv, Phase, ActiveWorkers, RefreshExit, manager, events
<1>6. ToldInv'
  BY DEF IInv, ToldInv, Phase, ActivePublishers, ActiveWorkers, RefreshExit, manager, events,
         history
<1> QED
  BY <1>1, <1>2, <1>3, <1>4, <1>5, <1>6 DEF IInv

(* Poll keeps the strengthening.                                           *)
LEMMA PollKeeps ==
  ASSUME IInv, NEW w \in Generations \X Devices, Poll(w)
  PROVE  IInv'
<1> USE RuntimeAssumption DEF Generations, Ended
<1>1. TypeOK'
  BY DEF IInv, TypeOK, Poll, manager, events, history
<1>2. LockInv'
  BY DEF IInv, LockInv, Poll, manager
<1>3. GenerationInv'
  BY DEF IInv, GenerationInv, Poll, manager, events
<1>4. FreshInv'
  BY DEF IInv, FreshInv, Phase, Poll, manager, events
<1>5. CompleteInv'
  BY DEF IInv, CompleteInv, Phase, ActiveWorkers, Poll, manager, events
<1>6. ToldInv'
  BY DEF IInv, ToldInv, Phase, ActivePublishers, ActiveWorkers, Poll, manager, events, history
<1> QED
  BY <1>1, <1>2, <1>3, <1>4, <1>5, <1>6 DEF IInv

(* PutResult keeps the strengthening.                                      *)
LEMMA PutResultKeeps ==
  ASSUME IInv, NEW w \in Generations \X Devices, PutResult(w)
  PROVE  IInv'
<1> USE RuntimeAssumption DEF Generations, Ended
<1>1. TypeOK'
  BY DEF IInv, TypeOK, PutResult, manager, events, history
<1>2. LockInv'
  BY DEF IInv, LockInv, PutResult, manager
<1>3. GenerationInv'
  BY DEF IInv, GenerationInv, PutResult, manager, events
<1>4. FreshInv'
  BY DEF IInv, FreshInv, Phase, PutResult, manager, events
<1>5. CompleteInv'
  BY DEF IInv, CompleteInv, Phase, ActiveWorkers, PutResult, manager, events
<1>6. ToldInv'
  BY DEF IInv, ToldInv, Phase, ActivePublishers, ActiveWorkers, PutResult, manager, events,
         history
<1> QED
  BY <1>1, <1>2, <1>3, <1>4, <1>5, <1>6 DEF IInv

(* WorkerExit keeps the strengthening.                                     *)
LEMMA WorkerExitKeeps ==
  ASSUME IInv, NEW w \in Generations \X Devices, WorkerExit(w)
  PROVE  IInv'
<1> USE RuntimeAssumption DEF Generations, Ended
<1>1. TypeOK'
  BY DEF IInv, TypeOK, WorkerExit, manager, events, history
<1>2. LockInv'
  BY DEF IInv, LockInv, WorkerExit, manager
<1>3. GenerationInv'
  BY DEF IInv, GenerationInv, WorkerExit, manager, events
<1>4. FreshInv'
  BY DEF IInv, FreshInv, Phase, WorkerExit, manager, events
<1>5. CompleteInv'
  BY DEF IInv, CompleteInv, Phase, ActiveWorkers, WorkerExit, manager, events
<1>6. ToldInv'
  BY DEF IInv, ToldInv, Phase, ActivePublishers, ActiveWorkers, WorkerExit, manager, events,
         history
<1> QED
  BY <1>1, <1>2, <1>3, <1>4, <1>5, <1>6 DEF IInv

-----------------------------------------------------------------------------
(* Initially no start() has begun and there is no thread.                  *)
LEMMA InitInv == Init => IInv
<1> SUFFICES ASSUME Init
             PROVE  IInv
  OBVIOUS
<1> USE RuntimeAssumption DEF Generations, Ended, Init
<1>1. TypeOK
  <2>1. pub \in [Generations -> {"none", "connecting", "running", "ended"}]
    OBVIOUS
  <2>2. refresher \in [Generations -> {"none", "waiting", "resolving", "leaving", "ended"}]
    OBVIOUS
  <2>3. worker \in [Generations \X Devices -> {"none", "waiting", "polling", "ended"}]
    OBVIOUS
  <2>4. pc \in [Clients -> {"idle", "publisher", "refresh", "workers", "stopping", "joining"}]
    OBVIOUS
  <2>5. 0 \in 0 .. MaxStarts
    OBVIOUS
  <2>6. queued \in [Devices -> 0 .. MaxStarts]
    BY <2>5
  <2>7. QED
    BY <2>1, <2>2, <2>3, <2>4, <2>5, <2>6 DEF TypeOK
<1>2. LockInv /\ GenerationInv /\ FreshInv /\ CompleteInv
  BY DEF LockInv, GenerationInv, FreshInv, CompleteInv, Phase
<1>3. ToldInv
  BY DEF ToldInv, ActivePublishers, ActiveWorkers
<1>4. QED
  BY <1>1, <1>2, <1>3 DEF IInv

(* Every step of a client or a thread keeps the strengthening.             *)
LEMMA NextInv == IInv /\ [Next]_vars => IInv'
<1> SUFFICES ASSUME IInv, [Next]_vars
             PROVE  IInv'
  OBVIOUS
<1>1. ASSUME NEW c \in Clients, StartBegin(c) \/ StopSignal(c) \/ StartRaises(c) \/ ManagerStep(c)
      PROVE  IInv'
  BY <1>1, StartBeginKeeps, StopSignalKeeps, StartRaisesKeeps, StartPublisherKeeps,
         StartRefreshKeeps,
     StartWorkerKeeps, StartDoneKeeps, StopPublisherKeeps, StopDoneKeeps
     DEF ManagerStep
<1>2. ASSUME NEW g \in Generations, ThreadStep(g)
      PROVE  IInv'
  <2>1. CASE \E d \in Devices : Poll(<<g, d>>) \/ PutResult(<<g, d>>) \/ WorkerExit(<<g, d>>)
    <3>1. PICK d \in Devices : Poll(<<g, d>>) \/ PutResult(<<g, d>>) \/ WorkerExit(<<g, d>>)
      BY <2>1
    <3>2. <<g, d>> \in Generations \X Devices
      OBVIOUS
    <3>3. QED
      BY <3>1, <3>2, PollKeeps, PutResultKeeps, WorkerExitKeeps
  <2>2. QED
    BY <1>2, <2>1, ConnectKeeps, TakeKeeps, PublisherExitKeeps, ResolveKeeps, ResolvedKeeps, RefreshRaisesKeeps,
           RefreshExitKeeps
       DEF ThreadStep
<1>3. CASE UNCHANGED vars
  BY <1>3 DEF IInv, TypeOK, LockInv, GenerationInv, FreshInv, CompleteInv, ToldInv, Phase,
         ActivePublishers,
              ActiveWorkers, vars, manager, threads, events, history
<1>4. QED
  BY <1>1, <1>2, <1>3 DEF Next

(* The strengthening holds in every reachable state.                       *)
LEMMA Strengthened == Spec => []IInv
  BY InitInv, NextInv, PTL DEF Spec

(* RuntimeManager is type correct: start() numbers its generations within  *)
(* the bound, stop() only tells threads that start() has started.          *)
THEOREM RuntimeTypeCorrect == Spec => []TypeOK
<1>1. IInv => TypeOK
  BY DEF IInv
<1>2. QED
  BY <1>1, Strengthened, PTL

(* As long as no start() has raised, every publisher and worker that has   *)
(* not been told to stop is one the next stop() tells.                     *)
THEOREM NoOrphansEver == Spec => []NoOrphans
<1>1. IInv => NoOrphans
  <2> SUFFICES ASSUME IInv, ~startFailed
               PROVE  /\ ActivePublishers \subseteq {publisher}
                      /\ ActiveWorkers \subseteq workers
                      /\ \A v, w \in ActiveWorkers : v[1] = w[1]
    BY DEF NoOrphans
  <2>1. ActivePublishers \subseteq {publisher} /\ ActiveWorkers \subseteq workers
    BY DEF IInv, ToldInv
  <2>2. CASE Phase \in {"workers", "up"}
    BY <2>1, <2>2 DEF IInv, CompleteInv
  <2>3. CASE Phase \notin {"workers", "up"}
    BY <2>3 DEF IInv, ToldInv
  <2>4. QED
    BY <2>1, <2>2, <2>3
<1>2. QED
  BY <1>1, Strengthened, PTL

(* While the runtime runs and nobody is stopping it, every device has its  *)
(* worker, and none of the threads of the latest start() has been told to  *)
(* stop.                                                                   *)
THEOREM RunningIsCompleteEver == Spec => []RunningIsComplete
<1>1. IInv => RunningIsComplete
  <2> SUFFICES ASSUME IInv, running, lock = Nobody
               PROVE  /\ \A d \in Devices : <<generation, d>> \in ActiveWorkers
                      /\ publisher = generation /\ generation \notin pubStop
                      /\ refresher[generation] \notin {"leaving", "ended"} /\ ~refreshStop
    BY DEF RunningIsComplete
  <2>1. Phase = "up"
    BY DEF Phase
  <2>2. QED
    BY <2>1 DEF IInv, CompleteInv
<1>2. QED
  BY <1>1, Strengthened, PTL

-----------------------------------------------------------------------------
(* A thread that is alive is of the run in progress, or has been left over *)
(* by its stop(); so is the worker of every result in the queue, which the *)
(* next start() empties.                                                   *)
AliveInv == \A g \in Generations : Alive(g) => g \in leftover \/ (Phase # "down" /\ g = generation)

QueuedInv == \A d \in Devices : queued[d] \in leftover \cup {generation, 0}

LeftInv == AliveInv /\ QueuedInv /\ OnlyLeftoversCross

(* A start() that begins empties the queue.                                *)
LEMMA StartBeginLeaves ==
  ASSUME IInv, LeftInv, NEW c \in Clients, StartBegin(c)
  PROVE  LeftInv'
<1>1. \A g \in Generations : Alive(g)' = Alive(g)
  BY DEF StartBegin, threads, Alive
<1>2. Phase = "down"
  BY DEF StartBegin, Phase
<1>3. AliveInv'
  BY <1>1, <1>2 DEF LeftInv, AliveInv, StartBegin, history
<1>4. QueuedInv'
  BY DEF QueuedInv, StartBegin
<1> QED
  BY <1>3, <1>4 DEF LeftInv, OnlyLeftoversCross, StartBegin, history

(* The steps of start() make only threads of the generation they are in.   *)
LEMMA StartStepLeaves ==
  ASSUME IInv, LeftInv, NEW c \in Clients,
         StartPublisher(c) \/ StartRefresh(c) \/ \E d \in Devices : StartWorker(c, d)
  PROVE  LeftInv'
<1>1. lock = c /\ lock' = c /\ pc[c] # "idle" /\ pc'[c] # "idle" /\ Nobody \notin Clients
  BY RuntimeAssumption DEF IInv, TypeOK, LockInv, StartPublisher, StartRefresh, StartWorker
<1>2. Phase' # "down" /\ Phase # "down"
  <2>1. pc[c] # "down" /\ pc'[c] # "down"
    BY DEF IInv, TypeOK, StartPublisher, StartRefresh, StartWorker
  <2> QED
    BY <2>1, <1>1 DEF Phase
<1>3. UNCHANGED <<generation, queued, crossed, leftover>>
  BY DEF StartPublisher, StartRefresh, StartWorker, history
<1>4. \A g \in Generations : Alive(g)' => Alive(g) \/ g = generation
  <2> SUFFICES ASSUME NEW g \in Generations, Alive(g)', g # generation
               PROVE  Alive(g)
    OBVIOUS
  <2>1. pub'[g] = pub[g] /\ refresher'[g] = refresher[g]
    BY DEF IInv, TypeOK, StartPublisher, StartRefresh, StartWorker
  <2>2. \A d \in Devices : worker'[<<g, d>>] = worker[<<g, d>>]
    BY DEF IInv, TypeOK, StartPublisher, StartRefresh, StartWorker
  <2> QED
    BY <2>1, <2>2 DEF Alive
<1> QED
  BY <1>2, <1>3, <1>4 DEF LeftInv, AliveInv, QueuedInv, OnlyLeftoversCross

(* The steps of stop(), and the end of start(), make no threads.           *)
LEMMA CallLeaves ==
  ASSUME IInv, LeftInv, NEW c \in Clients, StartDone(c) \/ StopSignal(c) \/ StopPublisher(c)
  PROVE  LeftInv'
<1>1. Phase' # "down"
  BY DEF IInv, TypeOK, LockInv, Phase, StartDone, StopSignal, StopPublisher
<1>2. UNCHANGED <<generation, queued, crossed, leftover>>
  BY DEF StartDone, StopSignal, StopPublisher, history
<1>3. \A g \in Generations : Alive(g)' => Alive(g)
  BY DEF Alive, StartDone, StopSignal, StopPublisher, threads, Notified, Ended
<1>4. Phase # "down"
  <2>1. CASE StopSignal(c)
    BY <2>1 DEF StopSignal, Phase
  <2>2. CASE StartDone(c) \/ StopPublisher(c)
    <3>1. pc[c] \in {"workers", "stopping"} /\ lock = c /\ lock # Nobody
      BY <2>2, RuntimeAssumption DEF IInv, LockInv, StartDone, StopPublisher
    <3> QED
      BY <3>1 DEF Phase
  <2> QED
    BY <2>1, <2>2
<1> QED
  BY <1>1, <1>2, <1>3, <1>4 DEF LeftInv, AliveInv, QueuedInv, OnlyLeftoversCross

(* A stop() that is over, or a start() that has failed, leaves all threads *)
(* that are alive.                                                         *)
LEMMA EndLeaves ==
  ASSUME IInv, LeftInv, NEW c \in Clients, StopDone(c) \/ StartRaises(c)
  PROVE  LeftInv'
<1>1. leftover' = leftover \cup {g \in Generations : Alive(g)}
  BY DEF StopDone, StartRaises
<1>2. UNCHANGED <<generation, queued, crossed, threads>>
  BY DEF StopDone, StartRaises
<1>3. AliveInv'
  BY <1>1, <1>2 DEF AliveInv, Alive, threads
<1>4. QueuedInv' /\ OnlyLeftoversCross'
  BY <1>1, <1>2 DEF LeftInv, QueuedInv, OnlyLeftoversCross
<1> QED
  BY <1>3, <1>4 DEF LeftInv

(* The steps of a thread that leave the queue alone.                       *)
LEMMA ThreadLeaves ==
  ASSUME IInv, LeftInv, NEW g \in Generations,
         \/ Connect(g) \/ PublisherExit(g)
         \/ Resolve(g) \/ Resolved(g) \/ RefreshRaises(g) \/ RefreshExit(g)
         \/ \E d \in Devices : Poll(<<g, d>>) \/ WorkerExit(<<g, d>>)
  PROVE  LeftInv'
<1>1. UNCHANGED <<manager, queued, crossed, leftover>>
  BY DEF Connect, PublisherExit, Resolve, Resolved, RefreshRaises, RefreshExit, Poll, WorkerExit,
         history
<1>2. Phase' = Phase
  BY <1>1 DEF manager, Phase
<1>3. \A h \in Generations : Alive(h)' => Alive(h)
  <2> SUFFICES ASSUME NEW h \in Generations, Alive(h)'  PROVE Alive(h)
    OBVIOUS
  <2>1. pub'[h] \notin Ended => pub[h] \notin Ended
    BY DEF IInv, TypeOK, Connect, PublisherExit, Resolve, Resolved, RefreshRaises, RefreshExit,
           Poll, WorkerExit, Ended
  <2>2. refresher'[h] \notin Ended => refresher[h] \notin Ended
    BY DEF IInv, TypeOK, Connect, PublisherExit, Resolve, Resolved, RefreshRaises, RefreshExit,
           Poll, WorkerExit, Ended
  <2>3. \A d \in Devices : worker'[<<h, d>>] \notin Ended => worker[<<h, d>>] \notin Ended
    <3>1. CASE worker' = worker
      BY <3>1
    <3>2. ASSUME NEW d \in Devices, Poll(<<g, d>>) \/ WorkerExit(<<g, d>>)
          PROVE  \A e \in Devices : worker'[<<h, e>>] \notin Ended => worker[<<h, e>>] \notin Ended
      <4>1. worker[<<g, d>>] = "waiting" /\ <<g, d>> \in Generations \X Devices
        BY <3>2 DEF Poll, WorkerExit
      <4>2. worker' \in {[worker EXCEPT ![<<g, d>>] = "polling"], [worker EXCEPT ![<<g, d>>] = "ended"]}
        BY <3>2 DEF Poll, WorkerExit
      <4> QED
        BY <4>1, <4>2 DEF IInv, TypeOK, Ended
    <3> QED
      BY <3>1, <3>2 DEF Connect, PublisherExit, Resolve, Resolved, RefreshRaises, RefreshExit
  <2> QED
    BY <2>1, <2>2, <2>3 DEF Alive
<1> QED
  BY <1>1, <1>2, <1>3 DEF LeftInv, AliveInv, QueuedInv, OnlyLeftoversCross, manager

(* A worker that puts a result is alive.                                   *)
LEMMA PutResultLeaves ==
  ASSUME IInv, LeftInv, NEW g \in Generations, NEW d \in Devices, PutResult(<<g, d>>)
  PROVE  LeftInv'
<1>1. /\ UNCHANGED <<manager, pub, refresher, crossed, leftover>> /\ worker[<<g, d>>] = "polling"
      /\ worker' = [worker EXCEPT ![<<g, d>>] = "waiting"]
      /\ queued' = [queued EXCEPT ![d] = g]
  BY DEF PutResult, history
<1>2. Phase' = Phase
  BY <1>1 DEF manager, Phase
<1>3. Alive(g)
  BY <1>1 DEF Alive, Ended
<1>4. \A h \in Generations : Alive(h)' => Alive(h)
  <2> SUFFICES ASSUME NEW h \in Generations, Alive(h)'  PROVE Alive(h)
    OBVIOUS
  <2>1. \A e \in Devices : worker'[<<h, e>>] \notin Ended => worker[<<h, e>>] \notin Ended
    BY <1>1 DEF IInv, TypeOK, Ended
  <2> QED
    BY <1>1, <2>1 DEF Alive
<1>5. g \in leftover \cup {generation}
  BY <1>3 DEF LeftInv, AliveInv
<1>6. QueuedInv'
  BY <1>1, <1>5 DEF IInv, TypeOK, LeftInv, QueuedInv, manager
<1> QED
  BY <1>1, <1>2, <1>4, <1>6 DEF LeftInv, AliveInv, OnlyLeftoversCross, manager

(* A publisher that takes a result is alive.                               *)
LEMMA TakeLeaves ==
  ASSUME IInv, LeftInv, NEW g \in Generations, Take(g)
  PROVE  LeftInv'
<1>1. PICK d \in Devices :
        /\ queued[d] # 0 /\ queued' = [queued EXCEPT ![d] = 0]
        /\ crossed' = IF queued[d] = g THEN crossed ELSE crossed \cup {<<g, queued[d]>>}
  BY DEF Take
<1>2. UNCHANGED <<manager, threads, leftover>> /\ pub[g] = "running"
  BY DEF Take
<1>3. Phase' = Phase /\ \A h \in Generations : Alive(h)' = Alive(h)
  BY <1>2 DEF manager, threads, Phase, Alive
<1>4. g \in leftover \cup {generation}
  BY <1>2 DEF LeftInv, AliveInv, Alive, Ended
<1>5. OnlyLeftoversCross'
  <2>1. queued[d] \in leftover \cup {generation}
    BY <1>1 DEF LeftInv, QueuedInv
  <2> QED
    BY <1>1, <1>2, <1>4, <2>1 DEF LeftInv, OnlyLeftoversCross
<1>6. QueuedInv'
  BY <1>1, <1>2 DEF IInv, TypeOK, LeftInv, QueuedInv, manager
<1> QED
  BY <1>2, <1>3, <1>5, <1>6 DEF LeftInv, AliveInv, manager

LEMMA NextLeaves == IInv /\ LeftInv /\ [Next]_vars => LeftInv'
<1> SUFFICES ASSUME IInv, LeftInv, [Next]_vars  PROVE LeftInv'
  OBVIOUS
<1>1. ASSUME NEW c \in Clients, StartBegin(c) \/ StopSignal(c) \/ StartRaises(c) \/ ManagerStep(c)
      PROVE  LeftInv'
  BY <1>1, StartBeginLeaves, StartStepLeaves, CallLeaves, EndLeaves DEF ManagerStep
<1>2. ASSUME NEW g \in Generations, ThreadStep(g)
      PROVE  LeftInv'
  BY <1>2, ThreadLeaves, PutResultLeaves, TakeLeaves DEF ThreadStep
<1>3. CASE UNCHANGED vars
  BY <1>3 DEF LeftInv, AliveInv, QueuedInv, OnlyLeftoversCross, Alive, Phase,
              vars, manager, threads, history
<1> QED
  BY <1>1, <1>2, <1>3 DEF Next

(* A publisher takes a result of another run only if one of the two had a  *)
(* thread that outlived a stop() or a failed start().                      *)
THEOREM OnlyLeftoversEverCross == Spec => []OnlyLeftoversCross
<1>1. Init => LeftInv
  BY DEF Init, LeftInv, AliveInv, QueuedInv, OnlyLeftoversCross, Alive, Ended
<1>2. LeftInv => OnlyLeftoversCross
  BY DEF LeftInv
<1> QED
  BY <1>1, <1>2, NextLeaves, Strengthened, PTL DEF Spec
==============================================================================

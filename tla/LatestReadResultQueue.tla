------------------------ MODULE LatestReadResultQueue ------------------------
(***************************************************************************)
(* _LatestReadResultQueue of services/runtime_manager.py: the queue between *)
(* the driver workers and the sink publisher.                              *)
(*                                                                         *)
(* put() splits a read result into one entry per tag and replaces, at the  *)
(* end of an OrderedDict, the entries with the same keys; get() pops the   *)
(* first entry, after waiting on a condition variable when there is none.  *)
(***************************************************************************)
EXTENDS ReadResults

CONSTANTS Consumers,   \* the threads that call get()
          Vacant

-----------------------------------------------------------------------------
VARIABLES written,     \* history: the keys of the latest put()
          pc           \* pc[c]: "idle", or inside Condition.wait()

queue == <<items, written, pc>>

Keys == UNION {{<<d, t>> : t \in TagsOf(d) \cup {Result}} : d \in Devices}

(* An entry is about a whole device or about one tag.                      *)
Values == UNION {{r \in ResultsOf(d) : Len(r.tags) <= 1} : d \in Devices}

ASSUME QueueAssumption == Vacant \notin Values

QueueInit == /\ items = <<>>
             /\ written = {}
             /\ pc = [c \in Consumers |-> "idle"]

Waiting == {c \in Consumers : pc[c] = "waiting"}

(* put(): one notify(), so one waiter, however many entries were added.    *)
Put(d) ==
  /\ \E r \in ResultsOf(d) : /\ items' = PutResult(items, r)
                             /\ written' = {e.key : e \in Range(Split(r))}
  /\ IF Waiting = {} THEN UNCHANGED pc
     ELSE \E c \in Waiting : pc' = [pc EXCEPT ![c] = "notified"]

(* Mutant: popitem(last=True).                                             *)
GetNewest(c) ==
  /\ pc[c] \in {"idle", "notified"}
  /\ items # <<>>
  /\ items' = Front(items)
  /\ written' = {}
  /\ pc' = [pc EXCEPT ![c] = "idle"]

(* get() while there are entries: at once, or after a notification.        *)
Get(c) ==
  /\ pc[c] \in {"idle", "notified"}
  /\ items # <<>>
  /\ items' = Tail(items)
  /\ written' = {}
  /\ pc' = [pc EXCEPT ![c] = "idle"]

(* get() without entries: release the lock and wait.                       *)
Wait(c) ==
  /\ pc[c] = "idle"
  /\ items = <<>>
  /\ pc' = [pc EXCEPT ![c] = "waiting"]
  /\ UNCHANGED <<items, written>>

(* Two ways to `raise Empty`: the wait timed out, possibly just before a   *)
(* notification that is then lost, or the entries were taken meanwhile.    *)
RaiseEmpty(c) ==
  /\ pc[c] \in {"waiting", "notified"}
  /\ pc' = [pc EXCEPT ![c] = "idle"]
  /\ UNCHANGED <<items, written>>

QueueNext == \/ \E d \in Devices : Put(d)
             \/ \E c \in Consumers : Get(c) \/ Wait(c) \/ RaiseEmpty(c)

(* The publisher's loop calls get() again and again, with a timeout.       *)
QueueFairness == \A c \in Consumers : WF_queue(Get(c)) /\ WF_queue(Wait(c)) /\ WF_queue(RaiseEmpty(c))

QueueSpec == QueueInit /\ [][QueueNext]_queue /\ QueueFairness

-----------------------------------------------------------------------------
KeyAt(i) == items[i].key

InQueue(k) == \E i \in DOMAIN items : KeyAt(i) = k

(* The content of the mailbox and the order of its places.                 *)
Box == [k \in Keys |-> IF InQueue(k)
                       THEN items[CHOOSE i \in DOMAIN items : KeyAt(i) = k].value
                       ELSE Vacant]

Order == {p \in Keys \X Keys : \E i, j \in DOMAIN items : i < j /\ p = <<KeyAt(i), KeyAt(j)>>}

Mailbox == INSTANCE LatestQueue WITH box <- Box, older <- Order

(* put() and get() behave as a mailbox with one place per key that is      *)
(* emptied oldest content first: an entry carries at most one tag, is never *)
(* applied after a newer one, and the newest of a key is never dropped.    *)
ImplementsLatestQueue == Mailbox!Spec

(* An entry leaves the queue, unless workers put its key again and again:  *)
(* a lost notification only delays the consumer.                           *)
EntriesAreTaken ==
  \A d \in Devices :
    []<>(\A k \in Keys : k[1] = d => ~InQueue(k)) \/ []<><<Put(d)>>_queue
==============================================================================

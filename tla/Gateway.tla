------------------------------- MODULE Gateway -------------------------------
(***************************************************************************)
(* The data path of a running gateway: one driver worker per device puts   *)
(* read results on the latest-result queue, the sink publisher takes them  *)
(* and publishes to the sink.                                              *)
(***************************************************************************)
EXTENDS SinkPublisher

VARIABLES lastPut,    \* history: what the latest result of a device amounts to
          lastRead    \* history: the latest quality a worker read of a tag

vars == <<items, lastPut, lastRead, publisher>>

Init == /\ PublisherInit
        /\ items = <<>>
        /\ lastPut = [d \in Devices |-> "none"]
        /\ lastRead = [t \in Tags |-> "none"]

QualitiesIn(r) == {r.tags[i].quality : i \in DOMAIN r.tags}

Summary(r) == IF r.error THEN "error"
              ELSE IF "bad" \notin QualitiesIn(r) THEN "good"
              ELSE IF "good" \notin QualitiesIn(r) THEN "bad"
              ELSE "mixed"

ReadMap(r) == [t \in {r.tags[i].tag : i \in DOMAIN r.tags} |->
                 r.tags[CHOOSE i \in DOMAIN r.tags : r.tags[i].tag = t].quality]

(* A poller or subscription worker hands over a result of its device.      *)
Report(d) ==
  \E r \in ResultsOf(d) :
    /\ items' = PutResult(items, r)
    /\ lastPut' = [lastPut EXCEPT ![d] = Summary(r)]
    /\ lastRead' = Updated(lastRead, ReadMap(r))
    /\ sent' = {}
    /\ UNCHANGED <<status, quality, receivedAge, statusAge, runtimeTag, announced, missed, sinkUp>>

(* publish_once() with an entry in the queue                               *)
PublishOnce ==
  /\ items # <<>>
  /\ items' = Tail(items)
  /\ LET r == Head(items).value
     IN  IF r.error THEN HandleError(r.device) ELSE HandleRead(r.device, ReadMap(r))
  /\ UNCHANGED <<lastPut, lastRead>>

Cycle == PublishCached /\ UNCHANGED <<items, lastPut, lastRead>>

Environment == (Tick \/ ToggleSink) /\ UNCHANGED <<items, lastPut, lastRead>>

Next == \/ \E d \in Devices : Report(d)
        \/ PublishOnce
        \/ Cycle
        \/ Environment

(* The publisher's loop runs publish_once() and, once per interval,        *)
(* publish_cached(); time passes.  Nothing makes a worker report.          *)
Fairness == /\ WF_vars(PublishOnce)
            /\ WF_vars(Cycle)
            /\ WF_vars(Tick /\ UNCHANGED <<items, lastPut, lastRead>>)

Spec == Init /\ [][Next]_vars /\ Fairness

-----------------------------------------------------------------------------
TypeOK == /\ PublisherTypeOK
          /\ \A i \in DOMAIN items : /\ items[i].key \in Devices \X (Tags \cup {Result})
                                     /\ items[i].value.device = items[i].key[1]
          /\ lastPut \in [Devices -> {"none", "error", "good", "bad", "mixed"}]
          /\ lastRead \in [Tags -> {"none"} \cup Quality]

EntriesOf(d) == {i \in DOMAIN items : items[i].value.device = d}

(* The publisher has taken everything the worker of d has put.             *)
Settled(d) == EntriesOf(d) = {}

(* publish_once() applies results in the order the workers produced them:  *)
(* once the queue holds nothing of a device, its status and the cached     *)
(* qualities of its tags are those of its latest read, never of an older   *)
(* one.  A read in which some tags failed is left to the property below.   *)
SettledStatusIsLatest ==
  \A d \in Devices : Settled(d) =>
    /\ \A t \in TagsOf(d) : quality[t] = lastRead[t]
    /\ lastPut[d] = "error" => status[d] = "disconnected"
    /\ lastPut[d] = "good" => status[d] \in {"good", "stale"}
    /\ lastPut[d] = "bad" => status[d] = "bad"

(* publish_cached() publishes a value only while its device answers: its   *)
(* latest result is younger than the stale timeout, an error reported      *)
(* since is still in the queue, and so is a failed read of the tag.        *)
OnlyLiveDataIsPublished ==
  \A m \in {m \in sent : m.kind = "data"} :
    /\ StaleTimeout > 0 => receivedAge[m.device] < StaleTimeout
    /\ lastPut[m.device] = "error" => ~Settled(m.device)
    /\ \A t \in m.on : lastRead[t] = "good" \/ ~Settled(m.device)

(* A device whose worker falls silent does not stay good: what it put is   *)
(* taken, and the stale timeout runs out (SinkPublisher, stale detection). *)
SilenceIsNoticed ==
  \A d \in Devices : []<>~Settled(d) \/ <>[](status[d] # "good")

(* A status that the sink refused is repeated: when a device stays offline *)
(* and the sink stays up, subscribers eventually stop seeing its tags on.  *)
OfflineIsEventuallyHeard ==
  \A d \in Devices :
    <>[](status[d] \in OfflineStatus /\ sinkUp)
      => <>[](\A t \in Cached(d, quality) : announced[t] # "on")

(* SESSION.md:119 of mixed reads: "if some tags fail and some succeed,     *)
(* successful tags still publish measurement data".  The queue hands the   *)
(* tags of a read over one by one, so that a failed tag after a good one   *)
(* makes the device bad, and publish_cached() skips it.                    *)
SuccessfulTagsStillPublish ==
  [][Cycle => \A d \in Devices :
       Settled(d) /\ lastPut[d] = "mixed" /\ receivedAge[d] < StaleTimeout =>
         \A t \in TagsOf(d) : lastRead[t] = "good" =>
           \E m \in sent' : m.kind = "data" /\ t \in m.on]_vars
==============================================================================

---------------------------- MODULE SinkPublisher ----------------------------
(***************************************************************************)
(* SinkPublisher of workers.py: the thread that takes read results, keeps  *)
(* the latest value of every tag and a status of every device, publishes   *)
(* the values once per publish interval, and announces on the status       *)
(* topics which tags are on and which are off.                             *)
(*                                                                         *)
(* Time is counted in ticks, and the time stamps of the code are kept as   *)
(* ages that stop growing once they make no difference any more.           *)
(* Values, topics and payloads are left out: a tag is good or bad.         *)
(***************************************************************************)
EXTENDS ReadResults, Integers

CONSTANTS GroupOf,         \* the output group of a tag, _tag_output_group()
          StaleTimeout,    \* message_stale_timeout_s, in ticks; 0 disables it
          StatusInterval   \* status_publish_interval_s, in ticks; 0 disables it

ASSUME PublisherAssumption ==
  /\ StaleTimeout \in Nat
  /\ StatusInterval \in Nat

Never == -1

OfflineStatus == {"bad", "disconnected", "stale"}

Status == {"unknown", "good"} \cup OfflineStatus

VARIABLES
  status,        \* _device_statuses[d]["status"], "unknown" without an entry
  quality,       \* the tags cached in _latest: "none" when not cached
  receivedAge,   \* age of _latest[d]["last_received_at"]; Never without a snapshot
  statusAge,     \* age of last_published_at, or of changed_at when it is None
  runtimeTag,    \* the quality last put for a tag on the status queue
  announced,     \* what subscribers of the status topics last heard of a tag
  missed,        \* devices whose latest status messages did not all arrive
  sent,          \* the messages the latest step handed to the sink
  sinkUp         \* whether the broker or database accepts messages

publisher == <<status, quality, receivedAge, statusAge, runtimeTag,
               announced, missed, sent, sinkUp>>

PublisherTypeOK ==
  /\ status \in [Devices -> Status]
  /\ quality \in [Tags -> {"none", "good", "bad"}]
  /\ receivedAge \in [Devices -> Never .. StaleTimeout]
  /\ statusAge \in [Devices -> 0 .. StatusInterval]
  /\ runtimeTag \in [Tags -> (Status \ {"unknown"}) \cup {"none"}]
  /\ announced \in [Tags -> {"none", "on", "off"}]
  /\ missed \subseteq Devices
  /\ sinkUp \in BOOLEAN

PublisherInit ==
  /\ status = [d \in Devices |-> "unknown"]
  /\ quality = [t \in Tags |-> "none"]
  /\ receivedAge = [d \in Devices |-> Never]
  /\ statusAge = [d \in Devices |-> 0]
  /\ runtimeTag = [t \in Tags |-> "none"]
  /\ announced = [t \in Tags |-> "none"]
  /\ missed = {}
  /\ sent = {}
  /\ sinkUp = TRUE

-----------------------------------------------------------------------------
Cached(d, q) == {t \in TagsOf(d) : q[t] # "none"}

(* dict.update() of a dictionary with an entry per tag.                    *)
Updated(dict, entries) ==
  [t \in Tags |-> IF t \in DOMAIN entries THEN entries[t] ELSE dict[t]]

InGroup(g) == {t \in Tags : GroupOf[t] = g}

Groups(d, q) == {GroupOf[t] : t \in Cached(d, q)}

(* _ctm_status_message(): a tag is on when the device is and its own last  *)
(* value is good.                                                          *)
StatusMessage(d, g, q, conn) ==
  LET tags == Cached(d, q) \cap InGroup(g)
      on == {t \in tags : conn = "on" /\ q[t] = "good"}
  IN  [kind |-> "status", device |-> d, on |-> on, off |-> tags \ on]

(* The messages of _publish_device_status(), one per group.                *)
StatusMessages(d, q, st) ==
  {StatusMessage(d, g, q, IF st = "good" THEN "on" ELSE "off") : g \in Groups(d, q)}

DataMessage(d, g) ==
  [kind |-> "data", device |-> d,
   on |-> {t \in Cached(d, quality) \cap InGroup(g) : quality[t] = "good"}, off |-> {}]

(* What publish_cached() publishes of a good device: the good tags of each *)
(* group, and the status of the group; nothing of a group without any.     *)
CachedMessages(d) ==
  UNION {{DataMessage(d, g), StatusMessage(d, g, quality, "on")} :
           g \in {h \in Groups(d, quality) : DataMessage(d, h).on # {}}}

(***************************************************************************)
(* _publish_message() of each message.  publish_batch() raises while the   *)
(* sink is down, and may raise for any message when the sink goes down     *)
(* meanwhile; the exception is swallowed.                                  *)
(***************************************************************************)
Statuses(messages) == {m \in messages : m.kind = "status"}

Delivery(messages, delivered) ==
  /\ sent' = messages
  /\ announced' = [t \in Tags |->
                     IF \E m \in Statuses(delivered) : t \in m.on THEN "on"
                     ELSE IF \E m \in Statuses(delivered) : t \in m.off THEN "off"
                     ELSE announced[t]]
  /\ missed' = (missed \ {m.device : m \in Statuses(messages)})
                  \cup {m.device : m \in Statuses(messages \ delivered)}
  /\ UNCHANGED sinkUp

Publish(messages) ==
  \E delivered \in IF sinkUp THEN {messages} ELSE SUBSET messages :
    Delivery(messages, delivered)

StatusDue(d) == StatusInterval > 0 /\ statusAge[d] >= StatusInterval

(* Mutant: a change is announced only when the status is due anyway.       *)
SetDeviceStatusWhenDue(d, st, q, shown) ==
  LET changed == status[d] # st
      publishes == StatusDue(d)
  IN  /\ status' = [status EXCEPT ![d] = st]
      /\ statusAge' = IF changed \/ publishes THEN [statusAge EXCEPT ![d] = 0] ELSE statusAge
      /\ runtimeTag' = IF changed THEN Updated(shown, [t \in Cached(d, q) |-> st]) ELSE shown
      /\ Publish(IF publishes THEN StatusMessages(d, q, st) ELSE {})

(* Mutant: without _emit_runtime_tag_status().                             *)
SetDeviceStatusUnseen(d, st, q, shown) ==
  LET changed == status[d] # st
      publishes == IF changed THEN status[d] # "unknown" \/ st # "good" ELSE StatusDue(d)
  IN  /\ status' = [status EXCEPT ![d] = st]
      /\ statusAge' = IF changed \/ publishes THEN [statusAge EXCEPT ![d] = 0] ELSE statusAge
      /\ runtimeTag' = shown
      /\ Publish(IF publishes THEN StatusMessages(d, q, st) ELSE {})

(***************************************************************************)
(* _set_device_status(d, st): q is the cache, and shown the tag qualities  *)
(* on the status queue, after the caller's updates.  An unchanged status   *)
(* is repeated when due; the first good status is not announced.           *)
(***************************************************************************)
SetDeviceStatus(d, st, q, shown) ==
  LET changed == status[d] # st
      publishes == IF changed THEN status[d] # "unknown" \/ st # "good" ELSE StatusDue(d)
  IN  /\ status' = [status EXCEPT ![d] = st]
      /\ statusAge' = IF changed \/ publishes THEN [statusAge EXCEPT ![d] = 0] ELSE statusAge
      /\ runtimeTag' = IF changed /\ publishes
                       THEN Updated(shown, [t \in Cached(d, q) |-> st])
                       ELSE shown
      /\ Publish(IF publishes THEN StatusMessages(d, q, st) ELSE {})

(* publish_once() of an error result.                                      *)
HandleError(d) ==
  /\ SetDeviceStatus(d, "disconnected", quality, runtimeTag)
  /\ UNCHANGED <<quality, receivedAge>>

(* publish_once() of the qualities `read` of some tags of d: _cache_result *)
HandleRead(d, read) ==
  /\ quality' = Updated(quality, read)
  /\ receivedAge' = [receivedAge EXCEPT ![d] = 0]
  /\ SetDeviceStatus(d,
                     IF DOMAIN read = {} \/ \E t \in DOMAIN read : read[t] = "good"
                     THEN "good" ELSE "bad",
                     quality', Updated(runtimeTag, read))

(***************************************************************************)
(* publish_cached(): _refresh_stale_statuses() marks the silent devices    *)
(* stale and repeats the statuses that are due, then the cached values of  *)
(* the devices that are still good are published.  Devices do not share    *)
(* state here, so the loops over them are taken in one step.               *)
(***************************************************************************)
Silent(d) == StaleTimeout > 0 /\ status[d] = "good" /\ receivedAge[d] >= StaleTimeout

(* Mutant: only a stale status is repeated.                                *)
RepeatsStale(d) == StaleTimeout > 0 /\ status[d] = "stale" /\ StatusDue(d)

RepeatsStatus(d) == /\ StaleTimeout > 0
                    /\ receivedAge[d] # Never
                    /\ status[d] # "good"
                    /\ StatusDue(d)

(* Mutant: the cached values are published before the silent devices are   *)
(* looked for.                                                             *)
PublishBeforeRefresh ==
  LET stale == {d \in Devices : Silent(d)}
      repeated == {d \in Devices : RepeatsStatus(d)}
      live == {d \in Devices : status[d] = "good"}
  IN  /\ status' = [d \in Devices |-> IF d \in stale THEN "stale" ELSE status[d]]
      /\ statusAge' = [d \in Devices |-> IF d \in stale \cup repeated THEN 0 ELSE statusAge[d]]
      /\ runtimeTag' = Updated(runtimeTag, [t \in UNION {Cached(d, quality) : d \in stale} |-> "stale"])
      /\ Publish((UNION {StatusMessages(d, quality, "stale") : d \in stale \cup repeated})
                   \cup (UNION {CachedMessages(d) : d \in live}))
      /\ UNCHANGED <<quality, receivedAge>>

(* Mutant: publishing a value again counts as receiving it.                *)
PublishTouches ==
  LET stale == {d \in Devices : Silent(d)}
      live == {d \in Devices : status[d] = "good"} \ stale
  IN  /\ receivedAge' = [d \in Devices |-> IF d \in live THEN 0 ELSE receivedAge[d]]
      /\ status' = [d \in Devices |-> IF d \in stale THEN "stale" ELSE status[d]]
      /\ Publish(UNION {CachedMessages(d) : d \in live})
      /\ UNCHANGED <<quality, statusAge, runtimeTag>>

PublishCached ==
  LET stale == {d \in Devices : Silent(d)}
      repeated == {d \in Devices : RepeatsStatus(d)}
      live == {d \in Devices : status[d] = "good"} \ stale
  IN  /\ status' = [d \in Devices |-> IF d \in stale THEN "stale" ELSE status[d]]
      /\ statusAge' = [d \in Devices |-> IF d \in stale \cup repeated THEN 0 ELSE statusAge[d]]
      /\ runtimeTag' = Updated(runtimeTag, [t \in UNION {Cached(d, quality) : d \in stale} |-> "stale"])
      /\ Publish((UNION {StatusMessages(d, quality, "stale") : d \in stale \cup repeated})
                   \cup (UNION {CachedMessages(d) : d \in live}))
      /\ UNCHANGED <<quality, receivedAge>>

(* Mutant: an age grows beyond the limit it is compared with.              *)
OlderForever(age, limit) == IF age = Never THEN age ELSE age + 1

(* Time passes; an age that has reached its timeout stays there.           *)
Older(age, limit) == IF age = Never \/ age = limit THEN age ELSE age + 1

Tick ==
  /\ receivedAge' = [d \in Devices |-> Older(receivedAge[d], StaleTimeout)]
  /\ statusAge' = [d \in Devices |-> Older(statusAge[d], StatusInterval)]
  /\ sent' = {}
  /\ UNCHANGED <<status, quality, runtimeTag, announced, missed, sinkUp>>

(* The broker or database goes away or comes back.                         *)
ToggleSink ==
  /\ sinkUp' = ~sinkUp
  /\ sent' = {}
  /\ UNCHANGED <<status, quality, receivedAge, statusAge, runtimeTag, announced, missed>>

-----------------------------------------------------------------------------
(***************************************************************************)
(* The publisher alone: any result of any device may come next.  Gateway   *)
(* composes it with the queue and the workers.                             *)
(***************************************************************************)
PublisherNext ==
  \/ \E d \in Devices : \/ HandleError(d)
                        \/ \E S \in SUBSET TagsOf(d) : \E read \in [S -> Quality] : HandleRead(d, read)
  \/ PublishCached
  \/ Tick
  \/ ToggleSink

PublisherSpec == PublisherInit /\ [][PublisherNext]_publisher

(* Subscribers of the status topics do not see a tag on while its device   *)
(* is bad, disconnected or stale, unless the sink refused the message that *)
(* would have told them.                                                   *)
OfflineIsAnnounced ==
  \A d \in Devices : status[d] \in OfflineStatus /\ d \notin missed =>
    \A t \in Cached(d, quality) : announced[t] # "on"

(* The live tag status of the UI does not show a tag of a disconnected or  *)
(* stale device as good: the transition overwrites what the reads before   *)
(* it put on the status queue.                                             *)
RuntimeTagsShowOffline ==
  \A d \in Devices : status[d] \in {"disconnected", "stale"} =>
    \A t \in Cached(d, quality) : runtimeTag[t] = status[d]
==============================================================================

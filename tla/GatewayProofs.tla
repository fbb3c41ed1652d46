---------------------------- MODULE GatewayProofs ----------------------------
(***************************************************************************)
(* Theorems about the sink publisher, and about the data path from the     *)
(* workers through the queue to the sink: for every set of devices and     *)
(* tags, every grouping and every value of the two timeouts.               *)
(***************************************************************************)
EXTENDS Gateway, LatestReadResultQueueProofs

(* The tags of a device are tags, and no other device has them.            *)
LEMMA TagsOfDevices ==
  /\ \A d \in Devices : TagsOf(d) \subseteq Tags
  /\ \A d, e \in Devices : d # e => TagsOf(d) \cap TagsOf(e) = {}
<1>1. \A d \in Devices : DeviceTags[d] \in Seq(Tags)
  BY DeviceTagsAssumption
<1>2. ASSUME NEW s \in Seq(Tags) PROVE Range(s) \subseteq Tags
  BY DEF Range
<1> QED BY <1>1, <1>2, DeviceTagsAssumption DEF TagsOf

(* An update of a dictionary over the tags is one.                         *)
LEMMA UpdatedType ==
  ASSUME NEW V, NEW dict \in [Tags -> V], NEW S, NEW entries \in [S -> V]
  PROVE  Updated(dict, entries) \in [Tags -> V]
BY DEF Updated

-----------------------------------------------------------------------------
(* What publishing leaves in `announced` and `missed`, whatever the        *)
(* messages are: only values of their types.                               *)
LEMMA PublishType ==
  ASSUME announced \in [Tags -> {"none", "on", "off"}], missed \subseteq Devices,
         sinkUp \in BOOLEAN,
         NEW messages, \A m \in messages : m.device \in Devices,
         Publish(messages)
  PROVE  /\ announced' \in [Tags -> {"none", "on", "off"}]
         /\ missed' \subseteq Devices
         /\ sinkUp' \in BOOLEAN
<1>1. PICK delivered \in IF sinkUp THEN {messages} ELSE SUBSET messages :
        Delivery(messages, delivered)
  BY DEF Publish
<1>2. announced' \in [Tags -> {"none", "on", "off"}]
  BY <1>1 DEF Delivery
<1>3. missed' \subseteq Devices
  BY <1>1 DEF Delivery, Statuses
<1>4. sinkUp' \in BOOLEAN
  BY <1>1 DEF Delivery
<1> QED BY <1>2, <1>3, <1>4

(* Every message is about a device of the configuration.                   *)
LEMMA MessagesAboutDevices ==
  ASSUME NEW d \in Devices
  PROVE  /\ \A q, st : \A m \in StatusMessages(d, q, st) : m.device = d
         /\ \A m \in CachedMessages(d) : m.device = d
BY DEF StatusMessages, StatusMessage, CachedMessages, DataMessage

(* _set_device_status() keeps the types, whatever the caller's updates.    *)
LEMMA SetDeviceStatusType ==
  ASSUME PublisherTypeOK, NEW d \in Devices, NEW st \in Status \ {"unknown"}, NEW q,
         NEW shown \in [Tags -> (Status \ {"unknown"}) \cup {"none"}],
         SetDeviceStatus(d, st, q, shown)
  PROVE  /\ status' \in [Devices -> Status]
         /\ statusAge' \in [Devices -> 0 .. StatusInterval]
         /\ runtimeTag' \in [Tags -> (Status \ {"unknown"}) \cup {"none"}]
         /\ announced' \in [Tags -> {"none", "on", "off"}]
         /\ missed' \subseteq Devices
         /\ sinkUp' \in BOOLEAN
<1> DEFINE shows == Updated(shown, [t \in Cached(d, q) |-> st])
<1>1. status' = [status EXCEPT ![d] = st]
  BY DEF SetDeviceStatus
<1>2. statusAge' = [statusAge EXCEPT ![d] = 0] \/ statusAge' = statusAge
  BY DEF SetDeviceStatus
<1>3. runtimeTag' = shows \/ runtimeTag' = shown
  BY DEF SetDeviceStatus
<1>4. shows \in [Tags -> (Status \ {"unknown"}) \cup {"none"}]
  BY DEF Updated
<1>5. PICK messages \in {StatusMessages(d, q, st), {}} : Publish(messages)
  BY DEF SetDeviceStatus
<1>6. \A m \in messages : m.device \in Devices
  BY MessagesAboutDevices
<1>7. /\ announced' \in [Tags -> {"none", "on", "off"}]
      /\ missed' \subseteq Devices
      /\ sinkUp' \in BOOLEAN
  BY <1>5, <1>6, PublishType DEF PublisherTypeOK
<1>8. 0 \in 0 .. StatusInterval
  BY PublisherAssumption
<1> HIDE DEF shows
<1> QED BY <1>1, <1>2, <1>3, <1>4, <1>7, <1>8 DEF PublisherTypeOK

(* No step of the publisher leaves the types.                              *)
LEMMA PublisherTypeStep == PublisherTypeOK /\ [PublisherNext]_publisher => PublisherTypeOK'
<1> SUFFICES ASSUME PublisherTypeOK, [PublisherNext]_publisher
             PROVE  PublisherTypeOK'
  OBVIOUS
<1>1. ASSUME NEW d \in Devices, HandleError(d) PROVE PublisherTypeOK'
  BY <1>1, SetDeviceStatusType DEF HandleError, PublisherTypeOK, Status, OfflineStatus
<1>2. ASSUME NEW d \in Devices, NEW S \in SUBSET TagsOf(d), NEW read \in [S -> Quality],
             HandleRead(d, read)
      PROVE  PublisherTypeOK'
  <2> DEFINE st == IF DOMAIN read = {} \/ \E t \in DOMAIN read : read[t] = "good"
                   THEN "good" ELSE "bad"
             shown == Updated(runtimeTag, read)
  <2>1. quality' \in [Tags -> {"none", "good", "bad"}]
    BY <1>2, UpdatedType DEF HandleRead, PublisherTypeOK, Updated, Quality
  <2>2. receivedAge' \in [Devices -> Never .. StaleTimeout]
    BY <1>2, PublisherAssumption DEF HandleRead, PublisherTypeOK, Never
  <2>3. st \in Status \ {"unknown"}
    BY DEF Status, OfflineStatus
  <2>4. shown \in [Tags -> (Status \ {"unknown"}) \cup {"none"}]
    BY DEF PublisherTypeOK, Updated, Quality, Status, OfflineStatus
  <2>5. SetDeviceStatus(d, st, quality', shown)
    BY <1>2 DEF HandleRead
  <2> HIDE DEF st, shown
  <2> QED BY <2>1, <2>2, <2>3, <2>4, <2>5, SetDeviceStatusType DEF PublisherTypeOK
<1>3. CASE PublishCached
  <2> DEFINE stale == {d \in Devices : Silent(d)}
             repeated == {d \in Devices : RepeatsStatus(d)}
             live == {d \in Devices : status[d] = "good"} \ stale
             messages == (UNION {StatusMessages(d, quality, "stale") : d \in stale \cup repeated})
                           \cup (UNION {CachedMessages(d) : d \in live})
             gone == UNION {Cached(d, quality) : d \in stale}
  <2>1. status' \in [Devices -> Status]
    BY <1>3 DEF PublishCached, PublisherTypeOK, Status, OfflineStatus
  <2>2. statusAge' \in [Devices -> 0 .. StatusInterval]
    BY <1>3, PublisherAssumption DEF PublishCached, PublisherTypeOK
  <2>3. runtimeTag' = Updated(runtimeTag, [t \in gone |-> "stale"])
    BY <1>3 DEF PublishCached
  <2>4. runtimeTag' \in [Tags -> (Status \ {"unknown"}) \cup {"none"}]
    BY <2>3 DEF PublisherTypeOK, Updated, Status, OfflineStatus
  <2>5. \A m \in messages : m.device \in Devices
    BY MessagesAboutDevices
  <2>6. Publish(messages)
    BY <1>3 DEF PublishCached
  <2>7. /\ announced' \in [Tags -> {"none", "on", "off"}]
        /\ missed' \subseteq Devices
        /\ sinkUp' \in BOOLEAN
    BY <2>5, <2>6, PublishType DEF PublisherTypeOK
  <2> QED BY <1>3, <2>1, <2>2, <2>4, <2>7 DEF PublishCached, PublisherTypeOK
<1>4. CASE Tick
  BY <1>4, PublisherAssumption DEF Tick, Older, PublisherTypeOK, Never
<1>5. CASE ToggleSink
  BY <1>5 DEF ToggleSink, PublisherTypeOK
<1>6. CASE UNCHANGED publisher
  BY <1>6 DEF publisher, PublisherTypeOK
<1> QED BY <1>1, <1>2, <1>3, <1>4, <1>5, <1>6 DEF PublisherNext

(* Every variable of the publisher keeps its type.                         *)
THEOREM PublisherTypeCorrect == PublisherSpec => []PublisherTypeOK
<1>1. PublisherInit => PublisherTypeOK
  BY PublisherAssumption DEF PublisherInit, PublisherTypeOK, Status, Never
<1>2. PublisherTypeOK /\ [PublisherNext]_publisher => PublisherTypeOK'
  BY PublisherTypeStep
<1> QED BY <1>1, <1>2, PTL DEF PublisherSpec

-----------------------------------------------------------------------------
(* A message names cached tags of its own device only.                     *)
Proper(messages, q) ==
  \A m \in messages : /\ m.device \in Devices
                      /\ m.on \subseteq Cached(m.device, q)
                      /\ m.off \subseteq Cached(m.device, q)

(* The status messages of _publish_device_status() are of their device and *)
(* turn only tags that it has cached on or off.                            *)
LEMMA StatusMessagesProper ==
  ASSUME NEW d \in Devices, NEW q, NEW st
  PROVE  /\ Proper(StatusMessages(d, q, st), q)
         /\ \A m \in StatusMessages(d, q, st) : m.device = d /\ m.kind = "status"
BY DEF Proper, StatusMessages, StatusMessage

(* So do the messages that publish_cached() sends of a device.             *)
LEMMA CachedMessagesProper ==
  ASSUME NEW d \in Devices
  PROVE  /\ Proper(CachedMessages(d), quality)
         /\ \A m \in CachedMessages(d) : m.device = d
BY DEF Proper, CachedMessages, DataMessage, StatusMessage

(* An offline status says off of every cached tag, and on of none.         *)
LEMMA OfflineMessages ==
  ASSUME NEW d, NEW q, NEW st \in OfflineStatus
  PROVE  /\ \A m \in StatusMessages(d, q, st) : m.on = {}
         /\ \A t \in Cached(d, q) : t \in Tags => \E m \in StatusMessages(d, q, st) : t \in m.off
<1>1. st # "good"
  BY DEF OfflineStatus
<1>2. \A g : StatusMessage(d, g, q, "off").on = {}
  BY DEF StatusMessage
<1>3. ASSUME NEW t \in Cached(d, q), t \in Tags
      PROVE  t \in StatusMessage(d, GroupOf[t], q, "off").off
  BY <1>3 DEF StatusMessage, InGroup
<1>4. \A t \in Cached(d, q) : GroupOf[t] \in Groups(d, q)
  BY DEF Groups
<1> QED BY <1>1, <1>2, <1>3, <1>4 DEF StatusMessages

(* What subscribers hear of the tags of d: nothing, when no message is     *)
(* about d; and off, when the messages about d turn all of its cached tags *)
(* off and all of them are delivered.                                      *)
LEMMA Heard ==
  ASSUME NEW messages, NEW delivered \in SUBSET messages, NEW q, Proper(messages, q),
         Delivery(messages, delivered), NEW d \in Devices, NEW t \in Cached(d, q), t \in Tags
  PROVE  /\ (\A m \in messages : m.device # d)
               => announced'[t] = announced[t] /\ (d \in missed' <=> d \in missed)
         /\ (/\ \A m \in messages : m.device = d => m.on = {}
             /\ \E m \in Statuses(messages) : m.device = d /\ t \in m.off)
               => announced'[t] = "off" \/ d \in missed'
<1>1. t \in TagsOf(d)
  BY DEF Cached
<1>2. \A m \in messages : m.device # d => t \notin m.on /\ t \notin m.off
  BY <1>1, TagsOfDevices DEF Proper, Cached
<1>3. CASE \A m \in messages : m.device # d
  BY <1>2, <1>3 DEF Delivery, Statuses
<1>4. CASE /\ \A m \in messages : m.device = d => m.on = {}
           /\ \E m \in Statuses(messages) : m.device = d /\ t \in m.off
  <2>1. PICK n \in Statuses(messages) : n.device = d /\ t \in n.off
    BY <1>4
  <2>2. \A m \in messages : t \notin m.on
    BY <1>2, <1>4
  <2>3. CASE n \in delivered
    BY <2>1, <2>2, <2>3 DEF Delivery, Statuses
  <2>4. CASE n \notin delivered
    BY <2>1, <2>4 DEF Delivery, Statuses
  <2> QED BY <1>3, <2>1, <2>3, <2>4
<1> QED BY <1>3, <1>4

(* A tag that is not cached is in no message.                              *)
LEMMA Unheard ==
  ASSUME NEW messages, NEW delivered \in SUBSET messages, NEW q, Proper(messages, q),
         Delivery(messages, delivered), NEW t \in Tags, q[t] = "none"
  PROVE  announced'[t] = announced[t]
BY DEF Delivery, Statuses, Proper, Cached

(***************************************************************************)
(* The strengthening of OfflineIsAnnounced that its proof needs: a tag     *)
(* that enters the cache of an offline device brings no announcement along.*)
(***************************************************************************)
AnnouncedInv ==
  /\ OfflineIsAnnounced
  /\ \A t \in Tags : quality[t] = "none" => announced[t] = "none"

(* _set_device_status() keeps the announcements in step with the statuses: *)
(* going offline sends off to every cached tag of the device.              *)
LEMMA SetDeviceStatusAnnounces ==
  ASSUME PublisherTypeOK, AnnouncedInv, NEW d \in Devices, NEW st \in Status \ {"unknown"},
         NEW shown, SetDeviceStatus(d, st, quality', shown),
         \A t \in Tags : quality'[t] = "none" => quality[t] = "none",
         \A t \in Tags \ TagsOf(d) : quality'[t] = quality[t]
  PROVE  AnnouncedInv'
<1>1. PICK messages, delivered :
        /\ delivered \in SUBSET messages
        /\ Delivery(messages, delivered)
        /\ messages = {} \/ messages = StatusMessages(d, quality', st)
        /\ status[d] # st /\ st # "good" => messages = StatusMessages(d, quality', st)
  BY DEF SetDeviceStatus, Publish
<1>2. /\ Proper(messages, quality')
      /\ \A m \in messages : m.device = d /\ m.kind = "status"
  BY <1>1, StatusMessagesProper DEF Proper
<1>3. status' = [status EXCEPT ![d] = st]
  BY DEF SetDeviceStatus
<1>4. ASSUME NEW t \in Tags, quality'[t] = "none" PROVE announced'[t] = "none"
  BY <1>1, <1>2, <1>4, Unheard DEF AnnouncedInv
<1>5. ASSUME NEW e \in Devices, status'[e] \in OfflineStatus, e \notin missed',
             NEW t \in Cached(e, quality')
      PROVE  announced'[t] # "on"
  <2>1. t \in Tags /\ t \in TagsOf(e)
    BY <1>5, TagsOfDevices DEF Cached
  <2>2. CASE e # d
    <3>1. announced'[t] = announced[t] /\ (e \in missed' <=> e \in missed)
      BY <1>1, <1>2, <2>1, <2>2, Heard
    <3>2. t \in Cached(e, quality)
      BY <2>1, <2>2, TagsOfDevices, <1>5 DEF Cached
    <3>3. status'[e] = status[e]
      BY <1>3, <2>2 DEF PublisherTypeOK
    <3> QED BY <1>5, <3>1, <3>2, <3>3 DEF AnnouncedInv, OfflineIsAnnounced
  <2>3. CASE e = d /\ messages = StatusMessages(d, quality', st)
    <3>1. st \in OfflineStatus
      BY <1>3, <1>5, <2>3 DEF PublisherTypeOK
    <3>2. \A m \in messages : m.on = {}
      BY <2>3, <3>1, OfflineMessages
    <3>3. \E m \in Statuses(messages) : m.device = d /\ t \in m.off
      BY <1>2, <1>5, <2>1, <2>3, <3>1, OfflineMessages DEF Statuses
    <3> QED BY <1>1, <1>2, <1>5, <2>1, <2>3, <3>2, <3>3, Heard
  <2>4. CASE e = d /\ messages = {}
    <3>1. announced'[t] = announced[t] /\ (d \in missed' <=> d \in missed)
      BY <1>1, <1>2, <1>5, <2>1, <2>4, Heard
    <3>2. CASE messages = StatusMessages(d, quality', st)
      BY <2>3, <2>4, <3>2
    <3>3. CASE status[d] = st \/ st = "good"
      <4>1. status[d] \in OfflineStatus
        BY <1>3, <1>5, <2>4, <3>3 DEF PublisherTypeOK, OfflineStatus
      <4>2. CASE quality[t] = "none"
        BY <2>1, <3>1, <4>2 DEF AnnouncedInv
      <4>3. CASE quality[t] # "none"
        BY <1>5, <2>1, <2>4, <3>1, <4>1, <4>3 DEF AnnouncedInv, OfflineIsAnnounced, Cached
      <4> QED BY <4>2, <4>3
    <3> QED BY <1>1, <3>2, <3>3
  <2> QED BY <1>1, <2>2, <2>3, <2>4
<1> QED BY <1>4, <1>5 DEF AnnouncedInv, OfflineIsAnnounced

(* publish_cached() leaves a device that stays offline unannounced only    *)
(* when it sends nothing about it, and turns it off when it does.          *)
LEMMA PublishCachedAnnounces ==
  ASSUME PublisherTypeOK, AnnouncedInv, PublishCached
  PROVE  AnnouncedInv'
<1> DEFINE stale == {d \in Devices : Silent(d)}
           repeated == {d \in Devices : RepeatsStatus(d)}
           live == {d \in Devices : status[d] = "good"} \ stale
           off == UNION {StatusMessages(d, quality, "stale") : d \in stale \cup repeated}
           messages == off \cup (UNION {CachedMessages(d) : d \in live})
<1>1. PICK delivered \in SUBSET messages : Delivery(messages, delivered)
  BY DEF PublishCached, Publish
<1>2. /\ quality' = quality
      /\ status' = [d \in Devices |-> IF d \in stale THEN "stale" ELSE status[d]]
  BY DEF PublishCached
<1>3. Proper(messages, quality)
  BY StatusMessagesProper, CachedMessagesProper DEF Proper
<1>4. ASSUME NEW e \in Devices \ live
      PROVE  /\ e \in stale \cup repeated =>
                  {m \in messages : m.device = e} = StatusMessages(e, quality, "stale")
             /\ e \notin stale \cup repeated => \A m \in messages : m.device # e
  BY StatusMessagesProper, CachedMessagesProper
<1> HIDE DEF messages
<1>5. ASSUME NEW t \in Tags, quality'[t] = "none" PROVE announced'[t] = "none"
  BY <1>1, <1>2, <1>3, <1>5, Unheard DEF AnnouncedInv
<1>6. ASSUME NEW e \in Devices, status'[e] \in OfflineStatus, e \notin missed',
             NEW t \in Cached(e, quality')
      PROVE  announced'[t] # "on"
  <2>1. t \in Tags /\ t \in Cached(e, quality)
    BY <1>2, <1>6, TagsOfDevices DEF Cached
  <2>2. e \notin live
    BY <1>2, <1>6 DEF OfflineStatus
  <2>3. CASE e \in stale \cup repeated
    <3>1. "stale" \in OfflineStatus
      BY DEF OfflineStatus
    <3>2. \A m \in messages : m.device = e => m.on = {}
      BY <1>4, <2>2, <2>3, <3>1, OfflineMessages
    <3>3. \E m \in Statuses(messages) : m.device = e /\ t \in m.off
      BY <1>4, <2>1, <2>2, <2>3, <3>1, OfflineMessages, StatusMessagesProper DEF Statuses
    <3> QED BY <1>1, <1>3, <1>6, <2>1, <3>2, <3>3, Heard
  <2>4. CASE e \notin stale \cup repeated
    <3>1. announced'[t] = announced[t] /\ (e \in missed' <=> e \in missed)
      BY <1>1, <1>3, <1>4, <2>1, <2>2, <2>4, Heard
    <3> QED BY <1>2, <1>6, <2>1, <2>4, <3>1 DEF AnnouncedInv, OfflineIsAnnounced
  <2> QED BY <2>3, <2>4
<1> QED BY <1>5, <1>6 DEF AnnouncedInv, OfflineIsAnnounced

(* Every step of the publisher keeps the announcements in step.            *)
LEMMA AnnouncedStep ==
  PublisherTypeOK /\ AnnouncedInv /\ [PublisherNext]_publisher => AnnouncedInv'
<1> SUFFICES ASSUME PublisherTypeOK, AnnouncedInv, [PublisherNext]_publisher
             PROVE  AnnouncedInv'
  OBVIOUS
<1>1. ASSUME NEW d \in Devices, HandleError(d) PROVE AnnouncedInv'
  <2>1. quality' = quality
    BY <1>1 DEF HandleError
  <2>2. SetDeviceStatus(d, "disconnected", quality', runtimeTag)
    BY <1>1, <2>1 DEF HandleError
  <2>3. "disconnected" \in Status \ {"unknown"}
    BY DEF Status, OfflineStatus
  <2> QED BY <2>1, <2>2, <2>3, SetDeviceStatusAnnounces
<1>2. ASSUME NEW d \in Devices, NEW S \in SUBSET TagsOf(d), NEW read \in [S -> Quality],
             HandleRead(d, read)
      PROVE  AnnouncedInv'
  <2>1. PICK st \in {"good", "bad"} :
          SetDeviceStatus(d, st, quality', Updated(runtimeTag, read))
    BY <1>2 DEF HandleRead
  <2>2. st \in Status \ {"unknown"}
    BY DEF Status, OfflineStatus
  <2>3. quality' = [t \in Tags |-> IF t \in S THEN read[t] ELSE quality[t]]
    BY <1>2 DEF HandleRead, Updated
  <2>4. \A t \in Tags : quality'[t] = "none" => quality[t] = "none"
    BY <2>3 DEF Quality
  <2>5. \A t \in Tags \ TagsOf(d) : quality'[t] = quality[t]
    BY <2>3
  <2> QED BY <2>1, <2>2, <2>4, <2>5, SetDeviceStatusAnnounces
<1>3. CASE PublishCached
  BY <1>3, PublishCachedAnnounces
<1>4. CASE Tick
  BY <1>4 DEF Tick, AnnouncedInv, OfflineIsAnnounced, Cached
<1>5. CASE ToggleSink
  BY <1>5 DEF ToggleSink, AnnouncedInv, OfflineIsAnnounced, Cached
<1>6. CASE UNCHANGED publisher
  BY <1>6 DEF publisher, AnnouncedInv, OfflineIsAnnounced, Cached
<1> QED BY <1>1, <1>2, <1>3, <1>4, <1>5, <1>6 DEF PublisherNext

(* No subscriber sees a tag on while its device is offline, unless the     *)
(* sink refused the message: in every run of the publisher.                *)
THEOREM OfflineAnnounced == PublisherSpec => []OfflineIsAnnounced
<1>1. PublisherInit => AnnouncedInv
  BY TagsOfDevices DEF PublisherInit, AnnouncedInv, OfflineIsAnnounced, OfflineStatus
<1>2. PublisherTypeOK /\ AnnouncedInv /\ [PublisherNext]_publisher => AnnouncedInv'
  BY AnnouncedStep
<1>3. AnnouncedInv => OfflineIsAnnounced
  BY DEF AnnouncedInv
<1> QED BY <1>1, <1>2, <1>3, PublisherTypeCorrect, PTL DEF PublisherSpec

-----------------------------------------------------------------------------
(* A device whose status does not change, and that takes no read, keeps    *)
(* what the UI was told of its tags: the updates of another device do not  *)
(* reach them.                                                             *)
LEMMA OtherTagsKeepQuality ==
  ASSUME NEW d \in Devices, NEW e \in Devices, e # d, NEW t \in TagsOf(e), NEW dict,
         NEW S \in SUBSET TagsOf(d), NEW entries, DOMAIN entries = S
  PROVE  Updated(dict, entries)[t] = dict[t]
BY TagsOfDevices DEF Updated

(* Every step of the publisher shows the UI what it did to the statuses.   *)
LEMMA RuntimeTagsStep ==
  PublisherTypeOK /\ RuntimeTagsShowOffline /\ [PublisherNext]_publisher
    => RuntimeTagsShowOffline'
<1> SUFFICES ASSUME PublisherTypeOK, RuntimeTagsShowOffline, [PublisherNext]_publisher
             PROVE  RuntimeTagsShowOffline'
  OBVIOUS
<1>1. ASSUME NEW d \in Devices, HandleError(d) PROVE RuntimeTagsShowOffline'
  <2> SUFFICES ASSUME NEW e \in Devices, status'[e] \in {"disconnected", "stale"},
                      NEW t \in Cached(e, quality')
               PROVE  runtimeTag'[t] = status'[e]
    BY DEF RuntimeTagsShowOffline
  <2> DEFINE shows == Updated(runtimeTag, [c \in Cached(d, quality) |-> "disconnected"])
  <2>1. /\ quality' = quality
        /\ status' = [status EXCEPT ![d] = "disconnected"]
        /\ runtimeTag' = IF status[d] # "disconnected" THEN shows ELSE runtimeTag
    BY <1>1 DEF HandleError, SetDeviceStatus
  <2>2. t \in Tags /\ t \in TagsOf(e) /\ t \in Cached(e, quality)
    BY <2>1, TagsOfDevices DEF Cached
  <2>3. CASE e = d
    <3>1. status'[e] = "disconnected"
      BY <2>1, <2>3 DEF PublisherTypeOK
    <3>2. shows[t] = "disconnected"
      BY <2>2, <2>3 DEF Updated
    <3> HIDE DEF shows
    <3> QED BY <2>1, <2>2, <2>3, <3>1, <3>2 DEF RuntimeTagsShowOffline
  <2>4. CASE e # d
    <3>1. shows[t] = runtimeTag[t]
      BY <2>2, <2>4, OtherTagsKeepQuality DEF Cached
    <3>2. status'[e] = status[e]
      BY <2>1, <2>4 DEF PublisherTypeOK
    <3> HIDE DEF shows
    <3> QED BY <2>1, <2>2, <3>1, <3>2 DEF RuntimeTagsShowOffline
  <2> QED BY <2>3, <2>4
<1>2. ASSUME NEW d \in Devices, NEW S \in SUBSET TagsOf(d), NEW read \in [S -> Quality],
             HandleRead(d, read)
      PROVE  RuntimeTagsShowOffline'
  <2> SUFFICES ASSUME NEW e \in Devices, status'[e] \in {"disconnected", "stale"},
                      NEW t \in Cached(e, quality')
               PROVE  runtimeTag'[t] = status'[e]
    BY DEF RuntimeTagsShowOffline
  <2> DEFINE shown == Updated(runtimeTag, read)
  <2>1. PICK st \in {"good", "bad"} : SetDeviceStatus(d, st, quality', shown)
    BY <1>2 DEF HandleRead
  <2>2. /\ status' = [status EXCEPT ![d] = st]
        /\ \/ runtimeTag' = Updated(shown, [c \in Cached(d, quality') |-> st])
           \/ runtimeTag' = shown
    BY <2>1 DEF SetDeviceStatus
  <2>3. e # d /\ status'[e] = status[e]
    BY <2>2 DEF PublisherTypeOK
  <2>4. t \in TagsOf(e) /\ t \in Tags
    BY TagsOfDevices DEF Cached
  <2>5. t \notin TagsOf(d) /\ DOMAIN read = S
    BY <2>3, <2>4, TagsOfDevices
  <2>6. quality'[t] = quality[t] /\ shown[t] = runtimeTag[t]
    <3>1. quality' = Updated(quality, read)
      BY <1>2 DEF HandleRead
    <3>2. t \notin DOMAIN read
      BY <2>5
    <3>3. \A dict : Updated(dict, read)[t] = dict[t]
      BY <2>4, <3>2 DEF Updated
    <3> QED BY <3>1, <3>3
  <2> HIDE DEF shown
  <2>7. runtimeTag'[t] = shown[t]
    <3> DEFINE cached == Cached(d, quality')
               becomes == [c \in cached |-> st]
    <3>1. t \notin cached
      BY <2>5 DEF Cached
    <3>2. DOMAIN becomes = cached
      OBVIOUS
    <3> HIDE DEF becomes, cached
    <3>3. Updated(shown, becomes)[t] = shown[t]
      BY <2>4, <3>1, <3>2 DEF Updated
    <3> USE DEF becomes, cached
    <3> QED BY <2>2, <3>3
  <2> QED BY <2>3, <2>4, <2>6, <2>7 DEF RuntimeTagsShowOffline, Cached
<1>3. CASE PublishCached
  <2> SUFFICES ASSUME NEW e \in Devices, status'[e] \in {"disconnected", "stale"},
                      NEW t \in Cached(e, quality')
               PROVE  runtimeTag'[t] = status'[e]
    BY DEF RuntimeTagsShowOffline
  <2> DEFINE stale == {d \in Devices : Silent(d)}
             gone == UNION {Cached(d, quality) : d \in stale}
  <2>1. /\ quality' = quality
        /\ status' = [d \in Devices |-> IF d \in stale THEN "stale" ELSE status[d]]
        /\ runtimeTag' = Updated(runtimeTag, [c \in gone |-> "stale"])
    BY <1>3 DEF PublishCached
  <2>2. t \in Tags /\ t \in TagsOf(e) /\ t \in Cached(e, quality)
    BY <2>1, TagsOfDevices DEF Cached
  <2>3. e \in stale <=> t \in gone
    BY <2>2, TagsOfDevices DEF Cached
  <2> HIDE DEF stale, gone
  <2> QED BY <2>1, <2>2, <2>3 DEF RuntimeTagsShowOffline, Updated
<1>4. CASE Tick
  BY <1>4 DEF Tick, RuntimeTagsShowOffline, Cached
<1>5. CASE ToggleSink
  BY <1>5 DEF ToggleSink, RuntimeTagsShowOffline, Cached
<1>6. CASE UNCHANGED publisher
  BY <1>6 DEF publisher, RuntimeTagsShowOffline, Cached
<1> QED BY <1>1, <1>2, <1>3, <1>4, <1>5, <1>6 DEF PublisherNext

(* The live tag status of the UI shows every cached tag of a disconnected  *)
(* or stale device as such: in every run of the publisher.                 *)
THEOREM RuntimeTagsOffline == PublisherSpec => []RuntimeTagsShowOffline
<1>1. PublisherInit => RuntimeTagsShowOffline
  BY DEF PublisherInit, RuntimeTagsShowOffline
<1>2. PublisherTypeOK /\ RuntimeTagsShowOffline /\ [PublisherNext]_publisher => RuntimeTagsShowOffline'
  BY RuntimeTagsStep
<1> QED BY <1>1, <1>2, PublisherTypeCorrect, PTL DEF PublisherSpec

-----------------------------------------------------------------------------
(***************************************************************************)
(* The data path.  What the queue holds of a device is what its worker     *)
(* read last: each entry of a tag carries its latest quality, each tag     *)
(* that the publisher does not know yet has an entry, and the entry of the *)
(* device nearest to the end tells what its latest result amounts to.      *)
(***************************************************************************)
QueueOK == items \in Seq(Entries) /\ Unique(items)

HistoryOK == /\ lastPut \in [Devices -> {"none", "error", "good", "bad", "mixed"}]
             /\ lastRead \in [Tags -> {"none"} \cup Quality]

QueuedQualities ==
  \A i \in DOMAIN items : items[i].value.tags # <<>> =>
    items[i].value.tags[1].quality = lastRead[items[i].value.tags[1].tag]

UnqueuedQualities ==
  \A d \in Devices : \A t \in TagsOf(d) :
    quality[t] = lastRead[t] \/ \E i \in DOMAIN items : items[i].key = <<d, t>>

(* The result r is what a summary of a whole read says.                    *)
Agrees(summary, r) ==
  /\ summary = "error" => r.error
  /\ summary = "good" => ~r.error /\ (r.tags # <<>> => r.tags[1].quality = "good")
  /\ summary = "bad" => ~r.error /\ r.tags # <<>> /\ r.tags[1].quality = "bad"

LastOf(q, i) == \A j \in DOMAIN q : i < j => q[j].value.device # q[i].value.device

LastEntries ==
  \A i \in DOMAIN items : LastOf(items, i) =>
    Agrees(lastPut[items[i].value.device], items[i].value)

SettledStatuses ==
  \A d \in Devices : Settled(d) =>
    /\ lastPut[d] = "error" => status[d] = "disconnected"
    /\ lastPut[d] = "good" => status[d] \in {"good", "stale"}
    /\ lastPut[d] = "bad" => status[d] = "bad"

PathInv == /\ QueueOK /\ HistoryOK
           /\ QueuedQualities /\ UnqueuedQualities
           /\ LastEntries /\ SettledStatuses

(* The qualities of a result, by tag.                                      *)
LEMMA ReadMapFacts ==
  ASSUME NEW d \in Devices, NEW r \in ResultsOf(d)
  PROVE  /\ DOMAIN ReadMap(r) \in SUBSET TagsOf(d)
         /\ ReadMap(r) \in [DOMAIN ReadMap(r) -> Quality]
         /\ DOMAIN ReadMap(r) = {r.tags[i].tag : i \in DOMAIN r.tags}
         /\ \A i \in DOMAIN r.tags : ReadMap(r)[r.tags[i].tag] = r.tags[i].quality
<1> DEFINE T == [tag : TagsOf(d), quality : Quality]
           at(t) == CHOOSE i \in DOMAIN r.tags : r.tags[i].tag = t
<1>1. /\ r.tags \in Seq(T)
      /\ \A i, j \in DOMAIN r.tags : r.tags[i].tag = r.tags[j].tag => r.tags[i] = r.tags[j]
  BY ResultFacts, DeviceTagsAssumption
<1>2. \A i \in DOMAIN r.tags : r.tags[i].tag \in TagsOf(d) /\ r.tags[i].quality \in Quality
  <2>1. \A i \in DOMAIN r.tags : r.tags[i] \in T
    <3> HIDE DEF T
    <3> QED BY <1>1
  <2> QED BY <2>1
<1>3. ReadMap(r) = [t \in {r.tags[i].tag : i \in DOMAIN r.tags} |-> r.tags[at(t)].quality]
  BY DEF ReadMap
<1>4. ASSUME NEW i \in DOMAIN r.tags
      PROVE  /\ at(r.tags[i].tag) \in DOMAIN r.tags
             /\ r.tags[at(r.tags[i].tag)] = r.tags[i]
  <2>1. at(r.tags[i].tag) \in DOMAIN r.tags /\ r.tags[at(r.tags[i].tag)].tag = r.tags[i].tag
    OBVIOUS
  <2> QED BY <2>1, <1>1
<1> HIDE DEF at
<1> QED BY <1>2, <1>3, <1>4

(* The entry that get() hands to publish_once().                           *)
LEMMA TakenFacts ==
  ASSUME QueueOK, items # <<>>
  PROVE  /\ 1 \in DOMAIN items /\ Head(items) = items[1] /\ items[1] \in Entries
         /\ items[1].value.device \in Devices
         /\ items[1].value \in ResultsOf(items[1].value.device)
<1>1. 1 \in DOMAIN items /\ Head(items) = items[1] /\ items[1] \in Entries
  BY TailFacts DEF QueueOK
<1> QED BY <1>1, EntryFacts, DeviceTagsAssumption DEF Singles

(* To the publisher, a step of the data path is one of its own or only     *)
(* clears the history variable `sent`.                                     *)
LEMMA StepIsPublisherStep ==
  ASSUME QueueOK, [Next]_vars
  PROVE  \/ [PublisherNext]_publisher
         \/ UNCHANGED <<status, quality, receivedAge, statusAge, runtimeTag,
                        announced, missed, sinkUp>>
<1>1. ASSUME NEW d \in Devices, Report(d)
      PROVE  UNCHANGED <<status, quality, receivedAge, statusAge, runtimeTag,
                         announced, missed, sinkUp>>
  BY <1>1 DEF Report
<1>2. CASE PublishOnce
  <2> DEFINE r == items[1].value
             e == r.device
  <2>1. /\ e \in Devices /\ r \in ResultsOf(e)
        /\ IF r.error THEN HandleError(e) ELSE HandleRead(e, ReadMap(r))
    BY <1>2, TakenFacts DEF PublishOnce
  <2> HIDE DEF e, r
  <2>2. DOMAIN ReadMap(r) \in SUBSET TagsOf(e) /\ ReadMap(r) \in [DOMAIN ReadMap(r) -> Quality]
    BY <2>1, ReadMapFacts
  <2> QED BY <2>1, <2>2 DEF PublisherNext
<1>3. CASE Cycle \/ Environment
  BY <1>3 DEF Cycle, Environment, PublisherNext
<1>4. CASE UNCHANGED vars
  BY <1>4 DEF vars
<1> QED BY <1>1, <1>2, <1>3, <1>4 DEF Next
(* What a report of d leaves of the queue: what it held of other devices,  *)
(* in its order, and the entries of the report last.                       *)
LEMMA ReportedQueue ==
  ASSUME QueueOK, NEW d \in Devices, NEW r \in ResultsOf(d), items' = PutResult(items, r)
  PROVE  /\ QueueOK'
         /\ Supersedes(Entries, items, Split(r), items')
         /\ \A i \in DOMAIN items : \E j \in DOMAIN items' : items'[j].key = items[i].key
         /\ \A i \in DOMAIN items' :
              \/ \E j \in DOMAIN Split(r) : items'[i] = Split(r)[j]
              \/ /\ items'[i].key \notin KeysOf(Split(r))
                 /\ \E j \in DOMAIN items : items'[i] = items[j]
         /\ \A i \in DOMAIN items : items[i].value.device # d =>
              \E j \in DOMAIN items' : items'[j] = items[i]
<1> DEFINE es == Split(r)
           new == items'
<1>1. /\ es \in Seq(Entries) /\ items \in Seq(Entries)
      /\ \A j \in DOMAIN es : es[j].value.device = d
  BY SplitFacts, DeviceTagsAssumption DEF QueueOK
<1>2. Supersedes(Entries, items, es, new)  BY <1>1, PutSupersedes DEF QueueOK
<1>3. QueueOK'  BY <1>2 DEF Supersedes, QueueOK
<1> HIDE DEF es, new
<1>4. ASSUME NEW i \in DOMAIN items  PROVE \E j \in DOMAIN new : new[j].key = items[i].key
  <2>1. CASE items[i].key \in KeysOf(es)
    BY <1>2, <2>1 DEF Supersedes, KeysOf
  <2>2. CASE items[i].key \notin KeysOf(es)
    BY <1>2, <2>2 DEF Supersedes
  <2> QED BY <2>1, <2>2
<1>5. ASSUME NEW i \in DOMAIN items, items[i].value.device # d
      PROVE  \E j \in DOMAIN new : new[j] = items[i]
  <2>1. items[i] \in Entries /\ \A j \in DOMAIN es : es[j] \in Entries  BY <1>1
  <2>2. items[i].key[1] # d /\ \A j \in DOMAIN es : es[j].key[1] = d
    BY <1>1, <1>5, <2>1, EntryFacts, DeviceTagsAssumption
  <2>3. items[i].key \notin KeysOf(es)  BY <2>2 DEF KeysOf
  <2> QED BY <1>2, <2>3 DEF Supersedes
<1>6. ASSUME NEW i \in DOMAIN new
      PROVE  \/ \E j \in DOMAIN es : new[i] = es[j]
             \/ new[i].key \notin KeysOf(es) /\ \E j \in DOMAIN items : new[i] = items[j]
  BY <1>2 DEF Supersedes
<1> QED BY <1>2, <1>3, <1>4, <1>5, <1>6 DEF es, new

(* The keys of a report are its tags', or that of the whole device.        *)
LEMMA ReportedEntries ==
  ASSUME NEW d \in Devices, NEW r \in ResultsOf(d)
  PROVE  /\ \A t \in DOMAIN ReadMap(r) : <<d, t>> \in KeysOf(Split(r))
         /\ \A j \in DOMAIN Split(r) : Split(r)[j].value.tags # <<>> =>
              /\ Split(r)[j].value.tags[1].tag \in DOMAIN ReadMap(r)
              /\ Split(r)[j].value.tags[1].quality = ReadMap(r)[Split(r)[j].value.tags[1].tag]
         /\ Split(r) # <<>> /\ Len(Split(r)) \in DOMAIN Split(r)
         /\ Agrees(Summary(r), Split(r)[Len(Split(r))].value)
<1> DEFINE es == Split(r)
           n == Len(es)
           T == [tag : TagsOf(d), quality : Quality]
<1>1. /\ es \in Seq(Entries) /\ es # <<>>
      /\ r.tags = <<>> => es = <<[key |-> <<d, Result>>, value |-> r]>>
      /\ r.tags # <<>> =>
           /\ n = Len(r.tags) /\ ~r.error
           /\ \A i \in DOMAIN es : /\ es[i].key = <<d, r.tags[i].tag>>
                                   /\ es[i].value.tags = <<r.tags[i]>>
                                   /\ ~es[i].value.error
  BY SplitFacts, DeviceTagsAssumption
<1>2. r.tags \in Seq(T) /\ r.error \in BOOLEAN /\ (r.error => r.tags = <<>>)
  BY ResultFacts, DeviceTagsAssumption
<1>3. /\ DOMAIN ReadMap(r) = {r.tags[i].tag : i \in DOMAIN r.tags}
      /\ \A i \in DOMAIN r.tags : ReadMap(r)[r.tags[i].tag] = r.tags[i].quality
  BY ReadMapFacts
<1> HIDE DEF T
<1>4. CASE r.tags = <<>>
  <2>1. /\ es = <<[key |-> <<d, Result>>, value |-> r]>> /\ DOMAIN ReadMap(r) = {}
        /\ QualitiesIn(r) = {}
    BY <1>1, <1>3, <1>4 DEF QualitiesIn
  <2>2. n = 1 /\ DOMAIN es = {1} /\ es[1].value = r  BY <2>1
  <2> HIDE DEF es
  <2>3. Agrees(Summary(r), r)
    BY <1>4, <2>1, <1>2 DEF Agrees, Summary
  <2> QED BY <1>1, <1>4, <2>1, <2>2, <2>3 DEF es
<1>5. CASE r.tags # <<>>
  <2>1. DOMAIN es = 1 .. n /\ DOMAIN r.tags = 1 .. n /\ n \in 1 .. n
    <3>1. Len(es) \in Nat \ {0} /\ DOMAIN es = 1 .. Len(es)  BY <1>1
    <3>2. DOMAIN r.tags = 1 .. Len(r.tags)  BY <1>2
    <3> HIDE DEF es
    <3> QED BY <1>1, <1>5, <3>1, <3>2
  <2> HIDE DEF es, n
  <2>2. \A i \in DOMAIN es : /\ es[i].key = <<d, r.tags[i].tag>>
                             /\ es[i].value.tags[1] = r.tags[i] /\ es[i].value.tags # <<>>
                             /\ ~es[i].value.error
    BY <1>1, <1>5 DEF es
  <2>3. \A t \in DOMAIN ReadMap(r) : <<d, t>> \in KeysOf(es)
    BY <2>1, <2>2, <1>3 DEF KeysOf
  <2>4. \A j \in DOMAIN es : /\ es[j].value.tags[1].tag \in DOMAIN ReadMap(r)
                             /\ es[j].value.tags[1].quality = ReadMap(r)[es[j].value.tags[1].tag]
    BY <2>1, <2>2, <1>3
  <2>5. Agrees(Summary(r), es[n].value)
    <3>1. r.tags[n].quality \in QualitiesIn(r) /\ ~r.error
      BY <2>1, <1>1, <1>5 DEF QualitiesIn, es, n
    <3>2. r.tags[n].quality \in Quality
      <4>1. r.tags[n] \in T  BY <1>2, <2>1
      <4> QED BY <4>1 DEF T
    <3>3. Summary(r) = "good" => r.tags[n].quality = "good"
      BY <3>1, <3>2 DEF Summary, Quality
    <3>4. Summary(r) = "bad" => r.tags[n].quality = "bad"
      BY <3>1, <3>2 DEF Summary, Quality
    <3>5. Summary(r) # "error"  BY <3>1 DEF Summary
    <3> QED BY <2>1, <2>2, <3>3, <3>4, <3>5 DEF Agrees
  <2> QED BY <1>1, <2>1, <2>3, <2>4, <2>5 DEF es, n
<1> QED BY <1>4, <1>5
(* A tag is of one device.                                                 *)
LEMMA OtherTagsUnread ==
  ASSUME NEW d \in Devices, NEW r \in ResultsOf(d), NEW e \in Devices, e # d, NEW t \in TagsOf(e)
  PROVE  t \in Tags /\ t \notin DOMAIN ReadMap(r)
BY ReadMapFacts, TagsOfDevices

(* A report leaves behind the entries of its device that it supersedes,    *)
(* and the latest entry of every other device stays its latest.            *)
LEMMA ReportKeepsPath ==
  ASSUME PathInv, NEW d \in Devices, Report(d)
  PROVE  PathInv'
<1>1. PICK r \in ResultsOf(d) :
        /\ items' = PutResult(items, r)
        /\ lastPut' = [lastPut EXCEPT ![d] = Summary(r)]
        /\ lastRead' = Updated(lastRead, ReadMap(r))
        /\ UNCHANGED <<status, quality>>
  BY DEF Report
<1> DEFINE es == Split(r)
           new == items'
           read == ReadMap(r)
<1>2. /\ QueueOK' /\ items \in Seq(Entries) /\ Unique(items)
      /\ Supersedes(Entries, items, es, new)
      /\ \A i \in DOMAIN items : \E j \in DOMAIN new : new[j].key = items[i].key
      /\ \A i \in DOMAIN new :
           \/ \E j \in DOMAIN es : new[i] = es[j]
           \/ new[i].key \notin KeysOf(es) /\ \E j \in DOMAIN items : new[i] = items[j]
      /\ \A i \in DOMAIN items : items[i].value.device # d =>
           \E j \in DOMAIN new : new[j] = items[i]
  BY <1>1, ReportedQueue DEF PathInv, QueueOK
<1>3. /\ \A t \in DOMAIN read : <<d, t>> \in KeysOf(es)
      /\ \A j \in DOMAIN es : es[j].value.tags # <<>> =>
           /\ es[j].value.tags[1].tag \in DOMAIN read
           /\ es[j].value.tags[1].quality = read[es[j].value.tags[1].tag]
      /\ es # <<>> /\ Len(es) \in DOMAIN es
      /\ Agrees(Summary(r), es[Len(es)].value)
  BY ReportedEntries
<1>4. \A j \in DOMAIN es : es[j].value.device = d
  BY SplitFacts, DeviceTagsAssumption
<1>5. /\ read \in [DOMAIN read -> Quality] /\ DOMAIN read \in SUBSET TagsOf(d)
      /\ TagsOf(d) \subseteq Tags
  BY ReadMapFacts, TagsOfDevices
<1>6. lastRead' = [t \in Tags |-> IF t \in DOMAIN read THEN read[t] ELSE lastRead[t]]
  BY <1>1 DEF Updated
<1> HIDE DEF es, new, read
<1>7. HistoryOK'
  <2>1. Summary(r) \in {"error", "good", "bad", "mixed"}  BY DEF Summary
  <2> QED BY <1>1, <1>5, <1>6, <2>1 DEF PathInv, HistoryOK
<1>8. ASSUME NEW i \in DOMAIN new
      PROVE  new[i] \in Entries /\ (new[i].value.tags # <<>> =>
               /\ new[i].value.tags[1].tag \in TagsOf(new[i].value.device)
               /\ new[i].value.tags[1].tag \in Tags
               /\ new[i].key = <<new[i].value.device, new[i].value.tags[1].tag>>)
  <2>1. new[i] \in Entries  BY <1>2 DEF QueueOK, new
  <2> QED BY <2>1, EntryFacts, DeviceTagsAssumption, TagsOfDevices
<1>9. QueuedQualities'
  <2> SUFFICES ASSUME NEW i \in DOMAIN new, new[i].value.tags # <<>>
               PROVE  new[i].value.tags[1].quality = lastRead'[new[i].value.tags[1].tag]
    BY DEF QueuedQualities, new
  <2>1. CASE \E j \in DOMAIN es : new[i] = es[j]
    BY <2>1, <1>3, <1>5, <1>6
  <2>2. CASE new[i].key \notin KeysOf(es) /\ \E j \in DOMAIN items : new[i] = items[j]
    <3> DEFINE t == new[i].value.tags[1].tag
               e == new[i].value.device
    <3>1. t \in TagsOf(e) /\ t \in Tags /\ new[i].key = <<e, t>>  BY <1>8
    <3>2. new[i].value.tags[1].quality = lastRead[t]
      BY <2>2 DEF PathInv, QueuedQualities
    <3>3. t \notin DOMAIN read
      <4>1. CASE e = d  BY <4>1, <2>2, <3>1, <1>3
      <4>2. CASE e # d
        <5>1. e \in Devices  BY <1>8, EntryFacts, DeviceTagsAssumption
        <5> QED BY <5>1, <4>2, <3>1, OtherTagsUnread DEF read
      <4> QED BY <4>1, <4>2
    <3> QED BY <3>1, <3>2, <3>3, <1>6
  <2> QED BY <2>1, <2>2, <1>2
<1>10. UnqueuedQualities'
  <2> SUFFICES ASSUME NEW e \in Devices, NEW t \in TagsOf(e),
                      \A i \in DOMAIN new : new[i].key # <<e, t>>
               PROVE  quality'[t] = lastRead'[t]
    BY DEF UnqueuedQualities, new
  <2>1. \A i \in DOMAIN items : items[i].key # <<e, t>>  BY <1>2
  <2>2. quality[t] = lastRead[t]  BY <2>1 DEF PathInv, UnqueuedQualities
  <2>3. t \notin DOMAIN read
    <3>1. CASE e = d
      <4>1. <<d, t>> \notin KeysOf(es)  BY <3>1, <1>2 DEF Supersedes, KeysOf
      <4> QED BY <4>1, <1>3
    <3>2. CASE e # d  BY <3>2, OtherTagsUnread DEF read
    <3> QED BY <3>1, <3>2
  <2>4. t \in Tags  BY TagsOfDevices
  <2> QED BY <1>1, <1>6, <2>2, <2>3, <2>4
<1>11. LastEntries'
  <2> SUFFICES ASSUME NEW i \in DOMAIN new, LastOf(new, i)
               PROVE  Agrees(lastPut'[new[i].value.device], new[i].value)
    BY DEF LastEntries, new
  <2>1. /\ new \in Seq(Entries) /\ Len(new) \in DOMAIN new /\ new[Len(new)] = es[Len(es)]
        /\ Unique(new)
    <3>1. new \in Seq(Entries) /\ new # <<>> /\ new[Len(new)] = es[Len(es)] /\ Unique(new)
      BY <1>2, <1>3 DEF Supersedes
    <3> QED BY <3>1
  <2>2. CASE new[i].value.device = d
    <3>1. new[Len(new)].value.device = d  BY <2>1, <1>3, <1>4
    <3>2. ~(i < Len(new))  BY <2>1, <2>2, <3>1 DEF LastOf
    <3>3. i = Len(new)  BY <2>1, <3>2
    <3>4. lastPut'[d] = Summary(r)  BY <1>1 DEF PathInv, HistoryOK
    <3> QED BY <2>1, <2>2, <3>3, <3>4, <1>3
  <2>3. CASE new[i].value.device # d
    <3> DEFINE e == new[i].value.device
    <3>1. new[i].key \notin KeysOf(es)  BY <2>3, <1>2, <1>4
    <3>2. PICK k \in DOMAIN items : items[k] = new[i]  BY <2>3, <1>2, <1>4
    <3>3. LastOf(items, k)
      <4> SUFFICES ASSUME NEW l \in DOMAIN items, k < l, items[l].value.device = e
                   PROVE  FALSE
        BY <3>2 DEF LastOf
      <4>1. PICK m \in DOMAIN new : new[m] = items[l]  BY <2>3, <1>2
      <4>2. ~(i < m)  BY <4>1 DEF LastOf
      <4>3. m # i  BY <4>1, <3>2, <1>2 DEF Unique
      <4>4. m < i  BY <4>2, <4>3, <2>1
      <4>5. PICK a \in DOMAIN items, b \in DOMAIN items :
              a < b /\ items[a] = new[m] /\ items[b] = new[i]
        BY <4>4, <3>1, <1>2 DEF Supersedes
      <4>6. a = l /\ b = k  BY <4>1, <4>5, <3>2, <1>2 DEF Unique
      <4> QED BY <4>5, <4>6, <1>2
    <3>4. Agrees(lastPut[e], new[i].value)  BY <3>2, <3>3 DEF PathInv, LastEntries
    <3>5. lastPut'[e] = lastPut[e]  BY <1>1, <2>3 DEF PathInv, HistoryOK
    <3> QED BY <3>4, <3>5
  <2> QED BY <2>2, <2>3
<1>12. SettledStatuses'
  <2> SUFFICES ASSUME NEW e \in Devices, Settled(e)'
               PROVE  /\ Settled(e) /\ lastPut'[e] = lastPut[e] /\ status'[e] = status[e]
    BY DEF PathInv, SettledStatuses
  <2>1. \A i \in DOMAIN new : new[i].value.device # e
    BY DEF Settled, EntriesOf, new
  <2>2. e # d
    <3>1. new # <<>> /\ new[Len(new)] = es[Len(es)] /\ new \in Seq(Entries)
      BY <1>2, <1>3 DEF Supersedes
    <3>2. Len(new) \in DOMAIN new  BY <3>1
    <3> QED BY <3>1, <3>2, <2>1, <1>3, <1>4
  <2>3. \A i \in DOMAIN items : items[i].value.device # e  BY <2>1, <2>2, <1>2
  <2>4. Settled(e)  BY <2>3 DEF Settled, EntriesOf
  <2>5. lastPut'[e] = lastPut[e]  BY <1>1, <2>2 DEF PathInv, HistoryOK
  <2> QED BY <1>1, <2>4, <2>5
<1> QED BY <1>2, <1>7, <1>9, <1>10, <1>11, <1>12 DEF PathInv
(* publish_once() makes of the entry that it takes what the history says:  *)
(* its quality enters the cache, and when no newer one of the device is    *)
(* left, the status is that of the latest result.                          *)
LEMMA PublishOnceKeepsPath ==
  ASSUME PublisherTypeOK, PathInv, PublishOnce
  PROVE  PathInv'
<1> DEFINE q == items
           new == items'
           r == items[1].value
           d == r.device
<1>1. /\ 1 \in DOMAIN q /\ Head(q) = q[1] /\ q[1] \in Entries
      /\ d \in Devices /\ r \in ResultsOf(d)
  BY TakenFacts DEF PublishOnce, PathInv
<1>2. /\ new = Tail(q) /\ lastPut' = lastPut /\ lastRead' = lastRead
      /\ IF r.error THEN HandleError(d) ELSE HandleRead(d, ReadMap(r))
  BY <1>1 DEF PublishOnce
<1>3. /\ new \in Seq(Entries) /\ Unique(new)
      /\ \A i \in DOMAIN new : i + 1 \in DOMAIN q /\ new[i] = q[i + 1]
      /\ \A i \in DOMAIN q \ {1} : i - 1 \in DOMAIN new /\ new[i - 1] = q[i]
      /\ \A i \in DOMAIN q \ {1} : 1 < i /\ q[i].key # q[1].key
      /\ DOMAIN q \subseteq Nat /\ DOMAIN new \subseteq Nat
  <2>1. q \in Seq(Entries) /\ Unique(q) /\ q # <<>>
    BY DEF PublishOnce, PathInv, QueueOK
  <2>2. DOMAIN q \subseteq Nat  BY <2>1
  <2>3. new \in Seq(Entries)  BY <1>2, <2>1, TailFacts
  <2>4. DOMAIN new \subseteq Nat  BY <2>3
  <2> HIDE DEF q, new
  <2> QED BY <1>2, <2>1, <2>2, <2>3, <2>4, TailFacts
<1>4. /\ r.tags = <<>> => q[1].key = <<d, Result>>
      /\ r.tags # <<>> => /\ ~r.error /\ DOMAIN r.tags = {1}
                          /\ r.tags[1].tag \in TagsOf(d) /\ r.tags[1].tag \in Tags
                          /\ q[1].key = <<d, r.tags[1].tag>>
  BY <1>1, EntryFacts, DeviceTagsAssumption, TagsOfDevices
<1>5. /\ DOMAIN ReadMap(r) = {r.tags[i].tag : i \in DOMAIN r.tags}
      /\ \A i \in DOMAIN r.tags : ReadMap(r)[r.tags[i].tag] = r.tags[i].quality
  BY <1>1, ReadMapFacts
<1>6. \A j \in DOMAIN q : q[j].value.tags # <<>> => q[j].value.tags[1].quality = lastRead[q[j].value.tags[1].tag]
  BY DEF PathInv, QueuedQualities
<1> HIDE DEF q, new, r, d
<1>7. QueueOK' /\ HistoryOK'
  BY <1>2, <1>3 DEF PathInv, QueueOK, HistoryOK, new
<1>8. QueuedQualities'
  BY <1>2, <1>3, <1>6 DEF QueuedQualities, new
<1>9. quality' = IF r.error THEN quality ELSE Updated(quality, ReadMap(r))
  BY <1>2 DEF HandleError, HandleRead
<1>10. UnqueuedQualities'
  <2> SUFFICES ASSUME NEW e \in Devices, NEW t \in TagsOf(e),
                      \A i \in DOMAIN new : new[i].key # <<e, t>>
               PROVE  quality'[t] = lastRead[t]
    BY <1>2 DEF UnqueuedQualities, new
  <2>1. t \in Tags  BY TagsOfDevices
  <2>2. CASE q[1].key = <<e, t>>
    <3>1. t # Result  BY <2>1, DeviceTagsAssumption
    <3>2. r.tags # <<>> /\ t = r.tags[1].tag  BY <2>2, <3>1, <1>4
    <3>3. r.tags[1].quality = lastRead[t]  BY <3>2, <1>1, <1>6 DEF r, q
    <3>4. t \in DOMAIN ReadMap(r) /\ ReadMap(r)[t] = r.tags[1].quality  BY <3>2, <1>4, <1>5
    <3> QED BY <2>1, <3>2, <3>3, <3>4, <1>4, <1>9 DEF Updated
  <2>3. CASE q[1].key # <<e, t>>
    <3>1. \A i \in DOMAIN q : q[i].key # <<e, t>>  BY <2>3, <1>3
    <3>2. quality[t] = lastRead[t]  BY <3>1 DEF PathInv, UnqueuedQualities, q
    <3>3. CASE r.error \/ t \notin DOMAIN ReadMap(r)
      BY <2>1, <3>2, <3>3, <1>9 DEF Updated
    <3>4. CASE ~r.error /\ t \in DOMAIN ReadMap(r)
      <4>1. r.tags # <<>> /\ t = r.tags[1].tag  BY <3>4, <1>4, <1>5
      <4>2. t \in TagsOf(d)  BY <4>1, <1>4
      <4>3. e = d  BY <4>2, <1>1, TagsOfDevices
      <4> QED BY <4>1, <4>3, <2>3, <1>4
    <3> QED BY <3>3, <3>4
  <2> QED BY <2>2, <2>3
<1>11. LastEntries'
  <2> SUFFICES ASSUME NEW i \in DOMAIN new, LastOf(new, i)
               PROVE  Agrees(lastPut[new[i].value.device], new[i].value)
    BY <1>2 DEF LastEntries, new
  <2>1. i + 1 \in DOMAIN q /\ q[i + 1] = new[i]  BY <1>3
  <2>2. ASSUME NEW j \in DOMAIN q, i + 1 < j
        PROVE  q[j].value.device # q[i + 1].value.device
    <3>1. j # 1 /\ i < j - 1  BY <2>2, <1>3
    <3>2. j - 1 \in DOMAIN new /\ new[j - 1] = q[j]  BY <3>1, <1>3
    <3> QED BY <3>1, <3>2, <2>1 DEF LastOf
  <2> QED BY <2>1, <2>2 DEF PathInv, LastEntries, LastOf, q
<1>12. SettledStatuses'
  <2> SUFFICES ASSUME NEW e \in Devices, Settled(e)'
               PROVE  /\ lastPut[e] = "error" => status'[e] = "disconnected"
                      /\ lastPut[e] = "good" => status'[e] \in {"good", "stale"}
                      /\ lastPut[e] = "bad" => status'[e] = "bad"
    BY <1>2 DEF SettledStatuses
  <2> DEFINE st == IF r.error THEN "disconnected"
                   ELSE IF DOMAIN ReadMap(r) = {} \/ \E t \in DOMAIN ReadMap(r) : ReadMap(r)[t] = "good"
                   THEN "good" ELSE "bad"
  <2>1. status' = [status EXCEPT ![d] = st]
    BY <1>2 DEF HandleError, HandleRead, SetDeviceStatus
  <2>2. \A i \in DOMAIN new : new[i].value.device # e
    BY DEF Settled, EntriesOf, new
  <2>3. \A i \in DOMAIN q \ {1} : q[i].value.device # e  BY <2>2, <1>3
  <2>4. CASE e # d
    <3>1. \A i \in DOMAIN q : q[i].value.device # e  BY <2>3, <2>4 DEF d, r, q
    <3>2. Settled(e)  BY <3>1 DEF Settled, EntriesOf, q
    <3>3. status'[e] = status[e]  BY <2>1, <2>4 DEF PublisherTypeOK
    <3> QED BY <3>2, <3>3 DEF PathInv, SettledStatuses
  <2>5. CASE e = d
    <3>1. LastOf(q, 1)  BY <2>3, <2>5, <1>3 DEF LastOf, d, r, q
    <3>2. Agrees(lastPut[d], r)  BY <3>1, <1>1 DEF PathInv, LastEntries, q, r, d
    <3>3. status'[e] = st  BY <2>1, <2>5 DEF PublisherTypeOK
    <3>4. r.tags # <<>> =>
            /\ DOMAIN ReadMap(r) = {r.tags[1].tag}
            /\ ReadMap(r)[r.tags[1].tag] = r.tags[1].quality
      BY <1>4, <1>5
    <3>5. r.tags = <<>> => DOMAIN ReadMap(r) = {}  BY <1>5
    <3> QED BY <2>5, <3>2, <3>3, <3>4, <3>5 DEF Agrees
  <2> QED BY <2>4, <2>5
<1> QED BY <1>7, <1>8, <1>10, <1>11, <1>12 DEF PathInv

(* No other step reaches the queue or the cache, and none of them changes  *)
(* a status except from good to stale.                                     *)
LEMMA PathStep == PublisherTypeOK /\ PathInv /\ [Next]_vars => PathInv'
<1> SUFFICES ASSUME PublisherTypeOK, PathInv, [Next]_vars
             PROVE  PathInv'
  OBVIOUS
<1>1. ASSUME NEW d \in Devices, Report(d) PROVE PathInv'
  BY <1>1, ReportKeepsPath
<1>2. CASE PublishOnce
  BY <1>2, PublishOnceKeepsPath
<1>3. ASSUME UNCHANGED <<items, lastPut, lastRead, quality>>,
             \A d \in Devices : \/ status'[d] = status[d]
                                \/ status[d] = "good" /\ status'[d] = "stale"
      PROVE  PathInv'
  <2>1. SettledStatuses'
    BY <1>3 DEF PathInv, SettledStatuses, Settled, EntriesOf
  <2> QED BY <1>3, <2>1 DEF PathInv, QueueOK, HistoryOK, QueuedQualities, UnqueuedQualities,
                            LastEntries
<1>4. CASE Cycle
  <2>1. UNCHANGED <<items, lastPut, lastRead, quality>>
    BY <1>4 DEF Cycle, PublishCached
  <2>2. \A d \in Devices : \/ status'[d] = status[d]
                           \/ status[d] = "good" /\ status'[d] = "stale"
    BY <1>4 DEF Cycle, PublishCached, Silent
  <2> QED BY <1>3, <2>1, <2>2
<1>5. CASE Environment
  BY <1>3, <1>5 DEF Environment, Tick, ToggleSink
<1>6. CASE UNCHANGED vars
  BY <1>3, <1>6 DEF vars, publisher
<1> QED BY <1>1, <1>2, <1>4, <1>5, <1>6 DEF Next
(* publish_cached() publishes data of devices that are good and not silent *)
(* only, and of their good tags; publish_once() publishes none.            *)
LEMMA LiveStep ==
  PublisherTypeOK /\ PathInv /\ OnlyLiveDataIsPublished /\ [Next]_vars
    => OnlyLiveDataIsPublished'
<1> SUFFICES ASSUME PublisherTypeOK, PathInv, OnlyLiveDataIsPublished, [Next]_vars
             PROVE  OnlyLiveDataIsPublished'
  OBVIOUS
<1>1. ASSUME \A m \in sent' : m.kind = "status"  PROVE OnlyLiveDataIsPublished'
  BY <1>1 DEF OnlyLiveDataIsPublished
<1>2. ASSUME NEW d \in Devices, NEW st, NEW seen, NEW shown, SetDeviceStatus(d, st, seen, shown)
      PROVE  \A m \in sent' : m.kind = "status"
  BY <1>2, StatusMessagesProper DEF SetDeviceStatus, Publish, Delivery
<1>3. CASE PublishOnce
  <2>1. PICK d \in Devices : HandleError(d) \/ \E read : HandleRead(d, read)
    BY <1>3, TakenFacts DEF PublishOnce, PathInv
  <2>2. \E st, seen, shown : SetDeviceStatus(d, st, seen, shown)
    BY <2>1 DEF HandleError, HandleRead
  <2> QED BY <1>1, <1>2, <2>2
<1>4. CASE Cycle
  <2> DEFINE stale == {d \in Devices : Silent(d)}
             repeated == {d \in Devices : RepeatsStatus(d)}
             live == {d \in Devices : status[d] = "good"} \ stale
  <2>1. /\ sent' = (UNION {StatusMessages(d, quality, "stale") : d \in stale \cup repeated})
                     \cup (UNION {CachedMessages(d) : d \in live})
        /\ UNCHANGED <<items, lastPut, lastRead, receivedAge>>
    BY <1>4 DEF Cycle, PublishCached, Publish, Delivery
  <2> SUFFICES ASSUME NEW m \in sent', m.kind = "data"
               PROVE  /\ StaleTimeout > 0 => receivedAge[m.device] < StaleTimeout
                      /\ lastPut[m.device] = "error" => ~Settled(m.device)
                      /\ \A t \in m.on : lastRead[t] = "good" \/ ~Settled(m.device)
    BY <2>1 DEF OnlyLiveDataIsPublished, Settled, EntriesOf
  <2>2. \A d \in Devices : \A n \in StatusMessages(d, quality, "stale") : n.kind = "status"
    BY StatusMessagesProper
  <2>3. PICK d \in live : m \in CachedMessages(d)
    BY <2>1, <2>2
  <2>4. /\ m.device = d
        /\ \A t \in m.on : t \in TagsOf(d) /\ quality[t] = "good"
    BY <2>3 DEF CachedMessages, DataMessage, StatusMessage, Cached
  <2>5. status[d] = "good" /\ d \in Devices /\ ~Silent(d)
    OBVIOUS
  <2>6. StaleTimeout > 0 => receivedAge[d] < StaleTimeout
    <3>1. receivedAge[d] \in Int /\ StaleTimeout \in Nat
      BY <2>5, PublisherAssumption DEF PublisherTypeOK, Never
    <3> QED BY <2>5, <3>1 DEF Silent
  <2>7. lastPut[d] = "error" => ~Settled(d)
    BY <2>5 DEF PathInv, SettledStatuses
  <2>8. ASSUME NEW t \in m.on, Settled(d)  PROVE lastRead[t] = "good"
    <3>1. \A i \in DOMAIN items : items[i].key # <<d, t>>
      <4>1. ASSUME NEW i \in DOMAIN items  PROVE items[i].key[1] # d
        <5>1. items[i] \in Entries  BY DEF PathInv, QueueOK
        <5>2. items[i].value.device # d  BY <2>8 DEF Settled, EntriesOf
        <5> QED BY <5>1, <5>2, EntryFacts, DeviceTagsAssumption
      <4> QED BY <4>1
    <3> QED BY <2>4, <2>5, <3>1 DEF PathInv, UnqueuedQualities
  <2> QED BY <2>4, <2>6, <2>7, <2>8
<1>5. CASE Environment \/ \E d \in Devices : Report(d)
  BY <1>1, <1>5 DEF Environment, Tick, ToggleSink, Report
<1>6. CASE UNCHANGED vars
  BY <1>6 DEF vars, publisher, OnlyLiveDataIsPublished, Settled, EntriesOf
<1> QED BY <1>3, <1>4, <1>5, <1>6 DEF Next

(* The inductive invariant of the data path.                               *)
GatewayInv == /\ PublisherTypeOK /\ PathInv
              /\ AnnouncedInv /\ RuntimeTagsShowOffline
              /\ OnlyLiveDataIsPublished

LEMMA GatewayInit == Init => GatewayInv
<1> SUFFICES ASSUME Init  PROVE GatewayInv
  OBVIOUS
<1>1. PublisherTypeOK /\ RuntimeTagsShowOffline /\ OnlyLiveDataIsPublished
  BY PublisherAssumption
     DEF Init, PublisherInit, PublisherTypeOK, RuntimeTagsShowOffline, OnlyLiveDataIsPublished,
         Status, Never
<1>2. AnnouncedInv
  BY TagsOfDevices DEF Init, PublisherInit, AnnouncedInv, OfflineIsAnnounced, OfflineStatus
<1>3. items = <<>> /\ DOMAIN items = {}
  BY DEF Init
<1>4. QueueOK /\ QueuedQualities /\ LastEntries
  BY <1>3 DEF QueueOK, Unique, QueuedQualities, LastEntries
<1>5. HistoryOK /\ UnqueuedQualities /\ SettledStatuses
  BY TagsOfDevices DEF Init, PublisherInit, HistoryOK, UnqueuedQualities, SettledStatuses
<1> QED BY <1>1, <1>2, <1>4, <1>5 DEF GatewayInv, PathInv

LEMMA GatewayStep == GatewayInv /\ [Next]_vars => GatewayInv'
<1> SUFFICES ASSUME GatewayInv, [Next]_vars  PROVE GatewayInv'
  OBVIOUS
<1>1. PathInv' /\ OnlyLiveDataIsPublished'
  BY PathStep, LiveStep DEF GatewayInv
<1>2. CASE [PublisherNext]_publisher
  BY <1>1, <1>2, PublisherTypeStep, AnnouncedStep, RuntimeTagsStep DEF GatewayInv
<1>3. CASE UNCHANGED <<status, quality, receivedAge, statusAge, runtimeTag,
                       announced, missed, sinkUp>>
  BY <1>1, <1>3
     DEF GatewayInv, PublisherTypeOK, AnnouncedInv, OfflineIsAnnounced, RuntimeTagsShowOffline, Cached
<1> QED BY <1>2, <1>3, StepIsPublisherStep DEF GatewayInv, PathInv

LEMMA GatewayAlways == Spec => []GatewayInv
BY GatewayInit, GatewayStep, PTL DEF Spec

(* The queue holds entries of the configured devices and their tags, and   *)
(* every variable of the publisher keeps its type.                         *)
THEOREM GatewayTypeCorrect == Spec => []TypeOK
<1>1. GatewayInv => TypeOK
  <2> SUFFICES ASSUME GatewayInv  PROVE TypeOK
    OBVIOUS
  <2>1. ASSUME NEW i \in DOMAIN items
        PROVE  /\ items[i].key \in Devices \X (Tags \cup {Result})
               /\ items[i].value.device = items[i].key[1]
    <3>1. items[i] \in Entries  BY DEF GatewayInv, PathInv, QueueOK
    <3>2. /\ items[i].value.device \in Devices /\ items[i].key[1] = items[i].value.device
          /\ \/ items[i].key = <<items[i].value.device, Result>>
             \/ /\ items[i].key = <<items[i].value.device, items[i].value.tags[1].tag>>
                /\ items[i].value.tags[1].tag \in TagsOf(items[i].value.device)
      BY <3>1, EntryFacts, DeviceTagsAssumption
    <3>3. items[i].value.tags[1].tag \in TagsOf(items[i].value.device)
            => items[i].value.tags[1].tag \in Tags
      BY <3>2, TagsOfDevices
    <3> QED BY <3>2, <3>3
  <2> QED BY <2>1 DEF GatewayInv, PathInv, HistoryOK, TypeOK
<1> QED BY <1>1, GatewayAlways, PTL

(* publish_once() never applies an older result of a device over a newer   *)
(* one, whatever the workers report while the queue is not empty.          *)
THEOREM SettledIsLatest == Spec => []SettledStatusIsLatest
<1>1. GatewayInv => SettledStatusIsLatest
  <2> SUFFICES ASSUME GatewayInv, NEW d \in Devices, Settled(d)
               PROVE  \A t \in TagsOf(d) : quality[t] = lastRead[t]
    BY DEF GatewayInv, PathInv, SettledStatuses, SettledStatusIsLatest
  <2>1. ASSUME NEW i \in DOMAIN items  PROVE items[i].key[1] # d
    <3>1. items[i] \in Entries  BY DEF GatewayInv, PathInv, QueueOK
    <3>2. items[i].value.device # d  BY DEF Settled, EntriesOf
    <3> QED BY <3>1, <3>2, EntryFacts, DeviceTagsAssumption
  <2>2. \A t : \A i \in DOMAIN items : items[i].key # <<d, t>>
    BY <2>1
  <2> QED BY <2>2 DEF GatewayInv, PathInv, UnqueuedQualities
<1> QED BY <1>1, GatewayAlways, PTL

(* publish_cached() publishes values of live devices only, whatever the    *)
(* queue still holds.                                                      *)
THEOREM OnlyLiveData == Spec => []OnlyLiveDataIsPublished
<1>1. GatewayInv => OnlyLiveDataIsPublished
  BY DEF GatewayInv
<1> QED BY <1>1, GatewayAlways, PTL

(* Fed by the queue, too, the publisher announces every offline device to  *)
(* its subscribers and to the UI.                                          *)
THEOREM GatewayTellsOffline == Spec => [](OfflineIsAnnounced /\ RuntimeTagsShowOffline)
<1>1. GatewayInv => OfflineIsAnnounced /\ RuntimeTagsShowOffline
  BY DEF GatewayInv, AnnouncedInv
<1> QED BY <1>1, GatewayAlways, PTL
==============================================================================

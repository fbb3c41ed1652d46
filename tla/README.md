# Industrial gateway: TLA+ specification

This directory specifies, model-checks and proves properties of the industrial
gateway in `src/src/industrial_gateway/`: a daemon that reads tags from
industrial devices (Modbus, OPC UA, MQTT), keeps their latest values, and
publishes them to an MQTT broker or a database, under a web UI that configures,
starts and stops it.

Paths below are relative to `src/src/industrial_gateway/`.

## 1. The system

```
  web API threads ── start/stop ──> RuntimeManager ── starts, signals, joins ──> all threads
        │                                │
        │ drain_events                   │ topic refresh loop ──> ConfigService ──> MQTT topic request
        ▼                                ▼                              │
   status queue <── SinkPublisher <── latest-result queue <── workers (one per device)
                         │                                      │ DriverPoller ──> Modbus, OPC UA, RTU monitor
                         ▼                                      │ subscription worker ──> MQTT, OPC UA
                 MQTT broker / database
```

| component | state | operations | modelled by |
|---|---|---|---|
| latest-result queue (`services/runtime_manager.py` `_LatestReadResultQueue`) | an ordered dictionary of results by key, a condition variable | `put`, `get`, `get_nowait`, `empty` | `LatestReadResultQueue`, `LatestQueue`, `ReadResults` |
| sink publisher (`workers.py` `SinkPublisher`) | latest value of each tag, status and time stamps of each device | `publish_once`, `publish_cached` and what they call | `SinkPublisher`, `Gateway` |
| runtime manager (`services/runtime_manager.py` `RuntimeManager`) | running flag, lock, publisher, workers, refresh thread and its stop event | `start`, `stop`, `shutdown`; `drain_events`, `snapshot`, `set_health_interval` | `RuntimeManager` (start and stop), `StatusEvents` (events) |
| driver poller (`workers.py` `DriverPoller`) | stop event | `poll_once`, `run`, `stop` | `Gateway` (results), `RuntimeManager` (life) |
| subscription worker (`workers.py` `OpcUaSubscriptionWorker`) | driver, subscription flag, stop event | `start_once`, `run`, `_cleanup_driver`, `stop` | `SubscriptionWorker` |
| MQTT input driver (`drivers/mqtt.py`) | client, `emit`, `_connected` | connect, subscribe, stop, disconnect, and paho's callbacks | `MqttInputDriver` |
| Modbus drivers (`drivers/modbus.py`) | none between reads | `_plan_blocks`, `_read_block`, decoding | `ModbusBlocks` |
| latest-status queue, event drain (`services/runtime_manager.py`, `web/api.py`) | ordered dictionary, UI tag table, log lines | `put`, `drain_events` by each WebSocket client and status request, `snapshot` | `StatusEvents` |
| output routes and topics (`services/config_service.py`, `topic_request_client.py`, `topic_responder.py`) | routes with resolved topics, MAC mapping | save, delete, resolve, refresh, request, respond | `RouteTopics`, `TopicResponder` |
| configuration (`store.py`, `services/config_service.py`) | SQLite tables of devices, tags, routes, sinks | create, update, delete, CSV import | `ConfigStore` (devices and tags) |
| Modbus RTU monitor (`drivers/modbus_rtu_monitor.py`) | serial port, pending requests, pairs | capture, pairing, look-up of tags, probe | `RtuMonitor` |
| OPC UA driver (`drivers/opcua.py`) | client, asyncio loop, subscription | connect, read, subscribe, run | `OpcUaDriver` (subscriptions) |
| sinks (`sinks/*.py`) | connection | start, publish, stop | as up or down, in `SinkPublisher` |
| logging worker (`logging_worker.py`) | two queues | drain, write | display queue, in `StatusEvents` |
| web API, sessions, UI (`web/`) | sessions, sockets | request handlers | callers of start and stop, of events (`StatusEvents`), of saves (`ConfigStore`) |

### What is hard here

- **Threads.** Every worker, the publisher, the refresh loop, the logger, paho's
  network thread and every API call is a thread. Only start/stop and the two
  queues take locks; `emit`, `_connected`, `output_routes` and the worker lists
  are shared without one.
- **Joins that time out.** `stop()` waits two seconds for each thread and then
  forgets it, whatever the thread is doing.
- **Splitting and replacing.** A read of a device becomes one queue entry per
  tag, each of which may be replaced or taken at another time than its siblings.
- **Time.** Staleness, the repetition of statuses, publish intervals, retries.
- **Partial failure.** A tag, a response, a request, a message or a whole start
  may fail, and the rest goes on.

### What makes each component correct

- *Queue*: the newest content of every key is delivered, none is applied after a
  newer one, and nothing is stuck.
- *Publisher*: it publishes live data only, tells subscribers and the UI of every
  device that goes offline, and notices silence.
- *Runtime manager*: no thread escapes `stop()`, nothing in a running runtime has
  been told to stop, a stopped one is quiet, generations do not mix.
- *Subscription worker and driver*: sessions do not overlap, failures are
  reported and are the last word, the worker stops and recovers.
- *Modbus*: every tag is requested once, completely and within the limit, and
  gets its own registers.
- *Status queue*: the table of rows follows the latest update of each tag, a page
  shows it but for what another drain has taken, an older answer has covered or a
  restart has emptied, and draining ends.
- *Topics*: what a user saved is not lost to a refresh, and a route's topic is
  one the server gave for its MAC address.
- *Store*: names stay unique, every stored tag is valid for its driver, and what a
  file has imported stands, also when a later row fails.
- *RTU monitor*: a tag shows its own registers, unless the monitor has missed the
  request of an answer or the slave was late.

`PROJECT.json` lists the hazards line by line with the properties that cover them.

## 2. The modules

**`ReadResults`** holds devices, tags and `ReadResult`, and the data side of the
queue: `ResultsOf(d)` are the results a driver can give, an error or some of the
device's tags in their order (`Picks`); `Split` is `_split_items`, `Enqueue` is
the delete-and-insert on the `OrderedDict`, a sequence of entries, oldest first,
and `PutResult` the loop of `put` over the entries, a fold.

**`LatestQueue`** is the abstract promise: a mailbox with one place per key,
emptied oldest content first. **`LatestReadResultQueue`** is the code: `put` with
its single `notify`, `get` with its single `wait`, any number of consumers.
`ImplementsLatestQueue` is the refinement: the content of the mailbox (`Box`) and
the order of its places (`Order`) are read off the sequence.

**`SinkPublisher`** is the publisher's thread. Its variables are
`_device_statuses` (`status`, `statusAge`), `_latest` (`quality`,
`receivedAge`), what it put on the status queue (`runtimeTag`), what subscribers
heard (`announced`, `missed`), and the sink (`sinkUp`). `HandleError` and
`HandleRead` are the two outcomes of `publish_once`, `PublishCached` is
`publish_cached`; both call `SetDeviceStatus`. Time stamps are ages in ticks
that saturate at the timeout they are compared with. Tag values, topics and
payloads are left out: a tag is good or bad, and belongs to an output group.
**`Gateway`** composes it with workers (`Report`: any result the driver can
give) and the queue.

**`RuntimeManager`** has one generation per `start()` that gets past
`if self.running`. Each call is a sequence of steps under the lock (`pc`,
`lock`); the publisher, refresh loop and worker of each generation are small
state machines; `StartRaises` lets any call in `start()` after its first block
raise. A `join()` is over when it times out, so `stop()` never waits for a
thread; whether a thread has outlived it is recorded in `leftover`.
`Notified` is what `Event.set()` does to loops that are in `wait()`. The
subscription workers follow the same protocol as the pollers here. The topic
responder is not started (it is off unless the environment turns it on). `start()`
may leave no refresh loop, as with an interval that is not positive
(`StartRefresh`), and an exception of a refresh ends the loop (`RefreshRaises`).

**`MqttInputDriver`** has one action per operation and callback of the driver,
with paho's client as an external part: a connection that is dialled, answered,
lost and dialled again. **`OpcUaDriver`** is the other kind, with asyncua's client
as its external part: its asyncio loop only runs while the worker is in a call,
so what the server sends waits for the next call (`waiting`), those of the
clean-up included. **`SubscriptionWorker`** extends both with the worker's
`run()`; a device has one kind of driver, and `Call` is what either does in the
same call. With MQTT the worker's thread and paho's interleave between any two
actions; a message is received (`Received`) and handled (`Handled`) in two steps,
and `connect()` dials and sets `_connected` in two.

**`ModbusBlocks`** is `_plan_blocks` as one fold over the tags in the order in
which the code takes them (`Sorted`: the groups by their first tag, in a group by
address and then as in the list), then one request after the other with any
response: an error, or any number of items up to one more than asked. A tag that
does not `Fit` the last block, because its group is another, it is too far or the
limit is reached, begins the next. An item is its own address, so a result shows
which registers it was decoded from. Results are collected by tag name, as
`results_by_name` is.

**`TopicResponder`** is the server that knows the topics: the mapping in its
database, the copy it answers from, refreshed once per interval, and its thread,
which ends with the first database error. A MAC address without a place gets the
answer "Unknown MAC", which clients take as a topic. **`RouteTopics`** extends it
with the gateway's side. `rows` is the table `output_routes`; a row is the
settings a user chooses and the resolved topic. A topic is a record of the MAC
address it was given for and the place, which is what the text of the topic
says. `Create`, `Save`, `DeleteRoute` and `DeleteDevice` are the user's; a save
sends the topic that the form was loaded with (`form`). `job` is what each of two
resolvers, the refresh loop and the button of the form, does in
`resolve_output_route_topic`: `ReadRoute` reads the row, `Respond` is an answer
that everybody hears who has asked for the address, `WriteTopic` and `WriteError`
write the whole row back, and `Relist` reads the table again for the result.
Every call of the store is one transaction, and everything may happen between
two of them. `Raise` is an exception, which ends the loop's thread or the
button's request: of a row, a device or an address that is gone, or, at any point
of a round, of a call that raises by itself (`CallRaises`: the database, or a
setting that was saved and cannot be converted). `wanted`, `overlapped`,
`requested`, `carried`, `disturbed`, `failed` and `untouched` are history variables
that only properties read.

**`RtuMonitor`** is a bus on which another master reads slaves, and a driver that
only listens. A frame is the request or the answer of one of the master's reads;
any frame may be lost, any answer may come late or never, and the probe of the
device form takes frames from the driver (`ProbeHears`) and flushes the port
(`Flush`). `Pair` is one frame of `_drain_request_response_pairs`, eight-byte
answers included, which are taken for requests. A register is its address in the
read that answered, so `DecodedFrom` shows which one a tag is decoded from.
`late` and `unheard` are history.

**`StatusEvents`** is the way of a status to the browsers: `put` on the
latest-status queue, `drain_events` on the event loop (for one connection at a
time) and on the thread of each status request, and the rows a page shows.
`start()` is a step for each item it drops from the queue (`ClearStatuses`), one
for the rows of tags and one for those of servers (`EmptyTags`, `EmptyServers`),
and one for its answer; drains and workers of the last run go on between them.
Statuses, snapshots and answers are messages on their way. A page replaces its
rows by the snapshot of its WebSocket (`Receive`), by the status it asks for when
a user logs in, before it closes its WebSocket and asks for another (`Reconnect`),
and by what `start()` or `stop()` returns (`Render`). A handler whose connection is
gone drains on until it notices (`DrainForGone`). The tables are not locked: taking
an item and recording it are two steps, and so are seeing a log line and the
`get()` for it. `newest`, `crossed`, `missed`, `reset` and `since` are history.
`snapshot()` is one step, and a page has at most one request under way.

**`ConfigStore`** is the tables of devices and tags under requests on threads and
one CSV import on the event loop. `save_tag()` is three transactions (`Validate`,
`CheckName`, and `Insert` or `Update`), with everything else between them;
imports go row by row, with the index `known` that they read before the first.
A row that fails ends its request, or the import (`Fail`), and leaves the tables
alone. `outdated`, `raced`, `disturbed` and `kept` are history: which saves act on
something that has changed, and which rows imports have saved, until a request
changes them or the same place is imported again.

## 3. What the runs check

| run | module | states | shows |
|---|---|---|---|
| `gateway` | `MCGateway` | 91,064 | the data path from worker to sink, 4 safety and 2 liveness properties |
| `result_queue` | `MCLatestReadResultQueue` | 2,093 | the queue implements the mailbox, and nothing is stuck |
| `runtime` | `MCRuntimeManager` | 165,120 | concurrent start and stop, failed starts, late threads, failed refreshes |
| `mqtt_input` | `SubscriptionWorker` | 682 | worker, both kinds of driver, network thread and server |
| `modbus_blocks` | `MCModbusBlocks` | 334,361 | all tag lists of the bound, all responses |
| `route_topics` | `MCRouteTopics` | 545,292 | edits and resolvers race for the routes, calls raise |
| `rtu_monitor` | `MCRtuMonitor` | 1,843,524 | lost frames and late answers on the bus, a probe |
| `status_events` | `MCStatusEvents` | 986,197 | drains, restarts, requests and lost connections share one queue |
| `config_store` | `MCConfigStore` | 2,084,081 | saves, deletions and imports race for the store |
| `mixed_read` | `MCGateway` | – | **violated**: SESSION.md on mixed reads |
| `restart_refresh` | `MCRuntimeManager` | – | **violated**: the design document on duplicate workers |
| `mqtt_race` | `SubscriptionWorker` | – | **violated**: a test on disconnection |

The properties of each run, in the order that matters:

- `gateway`: `SettledStatusIsLatest` (results are applied in order),
  `OnlyLiveDataIsPublished`, `OfflineIsAnnounced` and `OfflineIsEventuallyHeard`
  (a subscriber never, and after failures of the sink not forever, sees a tag of
  an offline device on), `RuntimeTagsShowOffline`, `SilenceIsNoticed`.
- `result_queue`: `ImplementsLatestQueue`, `EntriesAreTaken`.
- `runtime`: `NoOrphans`, `RunningIsComplete` (every device has a worker, and no
  call of another client has told a part of the run to stop; the sink or the
  refresh loop may have failed by themselves), `OnlyLeftoversCross`,
  `StoppedGoesQuiet`. The first and the last are stated for histories without a
  failed `start()`: `start()` undoes nothing, and `stop()` returns at once when
  `running` was never set. `restart_refresh` is about refresh
  loops: the document speaks of worker sets, of which no second one is started
  (`NoOrphans`).
- `mqtt_input`: `SessionsAreSeparate`, `FailureIsTheLastWord`,
  `StoppedWorkerEnds`, `WorkerRecovers`. `FailureIsTheLastWord` leaves out OPC UA
  sessions that fail with data waiting or a server still up: the clean-up's own
  calls run the loop, and such data does come after the failure.
- `modbus_blocks`: `PlanCoversTags`, `PlanIsFrugal`, `TagsGetTheirOwnItems`.
- `route_topics`: `EditsAreLostOnlyToOverlap` (a save may be undone by a resolver
  that read the row before it, and by nothing else), `ForeignTopicsComeFromForms`
  (resolvers that hear each other's answers never mix addresses up; a form that
is saved with a new address does), `DeletedStaysDeleted`,
  `LoopDiesOnlyOfEditsOrErrors` (the refresh loop ends by a call that raises by
  itself, or by a deletion of what its round needs, and by nothing else) and
  `TopicsConverge`: after the last edit, and unless requests fail for ever, the
  routes get the topics of the database, and the running publisher uses them for
  the routes that `start()` gave it and nobody has edited. That edits reach the
  running publisher too is not promised: the design document excludes it (see below).
- `rtu_monitor`: `WrongRegistersNeedAMiss` (pairing by slave and function alone
  shows a tag the registers of another address, but only after a missed request
  or a late answer), `HeardTagsAreGood` (a read that was heard whole gives its
  tags their registers, unless another read of the same start is shorter than the
  tag or one before it ends within the tag).
- `status_events`: `RowsAreNewest` (a row is the newest status of its key that
  `start()` has not dropped, unless two threads held items of that key at once) and
  `ViewsMissOnlyTheDrained` (a page that is connected and has received everything
  shows the rows of the table, but for a status that another drain has taken or an
  older answer to a click has covered, and for a row that a restart has emptied, as
  long as it is empty). `missed` and `reset` are that precise: a key leaves them
  with the next status that is drained for the page, and all do with the next
  snapshot. `DrainsEnd` has the exception that `runtime_manager.py:204`
  makes: a `get()` without timeout for a line that another thread has taken, on the
  event loop or on a request's thread. The property excuses this deadlock; it says
  that there is no other.
- `config_store`: `NamesClashOnlyInRaces` (the store has no unique index: two
  saves may both find a name free, but nothing else makes two tags of one name),
  `TagsFitTheirDriver` (a tag that its driver cannot read comes from a change of
  the driver and from nothing else), `ImportedRowsStand` (the rows an import has
  saved are as in the file after every later row, the row that fails and the end
  included, until a request changes them or the same place is imported again).

Statements of the documents that the code does not keep, met while modelling and
not checked by runs of their own (the modules have the steps that lead there):

- A start that fails does not fail "as a single operation"
  (`2026-05-19-web-ui-daemon-design.md:123`). When `start()` raises after
  `runtime_manager.py:112` it undoes nothing, and `stop()` tells nobody
  (`StartRaises`). When the sink cannot be started (`workers.py:583`) the publisher's
  thread ends and `start()` returns all the same (`Connect`).
- "Configuration changes ... do not silently mutate running workers" (the same, line
  115): each refresh round ends by giving the running publisher all output routes as
  they are in the store by then (`runtime_manager.py:316`; `EndRound`).
- "broadcasts events through WebSocket" (the same, line 111): an event reaches one
  WebSocket client, or none when a status request drains it
  (`runtime_manager.py:193`; `Record`).
- The refresh loop does not "periodically refresh" topics for ever (`SESSION.md:95`):
  its thread ends with the first exception (`runtime_manager.py:326`; `Raise`,
  `RefreshRaises`). A route that is deleted while it is resolved is enough.
- A tag longer than the request limit is requested whole (`README.md:78`,
  `drivers/modbus.py:147`).

### Bounds, and why they are enough

- `gateway`: one device with two tags in two output groups, `StaleTimeout` 2 and
  `StatusInterval` 1 ticks. Devices share nothing in the publisher but the loop
  over them, and in the queue but the order; two tags make mixed reads, partial
  data changes and groups without a good tag; the stale timeout is longer than
  the status interval, so that a status can be repeated before and after it.
  The queue needs no bound: it holds at most one entry per key.
- `result_queue`: two devices, one without tags (whose error and whose empty
  read share a key), and two consumers, as after a join that timed out.
- `runtime`: two clients, one device, `MaxStarts` 2. Two clients are enough to
  race for the lock, two generations to mix; the device stands for the worker
  lists. The bound stops `start()`, so deadlock is not checked.
- `mqtt_input`: no bound; one device, with either kind of driver. A worker that has been stopped ends, so deadlock is
  not checked.
- `modbus_blocks`: up to three registers tags with addresses 0 to 5 and 1, 2 or
  5 items, a limit of 4 and a gap of 1, so that tags overlap, nest, touch, leave
  gaps and exceed the limit; coils with a second unit. Lists of three are by
  address, since the plan sorts them; lists of two come in both orders and with
  equal names. A read ends, so deadlock is not checked.
- `route_topics`: one route, one device, two MAC addresses that have no place at
  first and one change of the mapping, three settings (a dynamic route of the
  device, a route of all devices that is not dynamic, a dynamic one without
  address) and two edits; the route may be there at the start, so that a save can
  meet a resolver, be followed by a click, or be followed by a deletion. Routes share nothing but the loop's plan;
  the safety properties were also checked with two routes and two edits. When the
  loop has died and the edits are used up nothing is left to do, so deadlock is
  not checked.

- `rtu_monitor`: three reads of a slave (`MaxAsks`), so that a late answer can
  meet a later request and its answer; four kinds of reads that start at the same
  register, overlap, end within a tag, or have eight-byte answers; tags of one
  register, of two, and a coil. A history may end with the last read, so deadlock
  is not checked.
- `status_events`: a row of a tag and one of a server, since `start()` empties them
  one after the other; two statuses, since two threads must hold two items of a
  row to cross; one page, which also asks, starts and stops; one restart, one log line.
  What a handler drains for another page is, to this one, what its own earlier
  handler drains for a connection that is gone. The invariants were also checked
  with two pages and no log line (4,760,488 states). That two clients are never
  inside `start()` and `stop()` at once is in the model, and so in the proofs, for
  any number of them. The limit of 1,000 items per drain is out of reach. Deadlock is not checked: the wait for a line is one.
- `config_store`: two devices and two tags ever made, two groups, two kinds of
  drivers (interchangeable, hence the symmetry), one name of devices and of tags,
  files of two rows, one thread of requests next to the import, five requests: a
  device and a tag made, and three that race. Everything may end, so deadlock is
  not checked.

### Fairness

- The queue's consumers call `get` again and again (`SinkPublisher.run` does).
- The publisher's loop takes results and publishes once per interval; time
  passes. Workers are not fair: a device may be silent for ever.
- A call of `start` or `stop` that has begun goes on, and a thread that has been
  signalled leaves its poll, its resolver or its sink: every blocking call in
  them has a timeout. Nobody has to call anything.
- The subscription worker's thread runs, and so does paho's: a connection that
  is dialled is answered or lost. Failures stop only once `calm` is set, and
  only `WorkerRecovers` supposes that. paho waits at least a second before it
  dials again and the worker looks every 0.2 seconds; `Unnoticed` says so.
- OPC UA data, like MQTT messages, need not come; a server that notifies for ever
  does not keep the worker from its loop.
- In `status_events` the event loop and the threads of requests run; nobody has to
  connect, ask or send. `rtu_monitor` and `config_store` check no liveness.
- The refresh loop starts rounds, resolvers get on (their waits have timeouts),
  a responder that is up answers and refreshes its copy. `TopicsConverge` does
  not suppose that answers arrive in time: it is stated up to requests that fail
  again and again, and up to a loop or a responder that has died. Users and the
  database need not do anything.

## 4. What is proved

Every theorem is machine-checked for every value of the constants. The proofs
are kept in modules next to the components:

| module | theorems |
|---|---|
| `LatestReadResultQueueProofs` | `QueueImplementsMailbox` |
| `GatewayProofs` | of the publisher: `PublisherTypeCorrect`, `OfflineAnnounced`, `RuntimeTagsOffline`; of the path: `GatewayTypeCorrect`, `SettledIsLatest`, `OnlyLiveData`, `GatewayTellsOffline` |
| `RuntimeManagerProofs` | `RuntimeTypeCorrect`, `NoOrphansEver`, `RunningIsCompleteEver`, `OnlyLeftoversEverCross` |
| `RouteTopicsProofs` | `RoutesTypeCorrect`, `EditsLostOnlyToOverlap`, `LoopDeathsHaveCauses`, `ForeignTopicsAreFormTopics`, `DeletedRoutesStayDeleted` |
| `RtuMonitorProofs` | `RtuTypeCorrect`, `WrongRegistersOnlyAfterAMiss`, `HeardReadsServeTheirTags` |
| `ConfigStoreProofs` | `StoreTypeCorrect`, `ClashesNeedRaces`, `MisfitsNeedDriverChanges`, `ImportsStand` |
| `StatusEventsProofs` | `StatusTypeCorrect`, `RowsStayNewest`, `PagesMissOnlyTheDrained` |
| `DriverProofs` | of the Modbus reads: `EveryTagIsPlanned`, `PlanIsAlwaysFrugal`, `OwnItems`, `ReadsTypeCorrect`; of the subscription worker: `WorkerTypeCorrect`, `SessionsNeverOverlap`, `FailuresStayLast` |

With them every safety invariant and every action property of the passing runs is
a theorem. `GatewayProofs` takes its lemmas about `put` from
`LatestReadResultQueueProofs`; the definitions of queue and subscription worker
(`QueueSpec`, `WorkerSpec`) have names of their own so that they can stand beside
another component's. The inductive invariants were checked by TLC on the instances
of the runs before they were proved.

**Latest-result queue**, for any devices, tags and consumers, from
`DeviceTagsAssumption` and `QueueAssumption` (what stands for an empty place of
the mailbox is not a result): `QueueImplementsMailbox` is the refinement of
`LatestQueue`, initial states and every step. `PutSupersedes` says what the fold
of a `put` leaves behind: in front what was there under other keys, in its order,
and then one entry for each key that was written. It is an induction over the
entries of the result, carried out by the first entry that would break it
(`SmallestOf`: a set of naturals has a least member). That `CHOOSE` finds the
entry of a place needs that no key has two (`QueueInv`).

**Publisher** (`PublisherSpec`: any result of any device, any number of tags,
groups and ticks, a sink that fails at any message), from
`DeviceTagsAssumption` (a tag belongs to one device) and
`PublisherAssumption` (timeouts are naturals): `PublisherTypeCorrect`,
`OfflineAnnounced` and `RuntimeTagsOffline`. `RuntimeTagsShowOffline` is
inductive together with the types. `OfflineIsAnnounced` needs that a tag which
is not cached has never been heard of (`AnnouncedInv`), for a read may cache a
tag of a device that is already offline. The work is in `SetDeviceStatus`: every
cached tag of the device is in the status message of its group, so that messages
which are not refused overwrite what subscribers last heard, and no message of
another device is about it.

**The path from worker to sink** (`Gateway`'s `Spec`: worker, queue and publisher
together), from the same assumptions: `GatewayTypeCorrect`, `SettledIsLatest`,
`OnlyLiveData`, and `GatewayTellsOffline`, the two promises above for the results
that come through the queue. `SettledStatusIsLatest` speaks of a device of which
nothing is queued, so the invariant `PathInv` says what the queue holds before: an
entry of a tag has the quality that was read last (`QueuedQualities`), a tag whose
cached quality is older has an entry (`UnqueuedQualities`), and the entry of a
device nearest to the end tells what its latest result amounts to
(`LastEntries`); the status is then right when that entry is taken
(`SettledStatuses`). `put` keeps `LastEntries` because it writes behind everything
else, `get` because it takes the first entry. For `OnlyLiveDataIsPublished` the
stale timeout runs before the values go out.

**Runtime manager**, for any number of clients, devices and starts, from
`RuntimeAssumption`: `RuntimeTypeCorrect`, `NoOrphansEver`,
`RunningIsCompleteEver` and `OnlyLeftoversEverCross`. The invariant `IInv` adds to the types what the code
relies on at each phase of the holder of the lock: `LockInv` (only the holder is
inside `start` or `stop`), `GenerationInv` (a generation that has not begun has
no thread and no stop event set), `FreshInv` (what a `start` in progress has yet
to do, it has not done), `CompleteInv` (what it has done stays done until `stop`
undoes it) and `ToldInv` (nobody is active whom `stop` would not tell, and
outside a run nobody is active at all). `NoOrphans` alone is not inductive:
`start` replaces the publisher and the list of workers, and loses none only
because the previous `stop` has told all of them, which `ToldInv` carries from
one holder of the lock to the next. `OnlyLeftoversEverCross` adds `LeftInv`: a thread
that is alive is of the run in progress or left over from an earlier `stop`, and
so is the worker that put each queued result. There is one lemma per action.

**Routes and topics**, for any devices, MAC addresses, places and settings, any
number of routes, edits and changes of the mapping, and any mapping at the
start, from `RoutesAssumption` and `ResponderAssumption` (values that stand for
"none" are not values, and the two resolvers differ): `RoutesTypeCorrect`,
`EditsLostOnlyToOverlap`, `LoopDeathsHaveCauses`, `ForeignTopicsAreFormTopics` and
`DeletedRoutesStayDeleted`. None of the properties is inductive, since a resolver
writes what it read long before. The invariant therefore says of the row in a
resolver's hands what the property says of the row in the table: `HeldInv` (it
has a MAC address, and an answer is for that address), `EditInv` (it is what
users want unless they saved since, and a route that is planned is wanted
dynamic), `ForeignInv` (its topic is foreign only if a form made it so), and
`LoopInv` (nothing the loop needs is missing unless it was disturbed, and a dead
loop was disturbed or a call has raised; ids are not used before they are created). One lemma per action, and one each for the ends
they share: an exception, a deletion, a row written back, a plan let go.

**RTU monitor**, for any reads, tags and number of reads, from `RtuAssumption`:
`RtuTypeCorrect`, `WrongRegistersOnlyAfterAMiss` and `HeardReadsServeTheirTags`.
`WrongRegistersNeedAMiss` speaks of pairs, which are made long after frames were lost. The invariant
therefore orders the frames that are still on the line: no request is behind its
own answer (`RequestsComeFirst`); the requests of later reads are behind those of
earlier ones, and behind the one that is pending, or were missed
(`LaterRequestsFollow`, `LaterRequestsWait`); and an answer in time has no newer
request of its slave and function before it (`AnswersInTime`). So an answer that
finds an older request pending has missed its own (`PairsAreRight`).
`HeardTagsAreGood` is the converse, that what was heard is found, and needs the
order of all frames, those of the capture and of the line (`FramesInOrder`: a
request comes behind everything of earlier reads, and an answer in time behind
nothing newer of its slave and function). So nothing takes the place of a request
whose answer is on its way (`RequestWaits`), the two become a pair (`WholePaired`),
and pairs of one slave and function are in the order of their reads
(`PairsInOrder`). That one of the pairs of a key is the latest, and that one of
the candidates of a tag has a key that came first, are least-member arguments
(`LatestPair`, `SomePair`).

**Configuration store**, for any names, groups, drivers and threads, any number of
devices, tags, rows and requests, from `StoreAssumption`: `StoreTypeCorrect`,
`ClashesNeedRaces`, `MisfitsNeedDriverChanges` and `ImportsStand`. The invariant
`Inv` carries what each transaction of a save has found out over to the next:
`ValidatedFits` (a validated tag fits the driver unless the actor is in
`outdated`), `CheckedIsFree` (a name that was free still is, unless the actor is in
`raced`), `MatchIsSafe` (an import that updates a tag, undisturbed, updates the
tag of that place) and `SavedIdsAreOld` (an id to be updated was given before, so
that an insertion cannot meet it). Two action properties follow from it,
and `ImportedRowsStand` is part of it: a row that an import has saved is `kept`
until a request touches its place, so that it must survive the failure of a row
(`Fail`) and whatever the import does before and after.

**Status events**, for any keys, pages, requests and restarts, from
`StatusAssumption`: `StatusTypeCorrect`, `RowsStayNewest` and
`PagesMissOnlyTheDrained`. The newest status of
a key is in the queue (`QueueIsNewest`: `put` leaves no older one behind), held by
the one thread that took it (`HeldIsNewest`, `HeldByOne`), or in the table, unless
the key is in `crossed`. `RowsAreNewest` alone loses track of it between the
queue and the table. What `start()` drops from the queue leaves the next older
status as the newest, which is the one a thread holds or the row (`ClearNewest`).
What a page shows is settled by what is on its way to it, the messages sent and
those the drain has yet to send: the last of them that says something of a key
says what the table has, and without one the page shows it already, but for the
keys in `missed` and those in `reset`, whose rows are empty (`StreamsEndInRows`,
`ResetIsEmpty`). A reply that is still on its way is as good as the table but for
the keys whose row has changed since (`RepliesAreRecent`).

**Modbus reads**, for any list of tags, gap, limits and responses, from
`ModbusAssumption` (gap and default unit are naturals, limits at least 1, tags
have at least one item). Sorting comes first: a strict order of the positions of a
list has a sorted sequence (`OneMoreInOrder`, by insertion), so that the `CHOOSE`
in `Sorted` finds one (`SortedFacts`). The plan is a fold over it (`PlanIsFold`),
and `GoodPlan` is what holds of the blocks after every beginning of it: each block
(`GoodBlock`) is for tags of its group, covers them, keeps to limit and gap, and
begins and ends with an item of a tag; the tags of a block come before those of the
next; and two blocks that follow each other are `Apart`. One more tag keeps it
(`ExtendedIsGood`: `GrownIsGood` when it fits, `AppendedIsGood` when not), and the
shortest beginning for which it would fail cannot exist (`PlanIsGood`). That the
start of the next block is not smaller is what makes the gap of a block right when
it grows, so order and gap have to be in one invariant. `PlanIsFrugal` speaks of
neighbours by address; that they follow each other in the plan is
`NeighboursAreApart`. `ReadInv` adds the responses: the results of the names are
those of tags that were asked for (`ByNameFacts`), a slice of a response is the
tag's own items (`SliceIsResult`), and the response that counts for a tag is the
one to its only block (`ToldByBlock`).

**Subscription worker**, in every interleaving with its driver's threads, server
and network; there are no constants. `SessionInv` adds to the types what makes a
failure the last word: once `connect()` is through, `_connected` is only false
when the connection is down, and then no message is being handled (`LossIsSeen`),
so that a session that fails has nothing left that could put data in the outbox
(`NoMoreData`); and outside a session there is no client and no loop
(`NoneOutside`), and none ever of the other kind (`OneDriver`). The module's run
visits all of its states; the proof shows which facts the order of the calls in
`run()` and `_cleanup_driver()` rests on.

Model-checked only:

- Liveness under fairness (`SilenceIsNoticed`, `OfflineIsEventuallyHeard`,
  `EntriesAreTaken`, `StoppedGoesQuiet`, `StoppedWorkerEnds`, `WorkerRecovers`,
  `TopicsConverge`, `DrainsEnd`), which is beyond the provers.

## 5. What is not modelled, and why

Payloads, topics, scaling, time formats, log formats, HTML: no property here is
about them. SQL and the network appear as calls that may fail. Reading OPC UA tags
in polling mode is one request per tag, whose outcome is a tag of a `ReadResult`
that `Gateway` chooses freely. The status events of health checks have their place
among the keys of `StatusEvents`. Validation of a single tag or device is a
function of one row; it appears as the driver a tag fits.

Left out although they have state: the database sink's transactions, system
heartbeats, the CSV import of routes, the refresh that `start()` makes itself
before it starts the loop (the same steps in the caller's thread), the settings of
the sinks, and migrations of old databases, which run before anything else.
Authentication is a library's token check without state of its own; registries,
`config_schema.py` and `defaults.py` are tables.

## 6. Plan

Done: all modules listed above, with their proofs. Next, in this order:

1. System heartbeats in `SinkPublisher`, timed by the identity of a route that
   every refresh replaces.
2. The database sink: the transaction of a batch and the reconnection after a
   failed one, in place of a sink that is up or down.
3. The CSV import of routes in `RouteTopics`, which matches routes by other
   fields than the form does.

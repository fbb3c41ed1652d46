----------------------------- MODULE StatusEvents -----------------------------
(***************************************************************************)
(* The way of a status from the workers to the browsers: the latest-status *)
(* queue, start(), stop(), drain_events() and snapshot() of the runtime    *)
(* manager, the log queues, the WebSocket handlers and requests of         *)
(* web/api.py, and what a page (app.js) makes of the messages.             *)
(*                                                                         *)
(* All WebSocket handlers share one queue and one thread, the event loop;  *)
(* a status request drains the same queue on a thread of its own, on which *)
(* start() and stop() run as well.  A status is known by its key, a tag or *)
(* a server, and a number that grows; a log line is one of a count.        *)
(* snapshot() is one step.                                                 *)
(***************************************************************************)
EXTENDS Naturals, Sequences, SequencesExt

CONSTANTS Keys,         \* the rows: of tags, by device and tag, and of servers, by device
          Tags,         \* those of tags
          Pages,        \* browser pages
          Requesters,   \* those that log in again, start and stop
          Loop,         \* the event loop
          Gone,         \* the end of a connection that has none
          None,
          MaxPuts,      \* bound: statuses in a behaviour
          MaxLines,     \* bound: log lines in a behaviour
          MaxStarts     \* bound: calls of start() after the first that find nothing running

(* The thread pool serves at most one request of each page at a time.      *)
Threads == Requesters \cup {Loop}

Items == [key : Keys, no : 1 .. MaxPuts]

Tables == [Keys -> 0 .. MaxPuts]

Replies == [to : {"load", "click"}, rows : Tables]

ASSUME StatusAssumption ==
  /\ Tags \subseteq Keys /\ Requesters \subseteq Pages
  /\ {MaxPuts, MaxLines, MaxStarts} \subseteq Nat
  /\ Loop \notin Pages /\ Gone \notin Pages /\ None \notin Pages \cup {Gone}
  /\ None \notin Items /\ None \notin Replies

Events == [type : {"event"}, item : Items]

Snapshots == [type : {"snapshot"}, rows : Tables]

VARIABLES
  queue,      \* status_queue: an item per key, the longest unchanged first
  table,      \* runtime_tags and server_statuses: the number of each row
  lines,      \* lines in log_display_queue
  pc,         \* where each thread is in drain_events() or start(), "idle" outside
  held,       \* the item a thread has taken and not recorded
  serves,     \* the page whose handler drains on the loop, or Gone
  events,     \* the events it has drained
  running,    \* RuntimeManager.running
  starts,     \* calls of start() that found nothing running
  socket,     \* a page's WebSocket: "none", "asked" for, or "open"
  inbox,      \* messages on its way
  reply,      \* the answer to its request, on the way
  view,       \* the rows a page shows
  stray,      \* whether a handler has not noticed yet that its connection is gone
  puts,       \* history: statuses so far
  logged,     \* history: log lines so far
  newest,     \* history: the last status of a key that start() has not dropped
  crossed,    \* history: keys whose last item was taken while another thread held one
  missed,     \* history: per page, keys whose last change it has not been sent, or has
              \*   lost under a reply that was made before
  reset,      \* history: per page, keys whose row start() has emptied since
  since       \* history: per page, keys whose row has changed since its reply was made

wire == <<socket, inbox, reply, view, stray>>
pageHistory == <<missed, reset, since>>
history == <<puts, logged, newest, crossed, pageHistory>>
vars == <<queue, table, lines, pc, held, serves, events, running, starts, wire, history>>

NoRows == [k \in Keys |-> 0]

(* Pages have loaded the rows that the first start() left, and connect.    *)
Init ==
  /\ queue = <<>> /\ table = NoRows /\ lines = 0
  /\ pc = [t \in Threads |-> "idle"] /\ held = [t \in Threads |-> None]
  /\ serves = None /\ events = <<>> /\ running = TRUE /\ starts = 0
  /\ socket = [p \in Pages |-> "asked"] /\ inbox = [p \in Pages |-> <<>>]
  /\ reply = [p \in Pages |-> None] /\ view = [p \in Pages |-> NoRows] /\ stray = FALSE
  /\ puts = 0 /\ logged = 0 /\ newest = NoRows /\ crossed = {}
  /\ missed = [p \in Pages |-> {}] /\ reset = missed /\ since = missed

-----------------------------------------------------------------------------
(* Workers, logger and start()                                             *)

(* _LatestStatusQueue.put: an older status of the key is deleted, so that  *)
(* the new one comes last.  Mutants: the older one stays, or the new one   *)
(* is dropped.                                                             *)
PutBehind(q, item) == Append(q, item)

PutIfAbsent(q, item) == IF \E i \in DOMAIN q : q[i].key = item.key THEN q ELSE Append(q, item)

PutLast(q, item) ==
  LET older == {i \in DOMAIN q : q[i].key = item.key} IN
  Append(IF older = {} THEN q ELSE RemoveAt(q, CHOOSE i \in older : TRUE), item)

Put(k) ==
  /\ puts < MaxPuts /\ puts' = puts + 1
  /\ queue' = PutLast(queue, [key |-> k, no |-> puts'])
  /\ newest' = [newest EXCEPT ![k] = puts']
  /\ UNCHANGED <<table, lines, pc, held, serves, events, running, starts, wire,
                 logged, crossed, pageHistory>>

(* A record is logged and drain_once(), of the logger's thread or of a     *)
(* drain, has made a line of it.                                           *)
Log ==
  /\ logged < MaxLines /\ logged' = logged + 1 /\ lines' = lines + 1
  /\ UNCHANGED <<queue, table, pc, held, serves, events, running, starts, wire,
                 puts, newest, crossed, pageHistory>>

-----------------------------------------------------------------------------
(* drain_events() on thread t                                              *)

Goto(t, label) == pc' = [pc EXCEPT ![t] = label]

Holds(t, k) == held[t] # None /\ held[t].key = k

IsQueued(k) == \E i \in DOMAIN queue : queue[i].key = k

OnItsWay(k) == IsQueued(k) \/ \E t \in Threads : Holds(t, k)

Take(t) ==
  LET item == Head(queue) IN
  /\ pc[t] = "statuses" /\ held[t] = None /\ queue # <<>>
  /\ queue' = Tail(queue) /\ held' = [held EXCEPT ![t] = item]
  /\ crossed' = IF \E u \in Threads : Holds(u, item.key)
                THEN crossed \cup {item.key} ELSE crossed \ {item.key}
  /\ UNCHANGED <<table, lines, pc, serves, events, running, starts, wire,
                 puts, logged, newest, pageHistory>>

(* A row of keys K changes while the answers to some pages are on the way. *)
ChangeSince(K) ==
  since' = [p \in Pages |-> IF reply[p] = None THEN {} ELSE since[p] \cup K]

(* _record_status; the event of the loop is for the page it serves, that   *)
(* of a status request for nobody.                                         *)
RowRecorded(k, no) == [table EXCEPT ![k] = no]

Record(t) ==
  LET k == held[t].key IN
  /\ held[t] # None
  /\ table' = RowRecorded(k, held[t].no)
  /\ events' = IF t = Loop THEN Append(events, [type |-> "event", item |-> held[t]]) ELSE events
  /\ held' = [held EXCEPT ![t] = None]
  /\ missed' = [p \in Pages |-> IF socket[p] = "open" /\ ~(t = Loop /\ serves = p)
                                THEN missed[p] \cup {k} ELSE missed[p] \ {k}]
  /\ reset' = [p \in Pages |-> reset[p] \ {k}]
  /\ ChangeSince({k})
  /\ UNCHANGED <<queue, lines, pc, serves, running, starts, wire, puts, logged, newest, crossed>>

(* Mutant: a get() that waits for another status.                          *)
WaitsForMore(t) == FALSE

NoMoreStatuses(t) ==
  /\ pc[t] = "statuses" /\ held[t] = None /\ queue = <<>>
  /\ Goto(t, "lines")
  /\ UNCHANGED <<queue, table, lines, held, serves, events, running, starts, wire, history>>

(* `while not self.log_display_queue.empty()`: the line it has seen is     *)
(* taken in another step, with a get() that waits for one.                 *)
SeesLine(t) ==
  /\ pc[t] = "lines" /\ lines > 0
  /\ Goto(t, "get")
  /\ UNCHANGED <<queue, table, lines, held, serves, events, running, starts, wire, history>>

GetLine(t) ==
  /\ pc[t] = "get" /\ lines > 0 /\ lines' = lines - 1
  /\ Goto(t, "lines")
  /\ UNCHANGED <<queue, table, held, serves, events, running, starts, wire, history>>

IsDrained(t) == pc[t] = "lines" /\ lines = 0

-----------------------------------------------------------------------------
(* The requests of page p, which the event loop hands to a thread of the   *)
(* pool: it begins something only when it is not busy, or blocked, in the  *)
(* drain of a handler.                                                     *)

LoopIsFree == pc[Loop] = "idle"

RequestBegins(p) == LoopIsFree /\ pc[p] = "idle" /\ reply[p] = None

(* snapshot() on its way back.                                             *)
Answer(p, to) ==
  /\ reply' = [reply EXCEPT ![p] = [to |-> to, rows |-> table]]
  /\ since' = [since EXCEPT ![p] = {}]

(* loadRuntime() at the end of loadAll(), when a user opens the page or    *)
(* logs in again.                                                          *)
StatusRequest(p) ==
  /\ RequestBegins(p) /\ Goto(p, "statuses")
  /\ UNCHANGED <<queue, table, lines, held, serves, events, running, starts, wire, history>>

Reply(p) ==
  /\ IsDrained(p) /\ Goto(p, "idle") /\ Answer(p, "load")
  /\ UNCHANGED <<queue, table, lines, held, serves, events, running, starts,
                 socket, inbox, view, stray, puts, logged, newest, crossed, missed, reset>>

(* A click on start or stop: its thread waits for the lock.                *)
StartRuntime(p) ==
  /\ RequestBegins(p) /\ Goto(p, "start")
  /\ UNCHANGED <<queue, table, lines, held, serves, events, running, starts, wire, history>>

StopRuntime(p) ==
  /\ RequestBegins(p) /\ Goto(p, "stop")
  /\ UNCHANGED <<queue, table, lines, held, serves, events, running, starts, wire, history>>

LockIsFree == \A q \in Requesters : pc[q] \notin {"clear", "tags", "servers", "workers"}

EnterStart(p) ==
  /\ pc[p] = "start" /\ LockIsFree
  /\ \/ /\ running /\ Goto(p, "idle") /\ Answer(p, "click")
        /\ UNCHANGED starts
     \/ /\ ~running /\ starts < MaxStarts /\ starts' = starts + 1
        /\ Goto(p, "clear")
        /\ UNCHANGED <<reply, since>>
  /\ UNCHANGED <<queue, table, lines, held, serves, events, running,
                 socket, inbox, view, stray, puts, logged, newest, crossed, missed, reset>>

(* stop(), with its joins, matters here by its answer.                     *)
Stopped(p) ==
  /\ pc[p] = "stop" /\ LockIsFree /\ Goto(p, "idle")
  /\ running' = FALSE /\ Answer(p, "click")
  /\ UNCHANGED <<queue, table, lines, held, serves, events, starts,
                 socket, inbox, view, stray, puts, logged, newest, crossed, missed, reset>>

(* The status of a key that is left when start() drops the one in the      *)
(* queue.                                                                  *)
Left(k) ==
  IF \E t \in Threads : Holds(t, k) THEN held[CHOOSE t \in Threads : Holds(t, k)].no ELSE table[k]

(* _clear_queue(self.status_queue), item by item: threads of the last run  *)
(* that have outlived stop() put more, and others take some.               *)
ClearStatuses(p) ==
  /\ pc[p] = "clear"
  /\ \/ /\ queue # <<>> /\ queue' = Tail(queue)
        /\ newest' = [newest EXCEPT ![Head(queue).key] = Left(Head(queue).key)]
        /\ UNCHANGED pc
     \/ /\ queue = <<>> /\ Goto(p, "tags")
        /\ UNCHANGED <<queue, newest>>
  /\ UNCHANGED <<table, lines, held, serves, events, running, starts, wire,
                 puts, logged, crossed, pageHistory>>

(* start() empties the rows K, whatever threads hold and workers put.      *)
Emptied(K) == {k \in K : table[k] # 0}

EmptyRows(K) ==
  /\ table' = [k \in Keys |-> IF k \in K THEN 0 ELSE table[k]]
  /\ newest' = [k \in Keys |-> IF k \in K /\ ~OnItsWay(k) THEN 0 ELSE newest[k]]
  /\ crossed' = {k \in crossed : k \in K => OnItsWay(k)}
  /\ reset' = [p \in Pages |-> IF socket[p] = "open" THEN reset[p] \cup Emptied(K) ELSE reset[p]]
  /\ ChangeSince(Emptied(K))
  /\ UNCHANGED <<queue, lines, held, serves, events, running, starts, wire, puts, logged, missed>>

EmptyTags(p) == pc[p] = "tags" /\ Goto(p, "servers") /\ EmptyRows(Tags)

EmptyServers(p) == pc[p] = "servers" /\ Goto(p, "workers") /\ EmptyRows(Keys \ Tags)

Started(p) ==
  /\ pc[p] = "workers" /\ Goto(p, "idle")
  /\ running' = TRUE /\ Answer(p, "click")
  /\ UNCHANGED <<queue, table, lines, held, serves, events, starts,
                 socket, inbox, view, stray, puts, logged, newest, crossed, missed, reset>>

(* The store or a setting raises; the page shows nothing new.              *)
StartRaises(p) ==
  /\ pc[p] \in {"tags", "workers"} /\ Goto(p, "idle")
  /\ UNCHANGED <<queue, table, lines, held, serves, events, running, starts, wire, history>>

-----------------------------------------------------------------------------
(* The WebSocket handlers.  The snapshot is the first message.  Mutant:    *)
(* there is none.                                                          *)
ConnectBare(p) ==
  /\ LoopIsFree /\ socket[p] = "asked" /\ socket' = [socket EXCEPT ![p] = "open"]
  /\ missed' = [missed EXCEPT ![p] = {}] /\ reset' = [reset EXCEPT ![p] = {}]
  /\ UNCHANGED <<queue, table, lines, pc, held, serves, events, running, starts,
                 inbox, reply, view, stray, puts, logged, newest, crossed, since>>

Connect(p) ==
  /\ LoopIsFree /\ socket[p] = "asked" /\ socket' = [socket EXCEPT ![p] = "open"]
  /\ inbox' = [inbox EXCEPT ![p] = <<[type |-> "snapshot", rows |-> table]>>]
  /\ missed' = [missed EXCEPT ![p] = {}] /\ reset' = [reset EXCEPT ![p] = {}]
  /\ UNCHANGED <<queue, table, lines, pc, held, serves, events, running, starts,
                 reply, view, stray, puts, logged, newest, crossed, since>>

DrainFor(end) ==
  /\ LoopIsFree /\ Goto(Loop, "statuses") /\ serves' = end
  /\ UNCHANGED <<queue, table, lines, held, events, running, starts, wire, history>>

DrainForPage(p) == socket[p] = "open" /\ DrainFor(p)

(* A handler whose connection is gone drains as before until it receives   *)
(* the disconnect or cannot send.                                          *)
DrainForGone == stray /\ DrainFor(Gone)

StrayEnds ==
  /\ LoopIsFree /\ stray /\ stray' = FALSE
  /\ UNCHANGED <<queue, table, lines, pc, held, serves, events, running, starts,
                 socket, inbox, reply, view, history>>

SendEvents ==
  /\ IsDrained(Loop) /\ Goto(Loop, "idle")
  /\ inbox' = IF serves = Gone THEN inbox ELSE [inbox EXCEPT ![serves] = @ \o events]
  /\ events' = <<>> /\ serves' = None
  /\ UNCHANGED <<queue, table, lines, held, running, starts, socket, reply, view, stray, history>>

-----------------------------------------------------------------------------
(* The page: a snapshot replaces what it shows, an event one row.          *)
Receive(p) ==
  LET message == Head(inbox[p]) IN
  /\ inbox[p] # <<>> /\ inbox' = [inbox EXCEPT ![p] = Tail(@)]
  /\ view' = [view EXCEPT ![p] =
                IF message.type = "event" THEN [@ EXCEPT ![message.item.key] = message.item.no]
                ELSE message.rows]
  /\ UNCHANGED <<queue, table, lines, pc, held, serves, events, running, starts,
                 socket, reply, stray, history>>

(* The connection of page p ends with what is on its way; its handler does *)
(* not know yet.                                                           *)
Leave(p, next) ==
  /\ socket' = [socket EXCEPT ![p] = next] /\ inbox' = [inbox EXCEPT ![p] = <<>>]
  /\ stray' = (stray \/ socket[p] = "open")
  /\ serves' = IF serves = p THEN Gone ELSE serves
  /\ missed' = [missed EXCEPT ![p] = {}] /\ reset' = [reset EXCEPT ![p] = {}]

(* The connection breaks or is refused, or the page is closed: only        *)
(* loadAll() makes another.                                                *)
Disconnect(p) ==
  /\ socket[p] # "none" /\ Leave(p, "none")
  /\ UNCHANGED <<queue, table, lines, pc, held, events, running, starts, reply, view,
                 puts, logged, newest, crossed, since>>

Arrives(p, to) ==
  /\ reply[p] # None /\ reply[p].to = to
  /\ reply' = [reply EXCEPT ![p] = None] /\ since' = [since EXCEPT ![p] = {}]
  /\ view' = [view EXCEPT ![p] = reply[p].rows]
  /\ UNCHANGED <<queue, table, lines, pc, held, events, running, starts,
                 puts, logged, newest, crossed>>

(* renderRuntime() and connectRuntimeEvents() at the end of loadAll().     *)
Reconnect(p) == Arrives(p, "load") /\ Leave(p, "asked")

(* renderRuntime() of what start() or stop() returned: it may be older     *)
(* than events already shown, and messages still on the way may be older   *)
(* than it.                                                                *)
Render(p) ==
  /\ Arrives(p, "click")
  /\ LET upToDate == inbox[p] = <<>> /\ serves # p IN
       /\ missed' = [missed EXCEPT ![p] = IF socket[p] # "open" THEN {}
                                          ELSE IF upToDate THEN since[p] ELSE @ \cup since[p]]
       /\ reset' = [reset EXCEPT ![p] = IF upToDate THEN {} ELSE @]
  /\ UNCHANGED <<serves, socket, inbox, stray>>

-----------------------------------------------------------------------------
DrainStep(t) ==
  \/ Take(t) \/ Record(t) \/ NoMoreStatuses(t)
  \/ SeesLine(t) \/ GetLine(t)

Finish(t) == IF t = Loop THEN SendEvents ELSE Reply(t)

StartStep(p) ==
  \/ EnterStart(p) \/ ClearStatuses(p) \/ EmptyTags(p) \/ EmptyServers(p) \/ Started(p) \/ StartRaises(p)

Next ==
  \/ \E k \in Keys : Put(k)
  \/ Log \/ DrainForGone \/ StrayEnds
  \/ \E t \in Threads : DrainStep(t) \/ Finish(t)
  \/ \E p \in Pages :
       Connect(p) \/ Disconnect(p) \/ DrainForPage(p) \/ Receive(p)
  \/ \E p \in Requesters :
       \/ StatusRequest(p) \/ StartRuntime(p) \/ StartStep(p)
       \/ StopRuntime(p) \/ Stopped(p)
       \/ Reconnect(p) \/ Render(p)

(* Threads run; nothing else is assumed.                                   *)
Spec ==
  /\ Init /\ [][Next]_vars
  /\ \A t \in Threads : WF_vars(DrainStep(t) \/ Finish(t))

-----------------------------------------------------------------------------
Labels == {"idle", "statuses", "lines", "get", "start", "clear", "tags", "servers", "workers", "stop"}

TypeOK ==
  /\ queue \in Seq(Items)
  /\ \A i, j \in DOMAIN queue : queue[i].key = queue[j].key => i = j
  /\ table \in Tables /\ newest \in Tables /\ running \in BOOLEAN /\ stray \in BOOLEAN
  /\ starts \in 0 .. MaxStarts /\ puts \in 0 .. MaxPuts
  /\ logged \in 0 .. MaxLines /\ lines \in 0 .. logged
  /\ pc \in [Threads -> Labels] /\ pc[Loop] \in {"idle", "statuses", "lines", "get"}
  /\ held \in [Threads -> Items \cup {None}]
  /\ \A t \in Threads : held[t] # None => pc[t] = "statuses"
  /\ serves \in Pages \cup {Gone, None} /\ (serves = None <=> pc[Loop] = "idle")
  /\ events \in Seq(Events)
  /\ socket \in [Pages -> {"none", "asked", "open"}] /\ inbox \in [Pages -> Seq(Events \cup Snapshots)]
  /\ \A p \in Pages : serves = p => socket[p] = "open"
  /\ reply \in [Pages -> Replies \cup {None}] /\ view \in [Pages -> Tables]
  /\ crossed \subseteq Keys /\ missed \in [Pages -> SUBSET Keys]
  /\ reset \in [Pages -> SUBSET Keys] /\ since \in [Pages -> SUBSET Keys]

(* A row that no waiting or held item will change shows the newest status  *)
(* of its key that start() has not dropped, unless two threads had items   *)
(* of the key at once (lines 86-89 and 193-203 of runtime_manager.py).     *)
RowsAreNewest == \A k \in Keys \ crossed : ~OnItsWay(k) => table[k] = newest[k]

(* A page that is connected and has received everything shows the rows of  *)
(* the table, with two exceptions.  The last status of a key may have      *)
(* never been sent to it, because another drain has taken it, that of      *)
(* another page, of a status request or for a connection that is gone, or  *)
(* the page may have lost it, or a restart, under the older reply to a     *)
(* click.  And a row that a restart has emptied since the page was last    *)
(* sent rows may still show the last run: while it is empty, nobody tells. *)
ViewsMissOnlyTheDrained ==
  \A p \in Pages :
    /\ socket[p] = "open" /\ inbox[p] = <<>> /\ serves # p
    => \A k \in Keys :
         \/ view[p][k] = table[k]
         \/ k \in missed[p]
         \/ k \in reset[p] /\ table[k] = 0

(* When logging pauses a drain ends, or it waits for a line that another   *)
(* thread has taken after the test in line 204.                            *)
DrainsEnd ==
  \A t \in Threads :
    pc[t] = "statuses" ~> pc[t] = "idle" \/ (pc[t] = "get" /\ lines = 0)
==============================================================================

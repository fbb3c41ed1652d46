-------------------------- MODULE StatusEventsProofs --------------------------
(***************************************************************************)
(* That the rows of the runtime are the newest, and what the pages show of *)
(* them, for any keys, pages and requests.                                 *)
(*                                                                         *)
(* The newest status of a key is in one of three places: the queue, a      *)
(* thread that has taken it, or the table.  It passes from one to the next *)
(* unless two threads have items of the key: `crossed` tells.              *)
(***************************************************************************)
EXTENDS StatusEvents, TLAPS

(* put() leaves no older status of a key behind.                           *)
QueueIsNewest == \A i \in DOMAIN queue : queue[i].no = newest[queue[i].key]

(* What a thread has taken is the newest, or one is in the queue.          *)
HeldIsNewest ==
  \A t \in Threads, k \in Keys \ crossed :
    Holds(t, k) => held[t].no = newest[k] \/ IsQueued(k)

HeldByOne ==
  \A t, u \in Threads, k \in Keys \ crossed : Holds(t, k) /\ Holds(u, k) => t = u

Inv == TypeOK /\ QueueIsNewest /\ HeldIsNewest /\ HeldByOne /\ RowsAreNewest

-----------------------------------------------------------------------------
(* Sequences of items                                                      *)

Single(q) == \A i, j \in DOMAIN q : q[i].key = q[j].key => i = j

(* A new queue has an item and what the old one had of other keys; it has  *)
(* all that the old one had of other keys.                                 *)
AddsOnly(old, new, item) ==
  \A i \in DOMAIN new :
    \/ new[i] = item
    \/ new[i].key # item.key /\ \E j \in DOMAIN old : new[i] = old[j]

Keeps(old, new, key) ==
  \A j \in DOMAIN old : old[j].key # key => \E i \in DOMAIN new : new[i] = old[j]

(* What a removal leaves.                                                  *)
LEMMA RemovalFacts ==
  ASSUME NEW S, NEW q \in Seq(S), NEW r \in DOMAIN q
  PROVE  /\ RemoveAt(q, r) \in Seq(S)
         /\ Len(RemoveAt(q, r)) = Len(q) - 1
         /\ \A i \in 1 .. Len(q) - 1 : RemoveAt(q, r)[i] = IF i < r THEN q[i] ELSE q[i + 1]
<1> DEFINE a == SubSeq(q, 1, r - 1)
           b == SubSeq(q, r + 1, Len(q))
<1>1. r \in 1 .. Len(q) /\ Len(q) \in Nat  OBVIOUS
<1>2. a \in Seq(S) /\ Len(a) = r - 1 /\ \A i \in 1 .. r - 1 : a[i] = q[i]
  BY <1>1
<1>3. b \in Seq(S) /\ Len(b) = Len(q) - r /\ \A i \in 1 .. Len(q) - r : b[i] = q[i + r]
  BY <1>1
<1>4. RemoveAt(q, r) = a \o b  BY DEF RemoveAt
<1> HIDE DEF a, b
<1> QED BY <1>1, <1>2, <1>3, <1>4

(* What put() leaves of a queue: the new item, and those of other keys.    *)
LEMMA PutLastFacts ==
  ASSUME NEW q \in Seq(Items), Single(q), NEW item \in Items
  PROVE  /\ PutLast(q, item) \in Seq(Items) /\ Single(PutLast(q, item))
         /\ AddsOnly(q, PutLast(q, item), item)
         /\ \E i \in DOMAIN PutLast(q, item) : PutLast(q, item)[i] = item
         /\ Keeps(q, PutLast(q, item), item.key)
<1> DEFINE older == {i \in DOMAIN q : q[i].key = item.key}
           r == CHOOSE i \in older : TRUE
           rest == IF older = {} THEN q ELSE RemoveAt(q, r)
<1>1. PutLast(q, item) = Append(rest, item)  BY DEF PutLast
<1>2. /\ rest \in Seq(Items) /\ Single(rest)
      /\ \A i \in DOMAIN rest : rest[i].key # item.key /\ \E j \in DOMAIN q : rest[i] = q[j]
      /\ \A j \in DOMAIN q : q[j].key # item.key => \E i \in DOMAIN rest : rest[i] = q[j]
  <2>1. CASE older = {}
    <3>1. rest = q /\ \A i \in DOMAIN q : q[i].key # item.key  BY <2>1
    <3> HIDE DEF rest, r, older
    <3>2. Single(rest)  BY <3>1 DEF Single
    <3>3. \A j \in DOMAIN q : \E i \in DOMAIN rest : rest[i] = q[j]  BY <3>1
    <3> QED BY <3>1, <3>2, <3>3
  <2>2. CASE older # {}
    <3>1. r \in DOMAIN q /\ q[r].key = item.key /\ rest = RemoveAt(q, r)
      <4>1. rest = RemoveAt(q, r)  BY <2>2
      <4>2. \E i \in older : TRUE  BY <2>2
      <4>3. r \in older
        <5> HIDE DEF older
        <5> QED BY <4>2
      <4> QED BY <4>1, <4>3
    <3>2. /\ rest \in Seq(Items) /\ Len(rest) = Len(q) - 1 /\ r \in 1 .. Len(q) /\ Len(q) \in Nat
          /\ \A i \in 1 .. Len(q) - 1 : rest[i] = IF i < r THEN q[i] ELSE q[i + 1]
      BY <3>1, RemovalFacts
    <3> HIDE DEF rest, r, older
    <3>3. Single(rest)
      <4> SUFFICES ASSUME NEW i \in DOMAIN rest, NEW j \in DOMAIN rest, rest[i].key = rest[j].key
                   PROVE  i = j
        BY DEF Single
      <4> DEFINE At(n) == IF n < r THEN n ELSE n + 1
      <4>1. rest[i] = q[At(i)] /\ rest[j] = q[At(j)] /\ At(i) \in DOMAIN q /\ At(j) \in DOMAIN q
        BY <3>2
      <4>2. At(i) = At(j)
        <5> HIDE DEF At
        <5> QED BY <4>1 DEF Single
      <4> QED BY <4>2, <3>2
    <3>4. ASSUME NEW i \in DOMAIN rest
          PROVE  rest[i].key # item.key /\ \E j \in DOMAIN q : rest[i] = q[j]
      <4> DEFINE j == IF i < r THEN i ELSE i + 1
      <4>1. j \in DOMAIN q /\ j # r /\ rest[i] = q[j]  BY <3>2
      <4> QED BY <4>1, <3>1 DEF Single
    <3>5. ASSUME NEW j \in DOMAIN q, q[j].key # item.key
          PROVE  \E i \in DOMAIN rest : rest[i] = q[j]
      <4> DEFINE i == IF j < r THEN j ELSE j - 1
      <4>1. j # r  BY <3>1, <3>5
      <4>2. i \in DOMAIN rest /\ rest[i] = q[j]  BY <3>2, <4>1
      <4> QED BY <4>2
    <3> QED BY <3>2, <3>3, <3>4, <3>5
  <2> QED BY <2>1, <2>2
<1> HIDE DEF rest, r, older
<1>3. /\ PutLast(q, item) \in Seq(Items) /\ Len(PutLast(q, item)) = Len(rest) + 1
      /\ \A i \in DOMAIN rest : PutLast(q, item)[i] = rest[i]
      /\ PutLast(q, item)[Len(rest) + 1] = item
      /\ Len(rest) \in Nat /\ DOMAIN PutLast(q, item) = 1 .. Len(rest) + 1
  BY <1>1, <1>2
<1> HIDE DEF rest, r, older
<1> DEFINE new == PutLast(q, item)
<1>4. ASSUME NEW i \in DOMAIN new
      PROVE  new[i] = item \/ (new[i].key # item.key /\ \E j \in DOMAIN q : new[i] = q[j])
  <2>1. CASE i \in DOMAIN rest  BY <2>1, <1>2, <1>3
  <2>2. CASE i = Len(rest) + 1  BY <2>2, <1>3
  <2> QED BY <2>1, <2>2, <1>2, <1>3
<1>5. \E i \in DOMAIN new : new[i] = item
  BY <1>3
<1>6. ASSUME NEW j \in DOMAIN q, q[j].key # item.key
      PROVE  \E i \in DOMAIN new : new[i] = q[j]
  <2>1. PICK i \in DOMAIN rest : rest[i] = q[j]  BY <1>2, <1>6
  <2>2. i \in DOMAIN new /\ new[i] = q[j]  BY <2>1, <1>2, <1>3
  <2> QED BY <2>2
<1>7. Single(new)
  <2> SUFFICES ASSUME NEW i \in DOMAIN new, NEW j \in DOMAIN new, new[i].key = new[j].key
               PROVE  i = j
    BY DEF Single
  <2>1. CASE i \in DOMAIN rest /\ j \in DOMAIN rest
    <3>1. rest[i].key = rest[j].key  BY <2>1, <1>3
    <3> QED BY <3>1, <2>1, <1>2 DEF Single
  <2>2. ASSUME NEW k \in DOMAIN rest  PROVE new[k].key # item.key  BY <1>2, <1>3
  <2> QED BY <2>1, <2>2, <1>2, <1>3
<1>8. AddsOnly(q, new, item)  BY <1>4 DEF AddsOnly
<1>9. Keeps(q, new, item.key)  BY <1>6 DEF Keeps
<1> QED BY <1>3, <1>5, <1>7, <1>8, <1>9

(* What Take leaves of a queue: the first item is held, and the queue had  *)
(* no other of its key.                                                    *)
LEMMA TailFacts ==
  ASSUME NEW q \in Seq(Items), Single(q), q # <<>>
  PROVE  /\ Head(q) \in Items /\ Head(q) = q[1] /\ 1 \in DOMAIN q
         /\ Tail(q) \in Seq(Items) /\ Single(Tail(q))
         /\ \A i \in DOMAIN Tail(q) :
              Tail(q)[i].key # Head(q).key /\ \E j \in DOMAIN q : Tail(q)[i] = q[j]
         /\ \A j \in DOMAIN q : q[j].key # Head(q).key => \E i \in DOMAIN Tail(q) : Tail(q)[i] = q[j]
<1> DEFINE t == Tail(q)
<1>1. /\ Head(q) \in Items /\ Head(q) = q[1] /\ t \in Seq(Items)
      /\ Len(t) = Len(q) - 1 /\ Len(q) \in Nat \ {0} /\ \A i \in 1 .. Len(q) - 1 : t[i] = q[i + 1]
  OBVIOUS
<1>2. DOMAIN t = 1 .. Len(q) - 1 /\ DOMAIN q = 1 .. Len(q)
  BY <1>1
<1> HIDE DEF t
<1>3. ASSUME NEW i \in DOMAIN t
      PROVE  i + 1 \in DOMAIN q /\ t[i] = q[i + 1] /\ i + 1 # 1
  BY <1>1, <1>2
<1>4. Single(t)
  BY <1>1, <1>2, <1>3 DEF Single
<1>5. ASSUME NEW i \in DOMAIN t
      PROVE  t[i].key # Head(q).key /\ \E j \in DOMAIN q : t[i] = q[j]
  <2>1. q[i + 1].key # q[1].key  BY <1>1, <1>2, <1>3 DEF Single
  <2> QED BY <2>1, <1>3, <1>1
<1>6. ASSUME NEW j \in DOMAIN q, q[j].key # Head(q).key
      PROVE  \E i \in DOMAIN t : t[i] = q[j]
  <2>1. j # 1 /\ j - 1 \in DOMAIN t  BY <1>1, <1>2, <1>6
  <2>2. t[j - 1] = q[j]  BY <2>1, <1>1, <1>2
  <2> QED BY <2>1, <2>2
<1> QED BY <1>1, <1>2, <1>4, <1>5, <1>6 DEF t

-----------------------------------------------------------------------------
LEMMA InitInv == Init => Inv
<1> SUFFICES ASSUME Init  PROVE Inv
  OBVIOUS
<1>1. /\ queue = <<>> /\ table = NoRows /\ newest = NoRows /\ crossed = {}
      /\ held = [t \in Threads |-> None]
  BY DEF Init
<1>2. NoRows \in Tables  BY StatusAssumption DEF NoRows, Tables
<1>3. TypeOK
  <2>1. /\ queue \in Seq(Items) /\ events \in Seq(Events)
        /\ \A i, j \in DOMAIN queue : queue[i].key = queue[j].key => i = j
    BY DEF Init
  <2>2. running \in BOOLEAN /\ stray \in BOOLEAN
    BY DEF Init
  <2>7. /\ starts \in 0 .. MaxStarts /\ puts \in 0 .. MaxPuts
        /\ logged \in 0 .. MaxLines /\ lines \in 0 .. logged
    <3>1. MaxStarts \in Nat /\ MaxPuts \in Nat /\ MaxLines \in Nat  BY StatusAssumption
    <3>2. starts = 0 /\ puts = 0 /\ logged = 0 /\ lines = 0  BY DEF Init
    <3> QED BY <3>1, <3>2
  <2>3. /\ pc \in [Threads -> Labels] /\ pc[Loop] = "idle"
        /\ held \in [Threads -> Items \cup {None}] /\ \A t \in Threads : held[t] = None
    BY DEF Init, Threads, Labels
  <2>4. serves = None /\ \A p \in Pages : serves # p
    BY StatusAssumption DEF Init
  <2>5. /\ socket \in [Pages -> {"none", "asked", "open"}]
        /\ inbox \in [Pages -> Seq(Events \cup Snapshots)]
        /\ reply \in [Pages -> Replies \cup {None}] /\ view \in [Pages -> Tables]
    BY <1>2 DEF Init
  <2>6. /\ missed \in [Pages -> SUBSET Keys] /\ reset \in [Pages -> SUBSET Keys]
        /\ since \in [Pages -> SUBSET Keys] /\ crossed \subseteq Keys
    BY DEF Init
  <2> QED BY <1>1, <1>2, <2>1, <2>2, <2>3, <2>4, <2>5, <2>6, <2>7 DEF TypeOK
<1>4. QueueIsNewest /\ HeldIsNewest /\ HeldByOne /\ RowsAreNewest
  BY <1>1, <1>2 DEF QueueIsNewest, HeldIsNewest, HeldByOne, RowsAreNewest, Holds
<1> QED BY <1>3, <1>4 DEF Inv

LEMMA LogTypes == ASSUME TypeOK, Log PROVE TypeOK'
  BY StatusAssumption DEF Log, TypeOK, Tables, wire, pageHistory

LEMMA NoMoreStatusesTypes == ASSUME NEW t \in Threads, TypeOK, NoMoreStatuses(t) PROVE TypeOK'
  BY StatusAssumption DEF NoMoreStatuses, TypeOK, Tables, Goto, wire, history, pageHistory, Threads, Labels

LEMMA SeesLineTypes == ASSUME NEW t \in Threads, TypeOK, SeesLine(t) PROVE TypeOK'
  BY StatusAssumption DEF SeesLine, TypeOK, Tables, Goto, wire, history, pageHistory, Threads, Labels

LEMMA GetLineTypes == ASSUME NEW t \in Threads, TypeOK, GetLine(t) PROVE TypeOK'
  BY StatusAssumption DEF GetLine, TypeOK, Tables, Goto, wire, history, pageHistory, Threads, Labels

LEMMA ConnectTypes == ASSUME NEW p \in Pages, TypeOK, Connect(p) PROVE TypeOK'
  BY StatusAssumption DEF Connect, TypeOK, Tables, LoopIsFree, Snapshots

LEMMA LeaveTypes ==
  ASSUME NEW p \in Pages, NEW next \in {"none", "asked"}, TypeOK, Leave(p, next)
  PROVE  /\ socket' \in [Pages -> {"none", "asked", "open"}]
         /\ inbox' \in [Pages -> Seq(Events \cup Snapshots)]
         /\ stray' \in BOOLEAN /\ serves' \in Pages \cup {Gone, None}
         /\ serves' = None <=> serves = None
         /\ \A q \in Pages : serves' = q => socket'[q] = "open"
         /\ missed' \in [Pages -> SUBSET Keys] /\ reset' \in [Pages -> SUBSET Keys]
<1>1. serves' = None <=> serves = None
  BY StatusAssumption DEF Leave, TypeOK
<1>2. \A q \in Pages : serves' = q => socket'[q] = "open"
  BY StatusAssumption DEF Leave, TypeOK
<1> QED BY <1>1, <1>2 DEF Leave, TypeOK

LEMMA DisconnectTypes == ASSUME NEW p \in Pages, TypeOK, Disconnect(p) PROVE TypeOK'
<1>1. Leave(p, "none")  BY DEF Disconnect
<1> QED BY <1>1, LeaveTypes DEF Disconnect, TypeOK

LEMMA ReconnectTypes == ASSUME NEW p \in Requesters, TypeOK, Reconnect(p) PROVE TypeOK'
<1>1. p \in Pages /\ Leave(p, "asked") /\ Arrives(p, "load")
  BY StatusAssumption DEF Reconnect
<1>2. /\ reply' \in [Pages -> Replies \cup {None}] /\ view' \in [Pages -> Tables]
      /\ since' \in [Pages -> SUBSET Keys]
  BY <1>1 DEF Arrives, TypeOK, Replies
<1> QED BY <1>1, <1>2, LeaveTypes DEF Arrives, TypeOK

LEMMA DrainForTypes ==
  ASSUME TypeOK, DrainForGone \/ \E p \in Pages : DrainForPage(p)
  PROVE  TypeOK'
<1>1. PICK end \in Pages \cup {Gone} : DrainFor(end) /\ (end \in Pages => socket[end] = "open")
  BY StatusAssumption DEF DrainForGone, DrainForPage
<1>2. /\ pc' = [pc EXCEPT ![Loop] = "statuses"] /\ pc[Loop] = "idle" /\ serves' = end /\ end # None
  BY <1>1, StatusAssumption DEF DrainFor, Goto, LoopIsFree
<1>3. \A q \in Pages : serves' = q => socket[q] = "open"
  BY <1>1, <1>2
<1>4. /\ pc' \in [Threads -> Labels] /\ pc'[Loop] = "statuses"
      /\ \A t \in Threads : held[t] # None => pc'[t] = "statuses"
  BY <1>2 DEF TypeOK, Threads, Labels
<1> QED BY <1>1, <1>2, <1>3, <1>4 DEF DrainFor, TypeOK, wire, history, pageHistory

LEMMA StrayEndsTypes == ASSUME TypeOK, StrayEnds PROVE TypeOK'
  BY DEF StrayEnds, TypeOK, history, pageHistory

LEMMA SendEventsTypes == ASSUME TypeOK, SendEvents PROVE TypeOK'
<1>1. /\ pc[Loop] = "lines" /\ pc' = [pc EXCEPT ![Loop] = "idle"] /\ serves' = None /\ events' = <<>>
      /\ inbox' = IF serves = Gone THEN inbox ELSE [inbox EXCEPT ![serves] = @ \o events]
  BY DEF SendEvents, Goto, IsDrained
<1>2. inbox' \in [Pages -> Seq(Events \cup Snapshots)]
  <2>1. events \in Seq(Events \cup Snapshots)
    <3>1. events \in Seq(Events) /\ Events \subseteq Events \cup Snapshots  BY DEF TypeOK
    <3> HIDE DEF TypeOK
    <3> QED BY <3>1
  <2>2. inbox \in [Pages -> Seq(Events \cup Snapshots)]  BY DEF TypeOK
  <2>3. CASE serves = Gone  BY <1>1, <2>2, <2>3
  <2>4. CASE serves # Gone
    <3>1. serves \in Pages  BY <1>1, <2>4 DEF TypeOK
    <3>2. inbox[serves] \o events \in Seq(Events \cup Snapshots)  BY <2>1, <2>2, <3>1
    <3> QED BY <1>1, <2>2, <2>4, <3>2
  <2> QED BY <2>3, <2>4
<1>3. /\ pc' \in [Threads -> Labels] /\ pc'[Loop] = "idle"
      /\ \A t \in Threads : held[t] # None => pc'[t] = "statuses"
  BY <1>1 DEF TypeOK, Threads, Labels
<1>4. \A q \in Pages : serves' # q
  BY <1>1, StatusAssumption
<1> QED BY <1>1, <1>2, <1>3, <1>4 DEF SendEvents, TypeOK, history, pageHistory

(* The steps of a request of page p that only move it on, or answer it.    *)
LEMMA RequestTypes ==
  ASSUME NEW p \in Requesters, TypeOK,
         \/ StatusRequest(p) \/ Reply(p) \/ StartRuntime(p) \/ StopRuntime(p)
         \/ EnterStart(p) \/ Started(p) \/ StartRaises(p) \/ Stopped(p)
  PROVE  TypeOK'
<1>1. p \in Pages /\ p \in Threads /\ p # Loop /\ Loop \in Threads
  BY StatusAssumption DEF Threads
<1>2. /\ \/ reply' = reply /\ since' = since
         \/ \E to \in {"load", "click"} : Answer(p, to)
      /\ \/ pc' = pc
         \/ /\ pc[p] # "statuses" \/ held[p] = None
            /\ \E label \in Labels : Goto(p, label)
      /\ running' \in BOOLEAN /\ starts' \in 0 .. MaxStarts
      /\ UNCHANGED <<queue, table, lines, held, serves, events, socket, inbox, view, stray,
                     puts, logged, newest, crossed, missed, reset>>
  <2>1. CASE StatusRequest(p) \/ StartRuntime(p) \/ StopRuntime(p)
    BY <2>1 DEF StatusRequest, StartRuntime, StopRuntime, RequestBegins, Labels, TypeOK,
                wire, history, pageHistory
  <2>2. CASE Reply(p)
    BY <2>2 DEF Reply, IsDrained, Labels, TypeOK
  <2>3. CASE EnterStart(p)
    BY <2>3, StatusAssumption DEF EnterStart, Labels, TypeOK
  <2>4. CASE Started(p)
    BY <2>4 DEF Started, Labels, TypeOK
  <2>5. CASE StartRaises(p)
    BY <2>5 DEF StartRaises, Labels, TypeOK, wire, history, pageHistory
  <2>6. CASE Stopped(p)
    BY <2>6 DEF Stopped, Labels, TypeOK
  <2> QED BY <2>1, <2>2, <2>3, <2>4, <2>5, <2>6
<1>3. reply' \in [Pages -> Replies \cup {None}] /\ since' \in [Pages -> SUBSET Keys]
  <2>1. \A to \in {"load", "click"} : [to |-> to, rows |-> table] \in Replies
    BY DEF Replies, TypeOK
  <2>2. reply \in [Pages -> Replies \cup {None}] /\ since \in [Pages -> SUBSET Keys]
    BY DEF TypeOK
  <2> QED BY <1>1, <1>2, <2>1, <2>2 DEF Answer
<1>4. /\ pc' \in [Threads -> Labels] /\ pc'[Loop] = pc[Loop]
      /\ \A t \in Threads : held[t] # None => pc'[t] = "statuses"
  BY <1>1, <1>2 DEF Goto, TypeOK
<1> QED BY <1>2, <1>3, <1>4 DEF TypeOK

LEMMA ClearTypes ==
  ASSUME NEW p \in Requesters, TypeOK, ClearStatuses(p)
  PROVE  TypeOK'
<1>1. p \in Threads /\ p # Loop /\ pc[p] = "clear" /\ held[p] = None
  BY StatusAssumption DEF ClearStatuses, Threads, TypeOK
<1>2. CASE queue # <<>> /\ queue' = Tail(queue) /\ UNCHANGED pc
           /\ newest' = [newest EXCEPT ![Head(queue).key] = Left(Head(queue).key)]
  <2>1. Single(queue) /\ queue \in Seq(Items)  BY DEF TypeOK, Single
  <2>2. Head(queue) \in Items /\ queue' \in Seq(Items) /\ Single(queue')
    BY <1>2, <2>1, TailFacts
  <2>3. Left(Head(queue).key) \in 0 .. MaxPuts
    <3> DEFINE k == Head(queue).key
    <3>1. k \in Keys  BY <2>2 DEF Items
    <3>2. \A t \in Threads : Holds(t, k) => held[t].no \in 0 .. MaxPuts
      BY StatusAssumption DEF TypeOK, Items, Holds
    <3>3. table[k] \in 0 .. MaxPuts  BY <3>1 DEF TypeOK, Tables
    <3> HIDE DEF k
    <3> QED BY <3>2, <3>3 DEF Left, k
  <2>4. newest' \in Tables  BY <1>2, <2>2, <2>3 DEF TypeOK, Tables, Items
  <2> QED BY <1>2, <2>2, <2>4 DEF ClearStatuses, TypeOK, wire, pageHistory, Single
<1>3. CASE queue = <<>> /\ Goto(p, "tags") /\ UNCHANGED <<queue, newest>>
  <2>1. /\ pc' \in [Threads -> Labels] /\ pc'[Loop] = pc[Loop]
        /\ \A t \in Threads : held[t] # None => pc'[t] = "statuses"
    BY <1>1, <1>3 DEF Goto, TypeOK, Labels
  <2> QED BY <1>3, <2>1 DEF ClearStatuses, TypeOK, wire, pageHistory
<1> QED BY <1>2, <1>3 DEF ClearStatuses

(* start() empties rows: of tags, and then of servers.                     *)
LEMMA EmptyFacts ==
  ASSUME NEW p \in Requesters, EmptyTags(p) \/ EmptyServers(p)
  PROVE  \E K \in SUBSET Keys, label \in {"servers", "workers"} :
           EmptyRows(K) /\ pc[p] # "statuses" /\ Goto(p, label)
BY StatusAssumption DEF EmptyTags, EmptyServers

LEMMA EmptyTypes ==
  ASSUME NEW p \in Requesters, TypeOK, EmptyTags(p) \/ EmptyServers(p)
  PROVE  TypeOK'
<1>1. PICK K \in SUBSET Keys, label \in {"servers", "workers"} :
        EmptyRows(K) /\ pc[p] # "statuses" /\ Goto(p, label)
  BY EmptyFacts
<1>2. p \in Threads /\ p # Loop /\ Loop \in Threads
  BY StatusAssumption DEF Threads
<1>3. table' \in Tables /\ newest' \in Tables
  BY <1>1, StatusAssumption DEF EmptyRows, TypeOK, Tables
<1>4. /\ crossed' \subseteq Keys /\ reset' \in [Pages -> SUBSET Keys]
      /\ since' \in [Pages -> SUBSET Keys]
  BY <1>1 DEF EmptyRows, Emptied, ChangeSince, TypeOK
<1>5. /\ pc' \in [Threads -> Labels] /\ pc'[Loop] = pc[Loop]
      /\ \A t \in Threads : held[t] # None => pc'[t] = "statuses"
  BY <1>1, <1>2 DEF Goto, TypeOK, Labels
<1> QED BY <1>1, <1>3, <1>4, <1>5 DEF EmptyRows, TypeOK, wire

LEMMA ReceiveTypes == ASSUME NEW p \in Pages, TypeOK, Receive(p) PROVE TypeOK'
<1> DEFINE message == Head(inbox[p])
<1>1. message \in Events \cup Snapshots /\ Tail(inbox[p]) \in Seq(Events \cup Snapshots)
  BY DEF Receive, TypeOK
<1>2. message.type = "event" => message.item.key \in Keys /\ message.item.no \in 0 .. MaxPuts
  BY <1>1, StatusAssumption DEF Events, Snapshots, Items
<1>3. message.type # "event" => message.rows \in Tables
  BY <1>1 DEF Events, Snapshots
<1>4. view' \in [Pages -> Tables]
  <2>1. view[p] \in Tables  BY DEF TypeOK
  <2>2. (IF message.type = "event" THEN [view[p] EXCEPT ![message.item.key] = message.item.no]
         ELSE message.rows) \in Tables
    BY <1>2, <1>3, <2>1 DEF Tables
  <2> QED BY <2>2 DEF Receive, TypeOK
<1>5. inbox' \in [Pages -> Seq(Events \cup Snapshots)]
  BY <1>1 DEF Receive, TypeOK
<1> QED BY <1>4, <1>5 DEF Receive, TypeOK, history, pageHistory

LEMMA RenderTypes == ASSUME NEW p \in Requesters, TypeOK, Render(p) PROVE TypeOK'
<1>1. p \in Pages /\ Arrives(p, "click")
  BY StatusAssumption DEF Render
<1>2. /\ reply' \in [Pages -> Replies \cup {None}] /\ view' \in [Pages -> Tables]
      /\ since' \in [Pages -> SUBSET Keys]
  BY <1>1 DEF Arrives, TypeOK, Replies
<1>3. missed' \in [Pages -> SUBSET Keys] /\ reset' \in [Pages -> SUBSET Keys]
  BY <1>1 DEF Render, TypeOK
<1> QED BY <1>1, <1>2, <1>3 DEF Render, Arrives, TypeOK

LEMMA PutTypes ==
  ASSUME NEW k \in Keys, TypeOK, Put(k)
  PROVE  TypeOK'
<1> DEFINE item == [key |-> k, no |-> puts']
<1>1. puts' = puts + 1 /\ puts' \in 1 .. MaxPuts /\ item \in Items
  BY StatusAssumption DEF Put, TypeOK, Items
<1>2. queue' \in Seq(Items) /\ Single(queue')
  <2>1. Single(queue) /\ queue \in Seq(Items)  BY DEF TypeOK, Single
  <2> QED BY <2>1, <1>1, PutLastFacts DEF Put
<1>3. newest' \in Tables
  BY <1>1 DEF Put, TypeOK, Tables
<1> QED BY <1>1, <1>2, <1>3 DEF Put, TypeOK, wire, pageHistory, Single

LEMMA TakeTypes ==
  ASSUME NEW t \in Threads, TypeOK, Take(t)
  PROVE  TypeOK'
<1>1. Head(queue) \in Items /\ queue' \in Seq(Items) /\ Single(queue')
  <2>1. Single(queue) /\ queue \in Seq(Items)  BY DEF TypeOK, Single
  <2> QED BY <2>1, TailFacts DEF Take
<1>2. /\ held' \in [Threads -> Items \cup {None}]
      /\ \A u \in Threads : held'[u] # None => pc'[u] = "statuses"
  BY <1>1 DEF Take, TypeOK
<1>3. crossed' \subseteq Keys
  BY <1>1 DEF Take, TypeOK, Items
<1> QED BY <1>1, <1>2, <1>3 DEF Take, TypeOK, wire, pageHistory, Single

LEMMA RecordTypes ==
  ASSUME NEW t \in Threads, TypeOK, Record(t)
  PROVE  TypeOK'
<1>1. held[t] \in Items /\ held[t].key \in Keys /\ held[t].no \in 0 .. MaxPuts
  BY StatusAssumption DEF Record, TypeOK, Items
<1>2. table' \in Tables
  BY <1>1 DEF Record, TypeOK, Tables, RowRecorded
<1>3. /\ held' \in [Threads -> Items \cup {None}]
      /\ \A u \in Threads : held'[u] # None => pc'[u] = "statuses"
  BY DEF Record, TypeOK
<1>4. events' \in Seq(Events)
  <2>1. [type |-> "event", item |-> held[t]] \in Events  BY <1>1 DEF Events
  <2>2. events \in Seq(Events)  BY DEF TypeOK
  <2> QED BY <2>1, <2>2 DEF Record
<1>5. /\ missed' \in [Pages -> SUBSET Keys] /\ reset' \in [Pages -> SUBSET Keys]
      /\ since' \in [Pages -> SUBSET Keys]
  BY <1>1 DEF Record, ChangeSince, TypeOK
<1> QED BY <1>2, <1>3, <1>4, <1>5 DEF Record, TypeOK, wire

-----------------------------------------------------------------------------
(* Where the newest status of a key is                                     *)

Newest == QueueIsNewest /\ HeldIsNewest /\ HeldByOne /\ RowsAreNewest

LEMMA PutNewest ==
  ASSUME NEW k \in Keys, Inv, Put(k)
  PROVE  Newest'
<1> DEFINE item == [key |-> k, no |-> puts']
<1>0. /\ TypeOK /\ queue \in Seq(Items) /\ Single(queue) /\ newest \in [Keys -> 0 .. MaxPuts]
      /\ puts' = puts + 1 /\ item \in Items /\ queue' = PutLast(queue, item)
      /\ newest' = [newest EXCEPT ![k] = puts']
      /\ UNCHANGED <<table, held, crossed>>
  <2>1. TypeOK /\ queue \in Seq(Items) /\ Single(queue)  BY DEF Inv, TypeOK, Single
  <2>2. /\ puts' = puts + 1 /\ queue' = PutLast(queue, item)
        /\ newest' = [newest EXCEPT ![k] = puts'] /\ UNCHANGED <<table, held, crossed>>
    BY DEF Put
  <2>3. newest \in [Keys -> 0 .. MaxPuts]  BY DEF Inv, TypeOK, Tables
  <2>4. puts' \in 1 .. MaxPuts  BY StatusAssumption DEF Put, Inv, TypeOK
  <2>5. item \in Items  BY <2>4 DEF Items
  <2> QED BY <2>1, <2>2, <2>3, <2>5
<1>1. /\ \A i \in DOMAIN queue' : \/ queue'[i] = item
                                  \/ queue'[i].key # k /\ \E j \in DOMAIN queue : queue'[i] = queue[j]
      /\ \E i \in DOMAIN queue' : queue'[i] = item
      /\ \A j \in DOMAIN queue : queue[j].key # k => \E i \in DOMAIN queue' : queue'[i] = queue[j]
  <2>1. item.key = k  OBVIOUS
  <2> HIDE DEF item
  <2>2. /\ AddsOnly(queue, queue', item) /\ Keeps(queue, queue', item.key)
        /\ \E i \in DOMAIN queue' : queue'[i] = item
    BY <1>0, PutLastFacts
  <2> QED BY <2>1, <2>2 DEF AddsOnly, Keeps
<1>2. \A i \in DOMAIN queue : queue[i].key \in Keys
  <2>1. \A i \in DOMAIN queue : queue[i] \in Items  BY <1>0
  <2> QED BY <2>1 DEF Items
<1>3. IsQueued(k)'
  BY <1>1 DEF IsQueued
<1>4. \A l \in Keys : IsQueued(l) => IsQueued(l)'
  BY <1>1, <1>3 DEF IsQueued
<1>5. \A l \in Keys : l # k => newest'[l] = newest[l]
  BY <1>0
<1>6. QueueIsNewest'
  <2> SUFFICES ASSUME NEW i \in DOMAIN queue'
               PROVE  queue'[i].no = newest'[queue'[i].key]
    BY DEF QueueIsNewest
  <2>1. CASE queue'[i] = item  BY <2>1, <1>0
  <2>2. ASSUME queue'[i].key # k, NEW j \in DOMAIN queue, queue'[i] = queue[j]
        PROVE  queue'[i].no = newest'[queue'[i].key]
    BY <2>2, <1>2, <1>5 DEF Inv, QueueIsNewest
  <2> QED BY <2>1, <2>2, <1>1
<1>7. HeldIsNewest'
  BY <1>0, <1>3, <1>4, <1>5 DEF Inv, HeldIsNewest, Holds
<1>8. HeldByOne'
  BY <1>0 DEF Inv, HeldByOne, Holds
<1>9. RowsAreNewest'
  <2> SUFFICES ASSUME NEW l \in Keys \ crossed, ~IsQueued(l)', ~\E t \in Threads : Holds(t, l)
               PROVE  table[l] = newest'[l]
    BY <1>0 DEF RowsAreNewest, OnItsWay, Holds
  <2>1. l # k /\ ~IsQueued(l)  BY <1>3, <1>4
  <2> QED BY <2>1, <1>5 DEF Inv, RowsAreNewest, OnItsWay
<1> QED BY <1>6, <1>7, <1>8, <1>9 DEF Newest

LEMMA TakeNewest ==
  ASSUME NEW t \in Threads, Inv, Take(t)
  PROVE  Newest'
<1> DEFINE item == Head(queue)
           k == item.key
<1>0. /\ queue \in Seq(Items) /\ Single(queue) /\ queue # <<>> /\ held[t] = None
      /\ queue' = Tail(queue) /\ held' = [held EXCEPT ![t] = item] /\ DOMAIN held = Threads
      /\ UNCHANGED <<table, newest>>
  BY DEF Take, Inv, TypeOK, Single
<1>1. /\ item \in Items /\ item # None /\ k \in Keys /\ item = queue[1] /\ 1 \in DOMAIN queue
      /\ \A i \in DOMAIN queue' : queue'[i].key # k /\ \E j \in DOMAIN queue : queue'[i] = queue[j]
      /\ \A j \in DOMAIN queue : queue[j].key # k => \E i \in DOMAIN queue' : queue'[i] = queue[j]
  <2>1. item \in Items  BY <1>0, TailFacts
  <2>2. item # None /\ k \in Keys  BY <2>1, StatusAssumption DEF Items
  <2> QED BY <2>1, <2>2, <1>0, TailFacts
<1> HIDE DEF item
<1>2. item.no = newest[k] /\ IsQueued(k)
  BY <1>1 DEF Inv, QueueIsNewest, IsQueued
<1>3. \A l \in Keys : l # k => (IsQueued(l)' <=> IsQueued(l))
  BY <1>1 DEF IsQueued
<1>4. crossed' = IF \E u \in Threads : Holds(u, k) THEN crossed \cup {k} ELSE crossed \ {k}
  BY DEF Take, item
<1>5. /\ \A u \in Threads, l \in Keys : Holds(u, l)' <=> IF u = t THEN l = k ELSE Holds(u, l)
      /\ \A u \in Threads : u # t => held'[u] = held[u]
      /\ held'[t] = item
  BY <1>0, <1>1 DEF Holds
<1>6. QueueIsNewest'
  BY <1>0, <1>1 DEF Inv, QueueIsNewest
<1>7. k \notin crossed' => ~\E u \in Threads : Holds(u, k)
  BY <1>4
<1>8. \A l \in Keys \ crossed' : l # k => l \notin crossed
  BY <1>4
<1>9. HeldIsNewest'
  <2> SUFFICES ASSUME NEW u \in Threads, NEW l \in Keys \ crossed', Holds(u, l)'
               PROVE  held'[u].no = newest[l] \/ IsQueued(l)'
    BY <1>0 DEF HeldIsNewest
  <2>1. CASE l = k  BY <2>1, <1>2, <1>5, <1>7
  <2>2. CASE l # k
    <3>1. u # t /\ Holds(u, l) /\ held'[u] = held[u] /\ l \notin crossed  BY <2>2, <1>5, <1>8
    <3> QED BY <3>1, <2>2, <1>3 DEF Inv, HeldIsNewest
  <2> QED BY <2>1, <2>2
<1>10. HeldByOne'
  <2> SUFFICES ASSUME NEW u \in Threads, NEW v \in Threads, NEW l \in Keys \ crossed',
                      Holds(u, l)', Holds(v, l)'
               PROVE  u = v
    BY DEF HeldByOne
  <2>1. CASE l = k  BY <2>1, <1>5, <1>7
  <2>2. CASE l # k
    <3>1. Holds(u, l) /\ Holds(v, l) /\ l \notin crossed  BY <2>2, <1>5, <1>8
    <3> QED BY <3>1 DEF Inv, HeldByOne
  <2> QED BY <2>1, <2>2
<1>11. RowsAreNewest'
  <2> SUFFICES ASSUME NEW l \in Keys \ crossed', ~IsQueued(l)', ~\E u \in Threads : Holds(u, l)'
               PROVE  table[l] = newest[l]
    BY <1>0 DEF RowsAreNewest, OnItsWay
  <2>1. l # k /\ ~IsQueued(l) /\ l \notin crossed  BY <1>3, <1>5, <1>8
  <2>2. ~\E u \in Threads : Holds(u, l)
    <3>1. ~Holds(t, l)  BY <1>0 DEF Holds
    <3> QED BY <3>1, <1>5
  <2> QED BY <2>1, <2>2 DEF Inv, RowsAreNewest, OnItsWay
<1> QED BY <1>6, <1>9, <1>10, <1>11 DEF Newest

LEMMA RecordNewest ==
  ASSUME NEW t \in Threads, Inv, Record(t)
  PROVE  Newest'
<1> DEFINE k == held[t].key
<1>1. /\ k \in Keys /\ Holds(t, k) /\ table' = [table EXCEPT ![k] = held[t].no]
      /\ table \in [Keys -> 0 .. MaxPuts] /\ DOMAIN held = Threads
      /\ held' = [held EXCEPT ![t] = None] /\ UNCHANGED <<queue, newest, crossed>>
  BY DEF Record, Inv, TypeOK, Items, Tables, Holds, RowRecorded
<1> HIDE DEF k
<1>2. \A u \in Threads, l \in Keys : Holds(u, l)' <=> u # t /\ Holds(u, l)
  BY <1>1 DEF Holds
<1>3. \A u \in Threads : u # t => held'[u] = held[u]
  BY <1>1
<1>4. QueueIsNewest'
  BY <1>1 DEF Inv, QueueIsNewest
<1>5. \A l : IsQueued(l)' <=> IsQueued(l)
  BY <1>1 DEF IsQueued
<1>6. HeldIsNewest'
  BY <1>1, <1>2, <1>3, <1>5 DEF Inv, HeldIsNewest
<1>7. HeldByOne'
  BY <1>1, <1>2 DEF Inv, HeldByOne
<1>8. RowsAreNewest'
  <2> SUFFICES ASSUME NEW l \in Keys \ crossed, ~IsQueued(l), ~\E u \in Threads : Holds(u, l)'
               PROVE  table'[l] = newest[l]
    BY <1>1, <1>5 DEF RowsAreNewest, OnItsWay
  <2>1. CASE l = k
    <3>1. held[t].no = newest[k]  BY <2>1, <1>1 DEF Inv, HeldIsNewest
    <3> QED BY <3>1, <2>1, <1>1
  <2>2. CASE l # k
    <3>1. ~\E u \in Threads : Holds(u, l)
      <4>1. ~Holds(t, l)  BY <2>2, <1>1 DEF Holds, k
      <4> QED BY <4>1, <1>2
    <3>2. table[l] = newest[l]  BY <3>1 DEF Inv, RowsAreNewest, OnItsWay
    <3> QED BY <3>2, <2>2, <1>1
  <2> QED BY <2>1, <2>2
<1> QED BY <1>4, <1>6, <1>7, <1>8 DEF Newest

(* start() drops the item of a key from the queue: what is left is the     *)
(* item a thread holds, or the row.                                        *)
LEMMA ClearNewest ==
  ASSUME NEW p \in Requesters, Inv, ClearStatuses(p), queue # <<>>
  PROVE  Newest'
<1> DEFINE k == Head(queue).key
<1>0. /\ queue \in Seq(Items) /\ Single(queue) /\ queue # <<>> /\ queue' = Tail(queue)
      /\ newest' = [newest EXCEPT ![k] = Left(k)] /\ DOMAIN newest = Keys
      /\ UNCHANGED <<table, held, crossed>>
  BY DEF ClearStatuses, Inv, TypeOK, Tables, Single
<1>1. /\ k \in Keys
      /\ \A i \in DOMAIN queue' : queue'[i].key # k /\ \E j \in DOMAIN queue : queue'[i] = queue[j]
      /\ \A j \in DOMAIN queue : queue[j].key # k => \E i \in DOMAIN queue' : queue'[i] = queue[j]
  BY <1>0, TailFacts DEF Items
<1>2. \A i \in DOMAIN queue : queue[i].key \in Keys
  <2>1. \A i \in DOMAIN queue : queue[i] \in Items  BY <1>0
  <2> QED BY <2>1 DEF Items
<1> HIDE DEF k
<1>3. /\ newest'[k] = Left(k)
      /\ \A l \in Keys : l # k => newest'[l] = newest[l]
  BY <1>0, <1>1
<1>4. \A l \in Keys : l # k => (IsQueued(l)' <=> IsQueued(l))
  BY <1>1 DEF IsQueued
<1>5. \A t, l : Holds(t, l)' <=> Holds(t, l)
  BY <1>0 DEF Holds
<1>6. QueueIsNewest'
  BY <1>1, <1>2, <1>3 DEF Inv, QueueIsNewest
<1>7. HeldIsNewest'
  <2> SUFFICES ASSUME NEW t \in Threads, NEW l \in Keys \ crossed, Holds(t, l)
               PROVE  held[t].no = newest'[l] \/ IsQueued(l)'
    BY <1>0, <1>5 DEF HeldIsNewest
  <2>1. CASE l = k
    <3> DEFINE u == CHOOSE v \in Threads : Holds(v, k)
    <3>1. u \in Threads /\ Holds(u, k)  BY <2>1
    <3>2. Left(k) = held[u].no  BY <2>1 DEF Left
    <3>3. u = t
      <4> HIDE DEF u
      <4> QED BY <2>1, <3>1 DEF Inv, HeldByOne
    <3> QED BY <2>1, <3>2, <3>3, <1>3
  <2>2. CASE l # k
    BY <2>2, <1>3, <1>4 DEF Inv, HeldIsNewest
  <2> QED BY <2>1, <2>2
<1>8. HeldByOne'
  BY <1>0, <1>5 DEF Inv, HeldByOne
<1>9. RowsAreNewest'
  <2> SUFFICES ASSUME NEW l \in Keys \ crossed, ~IsQueued(l)', ~\E t \in Threads : Holds(t, l)
               PROVE  table[l] = newest'[l]
    BY <1>0, <1>5 DEF RowsAreNewest, OnItsWay
  <2>1. CASE l = k  BY <2>1, <1>3 DEF Left
  <2>2. CASE l # k  BY <2>2, <1>3, <1>4 DEF Inv, RowsAreNewest, OnItsWay
  <2> QED BY <2>1, <2>2
<1> QED BY <1>6, <1>7, <1>8, <1>9 DEF Newest

(* What is on its way is not touched when rows are emptied.                *)
LEMMA EmptyNewest ==
  ASSUME NEW K \in SUBSET Keys, Inv, EmptyRows(K)
  PROVE  Newest'
<1>0. /\ UNCHANGED <<queue, held>> /\ queue \in Seq(Items)
      /\ \A k \in Keys : table'[k] = IF k \in K THEN 0 ELSE table[k]
      /\ \A k \in Keys : newest'[k] = IF k \in K /\ ~OnItsWay(k) THEN 0 ELSE newest[k]
      /\ crossed' = {k \in crossed : k \in K => OnItsWay(k)}
  BY DEF EmptyRows, Inv, TypeOK
<1>1. /\ \A k : (IsQueued(k)' <=> IsQueued(k)) /\ (OnItsWay(k)' <=> OnItsWay(k))
      /\ \A t, k : Holds(t, k)' <=> Holds(t, k)
  BY <1>0 DEF IsQueued, Holds, OnItsWay
<1>2. \A k \in Keys : OnItsWay(k) => newest'[k] = newest[k] /\ (k \in crossed' <=> k \in crossed)
  BY <1>0
<1>3. QueueIsNewest'
  <2> SUFFICES ASSUME NEW i \in DOMAIN queue  PROVE queue[i].no = newest'[queue[i].key]
    BY <1>0 DEF QueueIsNewest
  <2>1. queue[i].key \in Keys /\ OnItsWay(queue[i].key)
    <3>1. queue[i] \in Items  BY <1>0
    <3> QED BY <3>1 DEF Items, OnItsWay, IsQueued
  <2> QED BY <2>1, <1>2 DEF Inv, QueueIsNewest
<1>4. HeldIsNewest' /\ HeldByOne'
  <2>1. \A t \in Threads, k \in Keys : Holds(t, k) => OnItsWay(k)  BY DEF OnItsWay
  <2> QED BY <2>1, <1>0, <1>1, <1>2 DEF Inv, HeldIsNewest, HeldByOne
<1>5. RowsAreNewest'
  <2> SUFFICES ASSUME NEW k \in Keys \ crossed', ~OnItsWay(k)
               PROVE  table'[k] = newest'[k]
    BY <1>1 DEF RowsAreNewest
  <2>1. CASE k \in K  BY <1>0, <2>1
  <2>2. CASE k \notin K  BY <1>0, <2>2 DEF Inv, RowsAreNewest
  <2> QED BY <2>1, <2>2
<1> QED BY <1>3, <1>4, <1>5 DEF Newest

(* All other steps leave queue, table and threads' items alone.            *)
LEMMA OthersNewest ==
  ASSUME Inv, UNCHANGED <<queue, table, held, newest, crossed>>
  PROVE  Newest'
BY DEF Inv, Newest, QueueIsNewest, HeldIsNewest, HeldByOne, RowsAreNewest, Holds, IsQueued, OnItsWay

-----------------------------------------------------------------------------
LEMMA NextInv == Inv /\ [Next]_vars => Inv'
<1> SUFFICES ASSUME Inv, [Next]_vars  PROVE Inv'
  OBVIOUS
<1> SUFFICES TypeOK' /\ Newest'
  BY DEF Inv, Newest
<1>0. TypeOK  BY DEF Inv
<1> DEFINE Same == UNCHANGED <<queue, table, held, newest, crossed>>
<1>1. ASSUME NEW k \in Keys, Put(k)  PROVE TypeOK' /\ Newest'
  BY <1>0, <1>1, PutTypes, PutNewest
<1>2. CASE Log
  <2>1. Same  BY <1>2 DEF Log
  <2> QED BY <1>0, <1>2, <2>1, LogTypes, OthersNewest
<1>3. CASE DrainForGone \/ StrayEnds
  <2>1. Same  BY <1>3 DEF DrainForGone, DrainFor, StrayEnds, history
  <2> QED BY <1>0, <1>3, <2>1, DrainForTypes, StrayEndsTypes, OthersNewest
<1>4. ASSUME NEW t \in Threads, Take(t)  PROVE TypeOK' /\ Newest'
  BY <1>0, <1>4, TakeTypes, TakeNewest
<1>5. ASSUME NEW t \in Threads, Record(t)  PROVE TypeOK' /\ Newest'
  BY <1>0, <1>5, RecordTypes, RecordNewest
<1>6. ASSUME NEW t \in Threads, NoMoreStatuses(t) \/ SeesLine(t) \/ GetLine(t)
      PROVE  TypeOK' /\ Newest'
  <2>1. Same  BY <1>6 DEF NoMoreStatuses, SeesLine, GetLine, history
  <2> QED BY <1>0, <1>6, <2>1, NoMoreStatusesTypes, SeesLineTypes, GetLineTypes, OthersNewest
<1>7. ASSUME NEW t \in Threads, Finish(t)  PROVE TypeOK' /\ Newest'
  <2>1. CASE t = Loop
    <3>1. SendEvents  BY <1>7, <2>1 DEF Finish
    <3>2. Same  BY <3>1 DEF SendEvents, history
    <3> QED BY <1>0, <3>1, <3>2, SendEventsTypes, OthersNewest
  <2>2. CASE t # Loop
    <3>1. Reply(t) /\ t \in Requesters  BY <1>7, <2>2 DEF Finish, Threads
    <3>2. Same  BY <3>1 DEF Reply
    <3> QED BY <1>0, <3>1, <3>2, RequestTypes, OthersNewest
  <2> QED BY <2>1, <2>2
<1>8. ASSUME NEW p \in Pages, Connect(p) \/ Disconnect(p) \/ DrainForPage(p) \/ Receive(p)
      PROVE  TypeOK' /\ Newest'
  <2>1. Same  BY <1>8 DEF Connect, Disconnect, DrainForPage, DrainFor, Receive, history
  <2> QED BY <1>0, <1>8, <2>1, ConnectTypes, DisconnectTypes, DrainForTypes, ReceiveTypes,
             OthersNewest
<1>9. ASSUME NEW p \in Requesters, StatusRequest(p) \/ StartRuntime(p) \/ StopRuntime(p) \/ Stopped(p)
      PROVE  TypeOK' /\ Newest'
  <2>1. Same  BY <1>9 DEF StatusRequest, StartRuntime, StopRuntime, Stopped, history
  <2> QED BY <1>0, <1>9, <2>1, RequestTypes, OthersNewest
<1>11. ASSUME NEW p \in Requesters, Reconnect(p) \/ Render(p)
       PROVE  TypeOK' /\ Newest'
  <2>1. Same  BY <1>11 DEF Reconnect, Render, Arrives
  <2> QED BY <1>0, <1>11, <2>1, ReconnectTypes, RenderTypes, OthersNewest
<1>12. ASSUME NEW p \in Requesters, StartStep(p)
       PROVE  TypeOK' /\ Newest'
  <2>1. CASE ClearStatuses(p)
    <3>1. TypeOK'  BY <1>0, <2>1, ClearTypes
    <3>2. queue = <<>> => Same  BY <2>1 DEF ClearStatuses
    <3> QED BY <2>1, <3>1, <3>2, ClearNewest, OthersNewest
  <2>2. CASE EmptyTags(p) \/ EmptyServers(p)
    BY <1>0, <2>2, EmptyFacts, EmptyTypes, EmptyNewest
  <2>3. CASE EnterStart(p) \/ Started(p) \/ StartRaises(p)
    <3>1. Same  BY <2>3 DEF EnterStart, Started, StartRaises, history
    <3> QED BY <1>0, <2>3, <3>1, RequestTypes, OthersNewest
  <2> QED BY <1>12, <2>1, <2>2, <2>3 DEF StartStep
<1>10. CASE UNCHANGED vars
  <2>1. Same  BY <1>10 DEF vars, history
  <2>2. TypeOK'  BY <1>0, <1>10 DEF vars, wire, history, pageHistory, TypeOK
  <2> QED BY <2>1, <2>2, OthersNewest
<1> QED BY <1>1, <1>2, <1>3, <1>4, <1>5, <1>6, <1>7, <1>8, <1>9, <1>10, <1>11, <1>12
   DEF Next, DrainStep

LEMMA InvHolds == Spec => []Inv
  BY InitInv, NextInv, PTL DEF Spec

(* Queue, tables, threads and pages keep their types: an item per key in   *)
(* the queue, and a handler on the loop exactly while it drains.           *)
THEOREM StatusTypeCorrect == Spec => []TypeOK
<1>1. Inv => TypeOK  BY DEF Inv
<1> QED BY <1>1, InvHolds, PTL

(* A row that nothing on its way will change is the newest of its key that *)
(* start() has not dropped, unless two threads in drain_events() had items *)
(* of the key at once, whatever start() clears under them.                 *)
THEOREM RowsStayNewest == Spec => []RowsAreNewest
<1>1. Inv => RowsAreNewest  BY DEF Inv
<1> QED BY <1>1, InvHolds, PTL

-----------------------------------------------------------------------------
(***************************************************************************)
(* What the pages show.  The messages on their way to a page, with those   *)
(* that the loop will send it, end in the rows of the table: the last one  *)
(* about a key says what its row says, and if none is about it, the page   *)
(* shows the row already.  So it does without the keys in `missed` and     *)
(* those in `reset`, whose rows are empty; and without those in `since`, a *)
(* reply is as good as the table.                                          *)
(***************************************************************************)
Messages == Events \cup Snapshots

Says(m, k) == m.type = "event" => m.item.key = k

RowIn(m, k) == IF m.type = "event" THEN m.item.no ELSE m.rows[k]

EndsIn(stream, shown, k, row) ==
  /\ (\A i \in DOMAIN stream : ~Says(stream[i], k)) => shown[k] = row
  /\ \A i \in DOMAIN stream :
       Says(stream[i], k) /\ (\A j \in DOMAIN stream : i < j => ~Says(stream[j], k))
         => RowIn(stream[i], k) = row

ToSend(p) == IF serves = p THEN events ELSE <<>>

Stream(p) == inbox[p] \o ToSend(p)

EventsAreServed == serves = None => events = <<>>

RepliesAreRecent ==
  \A p \in Pages : reply[p] # None => \A k \in Keys \ since[p] : reply[p].rows[k] = table[k]

ResetIsEmpty == \A p \in Pages, k \in Keys : k \in reset[p] => table[k] = 0

StreamsEndInRows ==
  \A p \in Pages : socket[p] = "open" =>
    \A k \in Keys \ (missed[p] \cup reset[p]) : EndsIn(Stream(p), view[p], k, table[k])

PagesInv == EventsAreServed /\ RepliesAreRecent /\ ResetIsEmpty /\ StreamsEndInRows

(* One more message.                                                       *)
LEMMA AppendEnds ==
  ASSUME NEW s \in Seq(Messages), NEW m \in Messages, NEW shown, NEW k, NEW row, NEW before,
         \/ Says(m, k) /\ RowIn(m, k) = row
         \/ ~Says(m, k) /\ before = row /\ EndsIn(s, shown, k, before)
  PROVE  EndsIn(Append(s, m), shown, k, row)
<1> DEFINE t == Append(s, m)
           n == Len(s)
<1>1. /\ n \in Nat /\ DOMAIN s = 1 .. n /\ DOMAIN t = 1 .. n + 1
      /\ t[n + 1] = m /\ \A i \in 1 .. n : t[i] = s[i]
  OBVIOUS
<1> HIDE DEF t, n
<1>2. CASE Says(m, k) /\ RowIn(m, k) = row
  <2>1. \A i \in DOMAIN t : i = n + 1 \/ i < n + 1  BY <1>1
  <2> QED BY <1>1, <1>2, <2>1 DEF EndsIn, t
<1>3. CASE ~Says(m, k) /\ before = row /\ EndsIn(s, shown, k, before)
  <2>1. (\A i \in DOMAIN t : ~Says(t[i], k)) => shown[k] = row
    BY <1>1, <1>3 DEF EndsIn
  <2>2. ASSUME NEW i \in DOMAIN t, Says(t[i], k), \A j \in DOMAIN t : i < j => ~Says(t[j], k)
        PROVE  RowIn(t[i], k) = row
    <3>1. i \in DOMAIN s /\ t[i] = s[i]  BY <1>1, <1>3, <2>2
    <3>2. \A j \in DOMAIN s : i < j => ~Says(s[j], k)  BY <1>1, <2>2
    <3> QED BY <1>3, <2>2, <3>1, <3>2 DEF EndsIn
  <2> QED BY <2>1, <2>2 DEF EndsIn, t
<1> QED BY <1>2, <1>3

(* One message received, as Receive() does it.                             *)
Shows(shown, m, k) == IF Says(m, k) THEN RowIn(m, k) ELSE shown[k]

LEMMA TailEnds ==
  ASSUME NEW s \in Seq(Messages), s # <<>>, NEW shown, NEW after, NEW k, NEW row,
         after[k] = Shows(shown, Head(s), k), EndsIn(s, shown, k, row)
  PROVE  EndsIn(Tail(s), after, k, row)
<1> DEFINE t == Tail(s)
<1>1. /\ 1 \in DOMAIN s /\ Head(s) = s[1] /\ DOMAIN s = 1 .. Len(s) /\ Len(s) \in Nat
      /\ DOMAIN t = 1 .. Len(s) - 1 /\ \A i \in DOMAIN t : t[i] = s[i + 1]
  OBVIOUS
<1> HIDE DEF t
<1>2. \A i \in DOMAIN s : i = 1 \/ (i - 1 \in DOMAIN t /\ t[i - 1] = s[i])  BY <1>1
<1>3. ASSUME \A i \in DOMAIN t : ~Says(t[i], k)  PROVE after[k] = row
  <2>1. \A i \in DOMAIN s : 1 < i => ~Says(s[i], k)  BY <1>1, <1>2, <1>3
  <2>2. CASE Says(s[1], k)  BY <1>1, <2>1, <2>2 DEF EndsIn, Shows
  <2>3. CASE ~Says(s[1], k)
    <3>1. \A i \in DOMAIN s : ~Says(s[i], k)  BY <1>2, <1>3, <2>3
    <3> QED BY <1>1, <2>3, <3>1 DEF EndsIn, Shows
  <2> QED BY <2>2, <2>3
<1>4. ASSUME NEW i \in DOMAIN t, Says(t[i], k), \A j \in DOMAIN t : i < j => ~Says(t[j], k)
      PROVE  RowIn(t[i], k) = row
  <2>1. i + 1 \in DOMAIN s /\ t[i] = s[i + 1]  BY <1>1
  <2>2. ASSUME NEW j \in DOMAIN s, i + 1 < j  PROVE ~Says(s[j], k)
    <3>1. j - 1 \in DOMAIN t /\ t[j - 1] = s[j] /\ i < j - 1  BY <1>1, <1>2, <2>2
    <3> QED BY <3>1, <1>4
  <2> QED BY <2>1, <2>2, <1>4 DEF EndsIn
<1> QED BY <1>3, <1>4 DEF EndsIn, t

(* A page that shows something else, but shows the row.                    *)
LEMMA ShownEnds ==
  ASSUME NEW s, NEW shown, NEW k, NEW row, NEW other, EndsIn(s, other, k, row), shown[k] = row
  PROVE  EndsIn(s, shown, k, row)
BY DEF EndsIn

(* The messages on the way to a page are messages, and what is taken from  *)
(* one end or added at the other changes the stream there.                 *)
LEMMA StreamFacts ==
  ASSUME NEW a \in Seq(Messages), NEW b \in Seq(Messages)
  PROVE  /\ a \o b \in Seq(Messages) /\ a \o <<>> = a
         /\ \A m \in Messages : a \o Append(b, m) = Append(a \o b, m)
         /\ a # <<>> => a \o b # <<>> /\ Head(a \o b) = Head(a) /\ Tail(a) \o b = Tail(a \o b)
         /\ a = <<>> => a \o b = b
<1>1. a \o b \in Seq(Messages) /\ a \o <<>> = a /\ (a = <<>> => a \o b = b)
  OBVIOUS
<1>2. \A m \in Messages : a \o Append(b, m) = Append(a \o b, m)
  OBVIOUS
<1>3. a # <<>> => a \o b # <<>> /\ Head(a \o b) = Head(a) /\ Tail(a) \o b = Tail(a \o b)
  OBVIOUS
<1> QED BY <1>1, <1>2, <1>3

(* The stream of a page is one of messages.                                *)
LEMMA StreamType ==
  ASSUME TypeOK, NEW p \in Pages
  PROVE  /\ inbox[p] \in Seq(Messages) /\ ToSend(p) \in Seq(Messages)
         /\ Stream(p) \in Seq(Messages)
         /\ events \in Seq(Messages)
<1>1. inbox[p] \in Seq(Messages)  BY DEF TypeOK, Messages
<1>2. events \in Seq(Messages)
  <2>1. events \in Seq(Events)  BY DEF TypeOK
  <2>2. Events \subseteq Messages  BY DEF Messages
  <2> HIDE DEF Messages
  <2> QED BY <2>1, <2>2
<1>3. ToSend(p) \in Seq(Messages)  BY <1>2 DEF ToSend
<1> QED BY <1>1, <1>2, <1>3, StreamFacts DEF Stream

(* A step that leaves all of this alone.                                   *)
LEMMA StillPages ==
  ASSUME PagesInv,
         UNCHANGED <<table, serves, events, socket, inbox, reply, view, missed, reset, since>>
  PROVE  PagesInv'
<1>1. \A p : Stream(p)' = Stream(p)  BY DEF Stream, ToSend
<1> QED BY <1>1 DEF PagesInv, EventsAreServed, RepliesAreRecent, ResetIsEmpty, StreamsEndInRows

(* _record_status: the page that the loop serves will hear of the new row; *)
(* the others miss it.                                                     *)
LEMMA RecordPages ==
  ASSUME TypeOK, PagesInv, NEW t \in Threads, Record(t)
  PROVE  PagesInv'
<1> DEFINE k == held[t].key
           m == [type |-> "event", item |-> held[t]]
<1>1. /\ held[t] \in Items /\ k \in Keys /\ m \in Messages
      /\ table' = [table EXCEPT ![k] = held[t].no] /\ DOMAIN table = Keys
      /\ events' = IF t = Loop THEN Append(events, m) ELSE events
      /\ UNCHANGED <<serves, socket, inbox, reply, view>>
      /\ t = Loop => serves # None
      /\ \A p \in Pages : reply[p] # None => since'[p] = since[p] \cup {k}
      /\ \A p \in Pages : socket[p] = "open" =>
           missed'[p] = IF t = Loop /\ serves = p THEN missed[p] \ {k} ELSE missed[p] \cup {k}
      /\ \A p \in Pages : reset'[p] = reset[p] \ {k}
  <2>1. held[t] \in Items /\ k \in Keys  BY DEF Record, TypeOK, Items
  <2>2. m \in Messages  BY <2>1 DEF Messages, Events
  <2>3. t = Loop => serves # None  BY DEF Record, TypeOK
  <2>4. \A p \in Pages : reply[p] # None => since'[p] = since[p] \cup {k}
    BY DEF Record, ChangeSince
  <2>5. \A p \in Pages : socket[p] = "open" =>
          missed'[p] = IF t = Loop /\ serves = p THEN missed[p] \ {k} ELSE missed[p] \cup {k}
    BY DEF Record
  <2> QED BY <2>1, <2>2, <2>3, <2>4, <2>5 DEF Record, RowRecorded, wire, TypeOK, Tables
<1>2. /\ \A l : Says(m, l) <=> l = k
      /\ RowIn(m, k) = held[t].no
  BY DEF Says, RowIn
<1> HIDE DEF k, m
<1>3. table'[k] = held[t].no /\ \A l \in Keys : l # k => table'[l] = table[l]
  BY <1>1
<1>4. EventsAreServed'
  BY <1>1 DEF PagesInv, EventsAreServed
<1>5. RepliesAreRecent' /\ ResetIsEmpty'
  BY <1>1, <1>3 DEF PagesInv, RepliesAreRecent, ResetIsEmpty
<1>6. StreamsEndInRows'
  <2> SUFFICES ASSUME NEW p \in Pages, socket[p] = "open",
                      NEW l \in Keys \ (missed'[p] \cup reset'[p])
               PROVE  EndsIn(Stream(p)', view[p], l, table'[l])
    BY <1>1 DEF StreamsEndInRows
  <2>1. l # k => EndsIn(Stream(p), view[p], l, table[l])
    BY <1>1 DEF PagesInv, StreamsEndInRows
  <2>2. CASE t = Loop /\ serves = p
    <3>1. Stream(p)' = Append(Stream(p), m)
      <4>1. ToSend(p)' = Append(ToSend(p), m) /\ inbox' = inbox  BY <1>1, <2>2 DEF ToSend
      <4>2. inbox[p] \in Seq(Messages) /\ ToSend(p) \in Seq(Messages)  BY StreamType
      <4>3. \A a, b \in Seq(Messages) : a \o Append(b, m) = Append(a \o b, m)
        BY <1>1, StreamFacts
      <4>4. Stream(p)' = inbox[p] \o Append(ToSend(p), m)  BY <4>1 DEF Stream
      <4> QED BY <4>2, <4>3, <4>4 DEF Stream
    <3>2. CASE l = k
      <4>1. Says(m, l) /\ RowIn(m, l) = table'[l]  BY <1>2, <1>3, <3>2
      <4>2. EndsIn(Append(Stream(p), m), view[p], l, table'[l])
        BY <1>1, <4>1, StreamType, AppendEnds
      <4> QED BY <3>1, <4>2
    <3>3. CASE l # k
      BY <1>1, <1>2, <1>3, <2>1, <3>1, <3>3, StreamType, AppendEnds
    <3> QED BY <3>2, <3>3
  <2>3. CASE ~(t = Loop /\ serves = p)
    <3>1. l # k  BY <1>1, <2>3
    <3>2. Stream(p)' = Stream(p)  BY <1>1, <2>3 DEF Stream, ToSend
    <3> QED BY <1>3, <2>1, <3>1, <3>2
  <2> QED BY <2>2, <2>3
<1> QED BY <1>4, <1>5, <1>6 DEF PagesInv

(* start() empties rows: those that change are reset for the pages that    *)
(* are connected, and have changed since the replies on their way.         *)
LEMMA EmptyPages ==
  ASSUME TypeOK, PagesInv, NEW K \in SUBSET Keys, EmptyRows(K)
  PROVE  PagesInv'
<1>1. /\ UNCHANGED <<serves, events, socket, inbox, reply, view, missed>>
      /\ \A k \in Keys : table'[k] = IF k \in Emptied(K) THEN 0 ELSE table[k]
      /\ \A p \in Pages : reset'[p] = IF socket[p] = "open" THEN reset[p] \cup Emptied(K)
                                                            ELSE reset[p]
      /\ \A p \in Pages : reply[p] # None => since'[p] = since[p] \cup Emptied(K)
  BY DEF EmptyRows, Emptied, ChangeSince, wire
<1>2. \A p : Stream(p)' = Stream(p)  BY <1>1 DEF Stream, ToSend
<1>3. EventsAreServed' /\ ResetIsEmpty'
  BY <1>1 DEF PagesInv, EventsAreServed, ResetIsEmpty
<1>4. RepliesAreRecent'
  BY <1>1 DEF PagesInv, RepliesAreRecent
<1>5. StreamsEndInRows'
  <2> SUFFICES ASSUME NEW p \in Pages, socket[p] = "open",
                      NEW k \in Keys \ (missed[p] \cup reset'[p])
               PROVE  EndsIn(Stream(p), view[p], k, table'[k])
    BY <1>1, <1>2 DEF StreamsEndInRows
  <2>1. k \notin reset[p] /\ table'[k] = table[k]  BY <1>1
  <2> QED BY <2>1 DEF PagesInv, StreamsEndInRows
<1> QED BY <1>3, <1>4, <1>5 DEF PagesInv

(* A new WebSocket brings the table.                                       *)
LEMMA ConnectPages ==
  ASSUME TypeOK, PagesInv, NEW p \in Pages, Connect(p)
  PROVE  PagesInv'
<1> DEFINE m == [type |-> "snapshot", rows |-> table]
<1>1. /\ serves = None /\ DOMAIN inbox = Pages
      /\ inbox' = [inbox EXCEPT ![p] = <<m>>] /\ socket' = [socket EXCEPT ![p] = "open"]
      /\ DOMAIN socket = Pages /\ DOMAIN missed = Pages /\ missed' = [missed EXCEPT ![p] = {}]
      /\ DOMAIN reset = Pages /\ reset' = [reset EXCEPT ![p] = {}]
      /\ UNCHANGED <<table, serves, events, reply, view, since>>
  BY DEF Connect, LoopIsFree, TypeOK
<1>2. \A k : Says(m, k) /\ RowIn(m, k) = table[k]
  BY DEF Says, RowIn
<1>3. m \in Messages
  BY DEF Messages, Snapshots, TypeOK
<1> HIDE DEF m
<1>4. Stream(p)' = <<m>>
  <2>1. ToSend(p)' = <<>>  BY <1>1, StatusAssumption DEF ToSend
  <2>2. inbox'[p] = <<m>>  BY <1>1
  <2> QED BY <1>3, <2>1, <2>2 DEF Stream
<1>5. EventsAreServed' /\ RepliesAreRecent' /\ ResetIsEmpty'
  BY <1>1 DEF PagesInv, EventsAreServed, RepliesAreRecent, ResetIsEmpty
<1>6. StreamsEndInRows'
  <2> SUFFICES ASSUME NEW q \in Pages, socket'[q] = "open",
                      NEW k \in Keys \ (missed'[q] \cup reset'[q])
               PROVE  EndsIn(Stream(q)', view[q], k, table[k])
    BY <1>1 DEF StreamsEndInRows
  <2>1. CASE q = p
    <3>1. EndsIn(<<m>>, view[q], k, table[k])
      BY <1>2, <1>3 DEF EndsIn
    <3> QED BY <1>4, <2>1, <3>1
  <2>2. CASE q # p
    <3>1. Stream(q)' = Stream(q)  BY <1>1, <2>2 DEF Stream, ToSend
    <3> QED BY <1>1, <2>2, <3>1 DEF PagesInv, StreamsEndInRows
  <2> QED BY <2>1, <2>2
<1> QED BY <1>5, <1>6 DEF PagesInv

(* A connection that is gone promises nothing, and what the loop drains    *)
(* for it is sent to nobody.                                               *)
LEMMA LeavePages ==
  ASSUME TypeOK, PagesInv, NEW p \in Pages, NEW next \in {"none", "asked"}, Leave(p, next),
         UNCHANGED <<table, events>>, \A q \in Pages : q # p => view'[q] = view[q]
  PROVE  EventsAreServed' /\ ResetIsEmpty' /\ StreamsEndInRows'
<1>1. /\ DOMAIN inbox = Pages /\ inbox' = [inbox EXCEPT ![p] = <<>>]
      /\ DOMAIN socket = Pages /\ socket' = [socket EXCEPT ![p] = next]
      /\ serves' = (IF serves = p THEN Gone ELSE serves) /\ Gone \notin Pages \cup {None}
      /\ DOMAIN missed = Pages /\ missed' = [missed EXCEPT ![p] = {}]
      /\ DOMAIN reset = Pages /\ reset' = [reset EXCEPT ![p] = {}]
  BY StatusAssumption DEF Leave, TypeOK
<1>2. EventsAreServed' /\ ResetIsEmpty'
  BY <1>1 DEF PagesInv, EventsAreServed, ResetIsEmpty
<1>3. \A q \in Pages : socket'[q] = "open" =>
        /\ q # p /\ socket[q] = "open" /\ Stream(q)' = Stream(q)
        /\ missed'[q] = missed[q] /\ reset'[q] = reset[q]
  BY <1>1 DEF Stream, ToSend
<1>4. StreamsEndInRows'
  BY <1>3 DEF PagesInv, StreamsEndInRows
<1> QED BY <1>2, <1>4

LEMMA DisconnectPages ==
  ASSUME TypeOK, PagesInv, NEW p \in Pages, Disconnect(p)
  PROVE  PagesInv'
<1>1. Leave(p, "none") /\ UNCHANGED <<table, events, view, reply, since>>
  BY DEF Disconnect
<1>2. RepliesAreRecent'  BY <1>1 DEF PagesInv, RepliesAreRecent
<1> QED BY <1>1, <1>2, LeavePages DEF PagesInv

LEMMA ReconnectPages ==
  ASSUME TypeOK, PagesInv, NEW p \in Requesters, Reconnect(p)
  PROVE  PagesInv'
<1>1. /\ p \in Pages /\ Leave(p, "asked") /\ UNCHANGED <<table, events>>
      /\ \A q \in Pages : q # p => view'[q] = view[q]
      /\ reply'[p] = None
      /\ \A q \in Pages : q # p => reply'[q] = reply[q] /\ since'[q] = since[q]
  BY StatusAssumption DEF Reconnect, Arrives, TypeOK
<1>2. RepliesAreRecent'  BY <1>1 DEF PagesInv, RepliesAreRecent
<1> QED BY <1>1, <1>2, LeavePages DEF PagesInv

(* A drain for a page starts without events, and ends with them in its     *)
(* inbox; one for a connection that is gone changes nothing for a page.    *)
LEMMA ServePages ==
  ASSUME TypeOK, PagesInv, SendEvents \/ DrainForGone \/ \E p \in Pages : DrainForPage(p)
  PROVE  PagesInv'
<1>1. UNCHANGED <<table, socket, reply, view, missed, reset, since>>
  BY DEF SendEvents, DrainForGone, DrainForPage, DrainFor, history, pageHistory, wire
<1>2. CASE SendEvents
  <2>1. /\ serves' = None /\ events' = <<>> /\ DOMAIN inbox = Pages
        /\ serves \in Pages \cup {Gone} /\ Gone \notin Pages /\ None \notin Pages
        /\ inbox' = IF serves = Gone THEN inbox ELSE [inbox EXCEPT ![serves] = @ \o events]
    BY <1>2, StatusAssumption DEF SendEvents, IsDrained, TypeOK
  <2>2. ASSUME NEW q \in Pages  PROVE Stream(q)' = Stream(q)
    <3>1. inbox'[q] = IF q = serves THEN inbox[q] \o events ELSE inbox[q]  BY <2>1
    <3>2. ToSend(q)' = <<>>  BY <2>1, StatusAssumption DEF ToSend
    <3>3. Stream(q)' = inbox'[q]
      <4>1. inbox'[q] \in Seq(Messages)  BY <3>1, StreamType, StreamFacts
      <4> QED BY <3>2, <4>1, StreamFacts DEF Stream
    <3>4. CASE q = serves  BY <3>1, <3>3, <3>4 DEF Stream, ToSend
    <3>5. CASE q # serves  BY <3>1, <3>3, <3>5, StreamType, StreamFacts DEF Stream, ToSend
    <3> QED BY <3>4, <3>5
  <2>3. EventsAreServed'  BY <2>1 DEF EventsAreServed
  <2> QED BY <1>1, <2>2, <2>3 DEF PagesInv, RepliesAreRecent, ResetIsEmpty, StreamsEndInRows
<1>3. CASE DrainForGone \/ \E p \in Pages : DrainForPage(p)
  <2>1. events = <<>> /\ events' = <<>> /\ inbox' = inbox
    BY <1>3 DEF DrainForGone, DrainForPage, DrainFor, LoopIsFree, TypeOK, PagesInv,
                EventsAreServed, wire
  <2>2. \A q : Stream(q)' = Stream(q)  BY <2>1 DEF Stream, ToSend
  <2>3. EventsAreServed'  BY <2>1 DEF EventsAreServed
  <2> QED BY <1>1, <2>2, <2>3 DEF PagesInv, RepliesAreRecent, ResetIsEmpty, StreamsEndInRows
<1> QED BY <1>2, <1>3

(* A request begins, fails, or is answered by the table of the moment.     *)
LEMMA RequestPages ==
  ASSUME TypeOK, PagesInv, NEW p \in Requesters,
         \/ StatusRequest(p) \/ Reply(p) \/ StartRuntime(p) \/ StopRuntime(p)
         \/ EnterStart(p) \/ Started(p) \/ StartRaises(p) \/ Stopped(p)
  PROVE  PagesInv'
<1>1. /\ UNCHANGED <<table, serves, events, socket, inbox, view, missed, reset>>
      /\ \/ UNCHANGED <<reply, since>>
         \/ \E to \in {"load", "click"} : Answer(p, to)
  <2>1. CASE StatusRequest(p) \/ StartRuntime(p) \/ StopRuntime(p) \/ StartRaises(p)
    BY <2>1 DEF StatusRequest, StartRuntime, StopRuntime, StartRaises, wire, history, pageHistory
  <2>2. CASE Reply(p)  BY <2>2 DEF Reply
  <2>3. CASE EnterStart(p)  BY <2>3 DEF EnterStart
  <2>4. CASE Started(p)  BY <2>4 DEF Started
  <2>5. CASE Stopped(p)  BY <2>5 DEF Stopped
  <2> QED BY <2>1, <2>2, <2>3, <2>4, <2>5
<1>2. CASE UNCHANGED <<reply, since>>
  BY <1>1, <1>2, StillPages
<1>3. CASE \E to \in {"load", "click"} : Answer(p, to)
  <2>1. \A q : Stream(q)' = Stream(q)  BY <1>1 DEF Stream, ToSend
  <2>2. RepliesAreRecent'
    BY <1>1, <1>3 DEF PagesInv, RepliesAreRecent, Answer, TypeOK
  <2> QED BY <1>1, <2>1, <2>2 DEF PagesInv, EventsAreServed, ResetIsEmpty, StreamsEndInRows
<1> QED BY <1>1, <1>2, <1>3

(* A page that receives a message shows what it says.                      *)
LEMMA ReceivePages ==
  ASSUME TypeOK, PagesInv, NEW p \in Pages, Receive(p)
  PROVE  PagesInv'
<1> DEFINE m == Head(inbox[p])
           rows == IF m.type = "event" THEN [view[p] EXCEPT ![m.item.key] = m.item.no] ELSE m.rows
<1>1. /\ inbox[p] # <<>> /\ inbox' = [inbox EXCEPT ![p] = Tail(@)] /\ DOMAIN inbox = Pages
      /\ view' = [view EXCEPT ![p] = rows]
      /\ DOMAIN view = Pages /\ DOMAIN view[p] = Keys
      /\ UNCHANGED <<table, serves, events, socket, reply, missed, reset, since>>
  BY DEF Receive, TypeOK, Tables, history, pageHistory
<1>2. m \in Messages
  BY <1>1, StreamType
<1>3. \A k \in Keys : rows[k] = Shows(view[p], m, k)
  BY <1>1 DEF Shows, Says, RowIn
<1> HIDE DEF m, rows
<1>4. EventsAreServed' /\ RepliesAreRecent' /\ ResetIsEmpty'
  BY <1>1 DEF PagesInv, EventsAreServed, RepliesAreRecent, ResetIsEmpty
<1>5. StreamsEndInRows'
  <2> SUFFICES ASSUME NEW q \in Pages, socket[q] = "open",
                      NEW k \in Keys \ (missed[q] \cup reset[q])
               PROVE  EndsIn(Stream(q)', view'[q], k, table[k])
    BY <1>1 DEF StreamsEndInRows
  <2>1. EndsIn(Stream(q), view[q], k, table[k])
    BY DEF PagesInv, StreamsEndInRows
  <2>2. CASE q = p
    <3>1. /\ Stream(p) # <<>> /\ Head(Stream(p)) = m /\ Stream(p) \in Seq(Messages)
          /\ Stream(p)' = Tail(Stream(p))
      <4>1. inbox'[p] = Tail(inbox[p]) /\ ToSend(p)' = ToSend(p)  BY <1>1 DEF ToSend
      <4>2. inbox[p] \in Seq(Messages) /\ ToSend(p) \in Seq(Messages)  BY StreamType
      <4>3. /\ inbox[p] \o ToSend(p) # <<>>
            /\ Head(inbox[p] \o ToSend(p)) = Head(inbox[p])
            /\ Tail(inbox[p]) \o ToSend(p) = Tail(inbox[p] \o ToSend(p))
        BY <1>1, <4>2, StreamFacts
      <4> QED BY <4>1, <4>3, StreamType DEF Stream, m
    <3>2. view'[p][k] = Shows(view[p], m, k)  BY <1>1, <1>3
    <3> QED BY <2>1, <2>2, <3>1, <3>2, TailEnds
  <2>3. CASE q # p
    <3>1. Stream(q)' = Stream(q) /\ view'[q] = view[q]  BY <1>1, <2>3 DEF Stream, ToSend
    <3> QED BY <2>1, <3>1
  <2> QED BY <2>2, <2>3
<1> QED BY <1>4, <1>5 DEF PagesInv

(* A page that renders the reply to a click may lose what it has shown     *)
(* since, and with nothing on its way gains what it has missed before.     *)
LEMMA RenderPages ==
  ASSUME TypeOK, PagesInv, NEW p \in Requesters, Render(p)
  PROVE  PagesInv'
<1> DEFINE upToDate == inbox[p] = <<>> /\ serves # p
<1>1. /\ reply[p] # None /\ reply' = [reply EXCEPT ![p] = None]
      /\ view' = [view EXCEPT ![p] = reply[p].rows] /\ since' = [since EXCEPT ![p] = {}]
      /\ socket[p] = "open" => missed'[p] = IF upToDate THEN since[p] ELSE missed[p] \cup since[p]
      /\ reset'[p] = IF upToDate THEN {} ELSE reset[p]
      /\ \A q \in Pages : q # p => missed'[q] = missed[q] /\ reset'[q] = reset[q]
      /\ DOMAIN reply = Pages /\ DOMAIN view = Pages /\ DOMAIN since = Pages /\ p \in Pages
      /\ UNCHANGED <<table, serves, events, socket, inbox>>
  BY StatusAssumption DEF Render, Arrives, TypeOK
<1> HIDE DEF upToDate
<1>2. EventsAreServed' /\ RepliesAreRecent' /\ ResetIsEmpty'
  BY <1>1 DEF PagesInv, EventsAreServed, RepliesAreRecent, ResetIsEmpty
<1>3. StreamsEndInRows'
  <2> SUFFICES ASSUME NEW q \in Pages, socket[q] = "open",
                      NEW k \in Keys \ (missed'[q] \cup reset'[q])
               PROVE  EndsIn(Stream(q), view'[q], k, table[k])
    <3>1. \A r : Stream(r)' = Stream(r)  BY <1>1 DEF Stream, ToSend
    <3> QED BY <1>1, <3>1 DEF StreamsEndInRows
  <2>1. CASE q # p
    BY <1>1, <2>1 DEF PagesInv, StreamsEndInRows
  <2>2. CASE q = p
    <3>1. k \notin since[p] /\ view'[p][k] = table[k]
      BY <1>1, <2>2 DEF PagesInv, RepliesAreRecent
    <3>2. CASE upToDate
      <4>1. Stream(p) = <<>>  BY <3>2 DEF Stream, ToSend, upToDate
      <4> QED BY <2>2, <3>1, <4>1 DEF EndsIn
    <3>3. CASE ~upToDate
      <4>1. EndsIn(Stream(p), view[p], k, table[k])
        BY <1>1, <2>2, <3>3 DEF PagesInv, StreamsEndInRows
      <4> QED BY <2>2, <3>1, <4>1, ShownEnds
    <3> QED BY <3>2, <3>3
  <2> QED BY <2>1, <2>2
<1> QED BY <1>2, <1>3 DEF PagesInv

LEMMA NextPages == TypeOK /\ PagesInv /\ [Next]_vars => PagesInv'
<1> SUFFICES ASSUME TypeOK, PagesInv, [Next]_vars  PROVE PagesInv'
  OBVIOUS
<1> DEFINE Still ==
      UNCHANGED <<table, serves, events, socket, inbox, reply, view, missed, reset, since>>
<1>1. ASSUME NEW k \in Keys, Put(k)  PROVE PagesInv'
  <2>1. Still  BY <1>1 DEF Put, wire, pageHistory
  <2> QED BY <2>1, StillPages
<1>2. CASE Log \/ StrayEnds
  <2>1. Still  BY <1>2 DEF Log, StrayEnds, wire, history, pageHistory
  <2> QED BY <2>1, StillPages
<1>3. ASSUME NEW t \in Threads, DrainStep(t)  PROVE PagesInv'
  <2>1. CASE Record(t)  BY <2>1, RecordPages
  <2>2. CASE Take(t) \/ NoMoreStatuses(t) \/ SeesLine(t) \/ GetLine(t)
    <3>1. Still
      BY <2>2 DEF Take, NoMoreStatuses, SeesLine, GetLine, wire, history, pageHistory
    <3> QED BY <3>1, StillPages
  <2> QED BY <1>3, <2>1, <2>2 DEF DrainStep
<1>4. ASSUME NEW t \in Threads, Finish(t)  PROVE PagesInv'
  BY <1>4, ServePages, RequestPages DEF Finish, Threads
<1>5. ASSUME NEW p \in Requesters, StartStep(p)  PROVE PagesInv'
  <2>1. CASE ClearStatuses(p)
    <3>1. Still  BY <2>1 DEF ClearStatuses, wire, pageHistory
    <3> QED BY <3>1, StillPages
  <2>2. CASE EmptyTags(p) \/ EmptyServers(p)  BY <2>2, EmptyFacts, EmptyPages
  <2>3. CASE EnterStart(p) \/ Started(p) \/ StartRaises(p)  BY <2>3, RequestPages
  <2> QED BY <1>5, <2>1, <2>2, <2>3 DEF StartStep
<1>6. CASE UNCHANGED vars
  <2>1. Still  BY <1>6 DEF vars, wire, history, pageHistory
  <2> QED BY <2>1, StillPages
<1>7. ASSUME NEW p \in Pages, Connect(p) \/ Disconnect(p) \/ DrainForPage(p) \/ Receive(p)
      PROVE  PagesInv'
  BY <1>7, ConnectPages, DisconnectPages, ServePages, ReceivePages
<1>8. ASSUME NEW p \in Requesters, StatusRequest(p) \/ StartRuntime(p) \/ StopRuntime(p) \/ Stopped(p)
      PROVE  PagesInv'
  BY <1>8, RequestPages
<1>9. ASSUME NEW p \in Requesters, Reconnect(p) \/ Render(p)  PROVE PagesInv'
  BY <1>9, ReconnectPages, RenderPages
<1> QED
  BY <1>1, <1>2, <1>3, <1>4, <1>5, <1>6, <1>7, <1>8, <1>9, ServePages DEF Next

(* A page that is connected and has received everything shows the rows of  *)
(* the table, but for a status that another drain than its own has taken   *)
(* or that an older reply has covered, and for a row that a restart has    *)
(* emptied, as long as it is empty.                                        *)
THEOREM PagesMissOnlyTheDrained == Spec => []ViewsMissOnlyTheDrained
<1>1. Init => PagesInv
  BY DEF Init, PagesInv, EventsAreServed, RepliesAreRecent, ResetIsEmpty, StreamsEndInRows
<1>2. PagesInv => ViewsMissOnlyTheDrained
  <2> SUFFICES ASSUME PagesInv, NEW p \in Pages, socket[p] = "open", inbox[p] = <<>>, serves # p,
                      NEW k \in Keys, k \notin missed[p], ~(k \in reset[p] /\ table[k] = 0)
               PROVE  view[p][k] = table[k]
    BY DEF ViewsMissOnlyTheDrained
  <2>1. Stream(p) = <<>>  BY DEF Stream, ToSend
  <2>2. k \notin reset[p]  BY DEF PagesInv, ResetIsEmpty
  <2>3. EndsIn(Stream(p), view[p], k, table[k])  BY <2>2 DEF PagesInv, StreamsEndInRows
  <2> QED BY <2>1, <2>3 DEF EndsIn
<1> QED BY <1>1, <1>2, NextPages, StatusTypeCorrect, PTL DEF Spec
==============================================================================

----------------------------- MODULE RouteTopics -----------------------------
(***************************************************************************)
(* Output routes and the topics they get by MAC address: the table         *)
(* output_routes (store.py), its users (services/config_service.py behind  *)
(* web/api.py and the form of app.js), the refresh loop of a running       *)
(* RuntimeManager and the routes its publisher has, and the request client *)
(* (services/topic_request_client.py).                                     *)
(*                                                                         *)
(* resolve_output_route_topic() reads a whole row, waits for the server    *)
(* up to ten seconds, writes the whole row and reads it again.  It runs in *)
(* the refresh loop and behind a button of the form, while users save and  *)
(* delete.  Every call of the store is a transaction of its own.           *)
(***************************************************************************)
EXTENDS TopicResponder

CONSTANTS Devices, AllDevices,  \* the device of a route
          NoMac, NoTopic,       \* a route without MAC address, without resolved topic
          NoRow, NoForm,        \* a route that is not stored, a form that is not open
          Loop, Button,         \* who resolves topics
          Choices,              \* the settings users choose
          MaxRoutes, MaxEdits   \* bounds on the routes and on what users do

Ids == 1 .. MaxRoutes  \* INTEGER PRIMARY KEY AUTOINCREMENT
Resolvers == {Loop, Button}

Settings == [device : Devices \cup {AllDevices}, enabled : BOOLEAN,
             dynamic : BOOLEAN, mac : Macs \cup {NoMac}]
Rows == [settings : Settings, topic : Topics \cup {NoTopic}]
Jobs == [phase : {"idle", "round", "topic", "sensors", "relist", "dead"},
         route : Ids \cup {0}, row : Rows \cup {NoRow}, topic : Topics \cup {NoTopic}]
Idle == [phase |-> "idle", route |-> 0, row |-> NoRow, topic |-> NoTopic]

ASSUME RoutesAssumption ==
  /\ MaxRoutes \in Nat /\ MaxEdits \in Nat
  /\ Choices \subseteq Settings
  /\ AllDevices \notin Devices /\ NoMac \notin Macs /\ NoTopic \notin Topics
  /\ NoRow \notin Rows /\ NoForm \notin [id : Ids, topic : Topics \cup {NoTopic}]
  /\ Loop # Button

VARIABLES
  devices,     \* the devices that are stored
  rows,        \* the table of routes
  created,     \* the last id given to a route
  form,        \* the route in the form, as it was when it was loaded
  job,         \* what each resolver does
  todo,        \* the routes each resolver has still to resolve
  routes,      \* publisher.output_routes
  edits,       \* how many edits users have made
  wanted,      \* history: what users last saved for each route
  overlapped,  \* history: routes saved last while a resolver held their old row
  requested,   \* history: routes saved last while a resolver had them in its plan
  carried,     \* history: routes saved with a topic for another MAC address
  disturbed,   \* history: what the loop had in its plan has been taken away
  failed,      \* history: a call that the loop makes has raised by itself
  untouched    \* history: the routes start() found and no user has changed since

table == <<devices, rows, created>>
resolvers == <<job, todo>>
history == <<wanted, overlapped, requested, carried, disturbed, failed, untouched>>
vars == <<responder, table, form, resolvers, routes, edits, history>>

Stored == {r \in Ids : rows[r] # NoRow}

(* _output_routes(): the topic of an enabled route is the resolved one, if *)
(* it is dynamic and has one; else NoTopic, the one typed in or automatic. *)
PublishTopic(row) == IF row.settings.dynamic THEN row.topic ELSE NoTopic
OutputRoutes ==
  {<<r, rows[r].settings.device, PublishTopic(rows[r])>> :
     r \in {i \in Stored : rows[i].settings.enabled}}

TypeOK ==
  /\ ResponderTypeOK
  /\ devices \subseteq Devices
  /\ created \in 0 .. MaxRoutes
  /\ rows \in [Ids -> Rows \cup {NoRow}]
  /\ form \in [id : Ids, topic : Topics \cup {NoTopic}] \cup {NoForm}
  /\ job \in [Resolvers -> Jobs]
  /\ todo \in [Resolvers -> SUBSET Ids]
  /\ routes \subseteq Ids \X (Devices \cup {AllDevices}) \X (Topics \cup {NoTopic})
  /\ edits \in 0 .. MaxEdits
  /\ wanted \in [Ids -> Settings \cup {NoRow}]
  /\ overlapped \subseteq Ids
  /\ requested \subseteq Ids
  /\ carried \subseteq Ids
  /\ disturbed \in BOOLEAN
  /\ failed \in BOOLEAN
  /\ untouched \subseteq Ids

Foreign(row) == row.topic # NoTopic /\ row.topic.mac # row.settings.mac

(* What start() finds: rows that users have saved, with the topic of their *)
(* address or without one.                                                 *)
FoundRows == {row \in [settings : Choices, topic : {TopicFor(m) : m \in Macs} \cup {NoTopic}] : ~Foreign(row)}

(* start() has given the publisher the routes, and the refresh loop runs.  *)
Init ==
  /\ ResponderInit
  /\ devices = Devices
  /\ created \in 0 .. MaxRoutes
  /\ rows \in [Ids -> FoundRows \cup {NoRow}]
  /\ Stored = 1 .. created
  /\ form = NoForm
  /\ job = [p \in Resolvers |-> Idle]
  /\ todo = [p \in Resolvers |-> {}]
  /\ routes = OutputRoutes
  /\ edits = 0
  /\ wanted = [r \in Ids |-> IF r \in Stored THEN rows[r].settings ELSE NoRow]
  /\ overlapped = {}
  /\ requested = {}
  /\ carried = {}
  /\ disturbed = FALSE
  /\ failed = FALSE
  /\ untouched = Stored

-----------------------------------------------------------------------------
(* Resolver p has read route r and not written it yet.                     *)
Holds(p, r) == job[p].phase \in {"topic", "sensors"} /\ job[p].route = r

Plans(p, r) == r \in todo[p] \/ Holds(p, r)

(* UPDATE output_routes ... WHERE id = r changes nothing if r is gone.     *)
(* A mutant: it stores the row all the same.                               *)
Upsert(r, row) == [rows EXCEPT ![r] = row]

Update(r, row) == IF r \in Stored THEN [rows EXCEPT ![r] = row] ELSE rows

(***************************************************************************)
(* The user's form.  Saving it sends the settings chosen, and the resolved *)
(* topic that the form was loaded with; the button saves and then resolves.*)
(***************************************************************************)
Edit == edits < MaxEdits /\ edits' = edits + 1

OpenForm ==
  /\ edits < MaxEdits
  /\ \E r \in Stored : form' = [id |-> r, topic |-> rows[r].topic]
  /\ UNCHANGED <<responder, table, resolvers, routes, edits, history>>

(* What is remembered of settings s saved for route r.                     *)
Remember(r, s, click) ==
  /\ wanted' = [wanted EXCEPT ![r] = s]
  /\ overlapped' = IF \E p \in Resolvers : Holds(p, r) THEN overlapped \cup {r} ELSE overlapped \ {r}
  /\ requested' = IF click \/ \E p \in Resolvers : Plans(p, r) THEN requested \cup {r}
                  ELSE requested \ {r}
  /\ untouched' = untouched \ {r}

Click(r, click) ==
  IF click
  THEN /\ job[Button].phase = "idle"
       /\ job' = [job EXCEPT ![Button].phase = "round"]
       /\ todo' = [todo EXCEPT ![Button] = {r}]
  ELSE UNCHANGED <<job, todo>>

Create(s, click) ==
  /\ Edit
  /\ created < MaxRoutes
  /\ s.device \in devices \cup {AllDevices}
  /\ created' = created + 1
  /\ rows' = [rows EXCEPT ![created + 1] = [settings |-> s, topic |-> NoTopic]]
  /\ Click(created + 1, click)
  /\ Remember(created + 1, s, click)
  /\ UNCHANGED <<responder, devices, form, routes, carried, disturbed, failed>>

(* save_output_route() of a route that has been deleted changes nothing    *)
(* and raises, as it does for a device that has been.                      *)
Save(s, click) ==
  /\ Edit
  /\ form # NoForm
  /\ form.id \in Stored
  /\ s.device \in devices \cup {AllDevices}
  /\ rows' = Update(form.id, [settings |-> s, topic |-> form.topic])
  /\ form' = NoForm
  /\ Click(form.id, click)
  /\ Remember(form.id, s, click)
  /\ carried' = IF Foreign([settings |-> s, topic |-> form.topic]) THEN carried \cup {form.id} ELSE carried
  /\ disturbed' = (disturbed \/ (s.mac = NoMac /\ form.id \in todo[Loop]))
  /\ UNCHANGED <<responder, devices, created, routes, failed>>

(* The loop needs route r, for which it waits or which it reads again.     *)
Needs(r) == Plans(Loop, r) \/ (job[Loop].phase = "relist" /\ job[Loop].route = r)

DeleteRoute(r) ==
  /\ Edit
  /\ r \in Stored
  /\ rows' = [rows EXCEPT ![r] = NoRow]
  /\ disturbed' = (disturbed \/ Needs(r))
  /\ untouched' = untouched \ {r}
  /\ UNCHANGED <<responder, devices, created, form, resolvers, routes,
                 wanted, overlapped, requested, carried, failed>>

(* ON DELETE CASCADE                                                       *)
DeleteDevice(d) ==
  /\ Edit
  /\ d \in devices
  /\ devices' = devices \ {d}
  /\ LET gone == {r \in Stored : rows[r].settings.device = d} IN
       /\ rows' = [r \in Ids |-> IF r \in gone THEN NoRow ELSE rows[r]]
       /\ untouched' = untouched \ gone
       /\ disturbed' = \/ disturbed
                       \/ \E r \in gone : Needs(r)
                       \/ \E r \in Ids : Holds(Loop, r) /\ job[Loop].row.settings.device = d
  /\ UNCHANGED <<responder, created, form, resolvers, routes,
                 wanted, overlapped, requested, carried, failed>>

-----------------------------------------------------------------------------
(***************************************************************************)
(* refresh_dynamic_output_route_topics(): the routes of a round are listed *)
(* once.  The order in which they are resolved is left open.               *)
(***************************************************************************)
(* Mutants: routes without MAC address, or not dynamic, are asked for.     *)
EligibleAnyway(row) == row.settings.enabled /\ row.settings.dynamic

EligibleByMac(row) == row.settings.enabled /\ row.settings.mac # NoMac

Eligible(row) == row.settings.enabled /\ row.settings.dynamic /\ row.settings.mac # NoMac

ListRoutes ==
  /\ job[Loop].phase = "idle"
  /\ todo' = [todo EXCEPT ![Loop] = {r \in Stored : Eligible(rows[r])}]
  /\ job' = [job EXCEPT ![Loop].phase = "round"]
  /\ UNCHANGED <<responder, table, form, routes, edits, history>>

(* An exception ends the refresh loop, or the request of the button.       *)
Raise(p) ==
  /\ job' = [job EXCEPT ![p] = IF p = Loop THEN [Idle EXCEPT !.phase = "dead"] ELSE Idle]
  /\ todo' = [todo EXCEPT ![p] = {}]

(* A call of the store raises, or the conversion of a setting that has     *)
(* been saved: in listing the routes, in reading the row or the settings   *)
(* of the sink, in writing or reading back, or in making the publisher's   *)
(* routes.  Only what the wait itself raises is caught.                    *)
CallRaises(p) ==
  /\ job[p].phase # "dead" /\ (p = Button => job[p].phase # "idle")
  /\ Raise(p)
  /\ failed' = (failed \/ p = Loop)
  /\ UNCHANGED <<responder, table, form, routes, edits,
                 wanted, overlapped, requested, carried, disturbed, untouched>>

(* The row is read, and the topic requested by its MAC address.            *)
ReadRoute(p, r) ==
  /\ job[p].phase = "round"
  /\ r \in todo[p] \cap Stored
  /\ rows[r].settings.mac # NoMac
  /\ todo' = [todo EXCEPT ![p] = @ \ {r}]
  /\ job' = [job EXCEPT ![p] = [phase |-> "topic", route |-> r, row |-> rows[r], topic |-> NoTopic]]
  /\ UNCHANGED <<responder, table, form, routes, edits, history>>

(* KeyError: route not found; ValueError: route mac_address is required.   *)
ReadFails(p, r) ==
  /\ job[p].phase = "round"
  /\ r \in todo[p]
  /\ r \in Stored => rows[r].settings.mac = NoMac
  /\ Raise(p)
  /\ UNCHANGED <<responder, table, form, routes, edits, history>>

(* Responses are published by MAC address: all clients that have asked for *)
(* the address hear each of them, the answer to another's request or one   *)
(* that comes late included, until they have asked for the sensors as well.*)
(* A mutant: a client takes whatever it hears.                             *)
ListensToAll(p, m) == job[p].phase \in {"topic", "sensors"}

Asks(p, m) == job[p].phase \in {"topic", "sensors"} /\ job[p].row.settings.mac = m

Listens(p, m) == Asks(p, m)

Respond(m) ==
  /\ up
  /\ \E p \in Resolvers : Asks(p, m)
  /\ job' = [p \in Resolvers |-> IF Listens(p, m)
                                 THEN [job[p] EXCEPT !.phase = "sensors", !.topic = TopicFor(m)]
                                 ELSE job[p]]
  /\ UNCHANGED <<responder, table, form, todo, routes, edits, history>>

(* The row that was read is written back with dynamic_topic_enabled and    *)
(* topic t.  A row that points to a deleted device violates a foreign key. *)
WriteBack(p, t) ==
  /\ LET r == job[p].route
         settings == job[p].row.settings
         legal == r \in Stored => settings.device \in devices \cup {AllDevices}
     IN  \/ /\ legal
            /\ rows' = Update(r, [settings |-> [settings EXCEPT !.dynamic = TRUE], topic |-> t])
            /\ job' = [job EXCEPT ![p] = [Idle EXCEPT !.phase = "relist", !.route = r]]
            /\ UNCHANGED todo
         \/ ~legal /\ Raise(p) /\ UNCHANGED rows
  /\ UNCHANGED <<responder, devices, created, form, routes, edits, history>>

WriteTopic(p) ==
  /\ job[p].phase = "sensors"
  /\ WriteBack(p, job[p].topic)

(* No connection or no response within five seconds: the topic is kept.    *)
WriteError(p) ==
  /\ job[p].phase = "topic"
  /\ WriteBack(p, job[p].row.topic)

(* next(...) over the routes raises StopIteration if the route is gone.    *)
Relist(p) ==
  /\ job[p].phase = "relist"
  /\ \/ /\ job[p].route \in Stored
        /\ job' = [job EXCEPT ![p] = [Idle EXCEPT !.phase = "round"]]
        /\ UNCHANGED todo
     \/ /\ job[p].route \notin Stored
        /\ Raise(p)
  /\ UNCHANGED <<responder, table, form, routes, edits, history>>

(* The end of a round.  A mutant: the publisher keeps its routes.          *)
EndRoundOnly(p) ==
  /\ job[p].phase = "round"
  /\ todo[p] = {}
  /\ job' = [job EXCEPT ![p] = Idle]
  /\ UNCHANGED <<responder, table, form, todo, routes, edits, history>>

EndRound(p) ==
  /\ job[p].phase = "round"
  /\ todo[p] = {}
  /\ job' = [job EXCEPT ![p] = Idle]
  /\ routes' = IF p = Loop THEN OutputRoutes ELSE routes
  /\ UNCHANGED <<responder, table, form, todo, edits, history>>

-----------------------------------------------------------------------------
UserStep == \/ OpenForm
            \/ \E s \in Choices, click \in BOOLEAN : Create(s, click) \/ Save(s, click)
            \/ \E r \in Ids : DeleteRoute(r)
            \/ \E d \in Devices : DeleteDevice(d)

ResolverStep(p) == \/ \E r \in Ids : ReadRoute(p, r) \/ ReadFails(p, r)
                   \/ WriteTopic(p) \/ WriteError(p) \/ Relist(p) \/ EndRound(p)

others == <<table, form, resolvers, routes, edits, history>>

Next == \/ UserStep
        \/ ListRoutes
        \/ \E p \in Resolvers : ResolverStep(p) \/ CallRaises(p)
        \/ \E m \in Macs : Respond(m)
        \/ (Move \/ RefreshMapping \/ ResponderFails) /\ UNCHANGED others

(* Every wait of a resolver ends, the loop starts round after round, and a *)
(* responder that is up answers and refreshes its copy.                    *)
Fairness ==
  /\ WF_vars(ListRoutes)
  /\ \A p \in Resolvers : WF_vars(ResolverStep(p))
  /\ \A m \in Macs : WF_vars(Respond(m))
  /\ WF_vars(RefreshMapping /\ UNCHANGED others)

Spec == Init /\ [][Next]_vars /\ Fairness

-----------------------------------------------------------------------------
(* A route that has been deleted, by a user or with its device, is never   *)
(* stored again: a resolver that read it before writes to nothing.         *)
DeletedStaysDeleted ==
  [][\A r \in 1 .. created : r \notin Stored => r \notin Stored']_vars

(* What a user has saved stays, unless a resolver held an older row of the *)
(* route at that time and wrote it back.  Turning a dynamic topic off is   *)
(* lost as well if a resolver only planned to resolve the route, for it    *)
(* reads the row again but turns dynamic_topic_enabled on in any case.     *)
EditsAreLostOnlyToOverlap ==
  \A r \in Stored :
    /\ r \notin overlapped =>
         [rows[r].settings EXCEPT !.dynamic = wanted[r].dynamic] = wanted[r]
    /\ r \notin requested => rows[r].settings = wanted[r]

(* Unless a call that it makes raises by itself, because of the store or   *)
(* of a setting that cannot be converted, the refresh loop dies only of a  *)
(* user who deletes a route, its device or its MAC address that the round  *)
(* under way still needs: no answer, no timeout, no other edit and no      *)
(* failure of the button's request ends it.                                *)
LoopDiesOnlyOfEditsOrErrors == job[Loop].phase = "dead" => disturbed \/ failed

(* A route has a topic for another MAC address than its own only if a user *)
(* changed the address in a form, which sends the topic it has shown:      *)
(* resolvers never mix them up, whoever else is waiting for responses and  *)
(* whatever users change meanwhile.                                        *)
ForeignTopicsComeFromForms ==
  \A r \in Stored : Foreign(rows[r]) => r \in carried

(* When users and the database are quiet and requests do not fail for ever *)
(* every eligible route gets the topic that the database has for it, and   *)
(* the running publisher uses it for the routes that start() gave it and   *)
(* nobody has edited since, unless the refresh loop or the responder is    *)
(* dead.  What becomes of edits, the design leaves to the next start().    *)
Converged ==
  \A r \in Stored : Eligible(rows[r]) =>
    LET m == rows[r].settings.mac
        topic == [mac |-> m, place |-> mapping[m]]
    IN  /\ rows[r].topic = topic
        /\ r \in untouched => <<r, rows[r].settings.device, topic>> \in routes

TopicsConverge ==
  \/ []<><<\E p \in Resolvers : WriteError(p)>>_vars
  \/ <>[](Converged \/ job[Loop].phase = "dead" \/ ~up)
=============================================================================

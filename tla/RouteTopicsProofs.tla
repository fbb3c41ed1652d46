--------------------------- MODULE RouteTopicsProofs ---------------------------
(***************************************************************************)
(* What TLAPS proves about RouteTopics, for any devices, MAC addresses,    *)
(* settings, and any number of routes and edits.                           *)
(***************************************************************************)
EXTENDS RouteTopics, TLAPS

(* What a resolver holds was read from a route with a MAC address, and the *)
(* answer it has is for that address.                                      *)
HeldInv == \A p \in Resolvers :
  /\ job[p].phase \in {"topic", "sensors"} =>
       /\ job[p].route \in Ids /\ job[p].row \in Rows
       /\ job[p].row.settings.mac \in Macs
  /\ job[p].phase = "sensors" =>
       job[p].topic \in Topics /\ job[p].topic.mac = job[p].row.settings.mac
  /\ job[p].phase = "relist" => job[p].route \in Ids

(* Settings s of route r are what users want, but for dynamic_topic_enabled*)
Wanted(s, r) == [s EXCEPT !.dynamic = wanted[r].dynamic] = wanted[r]

EditInv ==
  /\ overlapped \subseteq requested
  /\ EditsAreLostOnlyToOverlap
  /\ \A p \in Resolvers, r \in Ids :
       /\ Holds(p, r) /\ r \notin overlapped => Wanted(job[p].row.settings, r)
       /\ Plans(p, r) /\ r \notin requested => wanted[r].dynamic = TRUE

ForeignInv ==
  /\ ForeignTopicsComeFromForms
  /\ \A p \in Resolvers, r \in Ids : Holds(p, r) /\ Foreign(job[p].row) => r \in carried

(* Ids are not used before they are created, foreign keys hold, and        *)
(* nothing that the loop needs is missing.                                 *)
LoopInv ==
  /\ Stored \subseteq 1 .. created
  /\ \A r \in Stored : rows[r].settings.device \in devices \cup {AllDevices}
  /\ \/ disturbed \/ failed
     \/ /\ job[Loop].phase # "dead"
        /\ \A r \in todo[Loop] : r \in Stored /\ rows[r].settings.mac # NoMac
        /\ \A r \in Ids : Holds(Loop, r) =>
             r \in Stored /\ job[Loop].row.settings.device \in devices \cup {AllDevices}
        /\ job[Loop].phase = "relist" => job[Loop].route \in Stored

IInv == TypeOK /\ HeldInv /\ EditInv /\ ForeignInv /\ LoopInv

-----------------------------------------------------------------------------
(* The routes of a publisher that takes them from the table.               *)
LEMMA OutputRoutesType ==
  ASSUME rows \in [Ids -> Rows \cup {NoRow}]
  PROVE  OutputRoutes \subseteq Ids \X (Devices \cup {AllDevices}) \X (Topics \cup {NoTopic})
<1>1. \A r \in Stored : rows[r] \in Rows /\ r \in Ids
  BY DEF Stored
<1>2. \A r \in Stored : /\ rows[r].settings.device \in Devices \cup {AllDevices}
                        /\ PublishTopic(rows[r]) \in Topics \cup {NoTopic}
  BY <1>1 DEF Rows, Settings, PublishTopic
<1> QED BY <1>1, <1>2 DEF OutputRoutes

LEMMA InitEstablishes == Init => IInv
<1> SUFFICES ASSUME Init PROVE IInv
  OBVIOUS
<1> USE RoutesAssumption, ResponderAssumption
<1>1. \A p \in Resolvers : job[p].phase = "idle" /\ todo[p] = {} /\ ~ \E r \in Ids : Plans(p, r)
  BY DEF Init, Idle, Plans, Holds
<1>2. ResponderTypeOK
  BY DEF Init, ResponderInit, ResponderTypeOK
<1>3. FoundRows \subseteq Rows /\ \A row \in FoundRows : ~Foreign(row)
  <2>1. \A m \in Macs : TopicFor(m) \in Topics
    BY <1>2 DEF TopicFor, Topics, ResponderTypeOK
  <2> QED BY <2>1 DEF FoundRows, Rows
<1>4. /\ rows \in [Ids -> Rows \cup {NoRow}]
      /\ \A r \in Stored : r \in Ids /\ rows[r] \in Rows /\ ~Foreign(rows[r])
  BY <1>3 DEF Init, Stored
<1>5. \A r \in Stored : wanted[r] = rows[r].settings /\ rows[r].settings \in Settings
  <2>1. \A r \in Stored : rows[r].settings \in Settings
    BY <1>4 DEF Rows
  <2> QED BY <1>4, <2>1 DEF Init
<1>6. TypeOK
  <2>1. Idle \in Jobs
    BY DEF Idle, Jobs
  <2>2. job \in [Resolvers -> Jobs] /\ todo \in [Resolvers -> SUBSET Ids]
    BY <2>1 DEF Init
  <2>3. wanted \in [Ids -> Settings \cup {NoRow}]
    BY <1>5 DEF Init
  <2>4. created \in 0 .. MaxRoutes /\ edits \in 0 .. MaxEdits /\ untouched \subseteq Ids
    BY DEF Init, Stored
  <2>5. routes \subseteq Ids \X (Devices \cup {AllDevices}) \X (Topics \cup {NoTopic})
    BY <1>4, OutputRoutesType DEF Init
  <2> QED BY <1>2, <1>4, <2>2, <2>3, <2>4, <2>5 DEF Init, TypeOK
<1>7. HeldInv
  BY <1>1 DEF HeldInv
<1>8. EditInv
  <2>1. EditsAreLostOnlyToOverlap
    <3>1. \A s \in Settings : [s EXCEPT !.dynamic = s.dynamic] = s
      BY DEF Settings
    <3> QED BY <1>5, <3>1 DEF EditsAreLostOnlyToOverlap
  <2> QED BY <1>1, <2>1 DEF EditInv, Init, Plans
<1>9. ForeignInv
  BY <1>1, <1>4 DEF ForeignInv, ForeignTopicsComeFromForms, Plans
<1>10. LoopInv
  <2>1. Stored = 1 .. created /\ devices = Devices /\ Loop \in Resolvers
    BY DEF Init, Resolvers
  <2>2. \A r \in Stored : rows[r].settings.device \in devices \cup {AllDevices}
    BY <1>5, <2>1 DEF Settings
  <2> QED BY <1>1, <2>1, <2>2 DEF LoopInv, Holds
<1> QED BY <1>6, <1>7, <1>8, <1>9, <1>10 DEF IInv

(* A click puts a route into the plan of the button, and changes nothing   *)
(* that a resolver holds.                                                  *)
LEMMA ClickPlans ==
  ASSUME TypeOK, NEW r0 \in Ids, NEW click \in BOOLEAN, Click(r0, click)
  PROVE  /\ job' \in [Resolvers -> Jobs] /\ todo' \in [Resolvers -> SUBSET Ids]
         /\ \A p \in Resolvers : /\ job'[p].route = job[p].route /\ job'[p].row = job[p].row
                                 /\ job'[p].topic = job[p].topic
                                 /\ \/ job'[p].phase = job[p].phase
                                    \/ job[p].phase = "idle" /\ job'[p].phase = "round"
         /\ job'[Loop] = job[Loop] /\ todo'[Loop] = todo[Loop]
         /\ \A p \in Resolvers, r \in Ids :
              /\ Holds(p, r)' <=> Holds(p, r)
              /\ Plans(p, r)' => Plans(p, r) \/ (click /\ r = r0)
<1> USE RoutesAssumption
<1>1. CASE click
  <2>1. /\ job[Button].phase = "idle"
        /\ job' = [job EXCEPT ![Button].phase = "round"]
        /\ todo' = [todo EXCEPT ![Button] = {r0}]
    BY <1>1 DEF Click
  <2>2. job \in [Resolvers -> Jobs] /\ todo \in [Resolvers -> SUBSET Ids]
    BY DEF TypeOK
  <2>3. /\ job'[Loop] = job[Loop] /\ todo'[Loop] = todo[Loop]
        /\ job'[Button] = [job[Button] EXCEPT !.phase = "round"] /\ todo'[Button] = {r0}
    BY <2>1, <2>2 DEF Resolvers
  <2>4. /\ job'[Button].phase = "round" /\ job'[Button].route = job[Button].route
        /\ job'[Button].row = job[Button].row /\ job'[Button].topic = job[Button].topic
        /\ job'[Button] \in Jobs
    BY <2>2, <2>3 DEF Resolvers, Jobs
  <2>5. job' \in [Resolvers -> Jobs] /\ todo' \in [Resolvers -> SUBSET Ids]
    BY <2>1, <2>2, <2>4 DEF Resolvers
  <2>6. ASSUME NEW p \in Resolvers
        PROVE  /\ job'[p].route = job[p].route /\ job'[p].row = job[p].row
               /\ job'[p].topic = job[p].topic
               /\ \/ job'[p].phase = job[p].phase
                  \/ job[p].phase = "idle" /\ job'[p].phase = "round"
               /\ \A r \in Ids : r \in todo'[p] => r \in todo[p] \/ r = r0
    <3>1. CASE p = Loop
      BY <3>1, <2>3
    <3>2. CASE p = Button
      BY <3>2, <2>1, <2>3, <2>4
    <3> QED BY <3>1, <3>2 DEF Resolvers
  <2>7. \A p \in Resolvers, r \in Ids : Holds(p, r)' <=> Holds(p, r)
    BY <2>6 DEF Holds
  <2> QED BY <1>1, <2>3, <2>5, <2>6, <2>7 DEF Plans
<1>2. CASE ~click
  <2>1. job' = job /\ todo' = todo
    BY <1>2 DEF Click
  <2>2. \A p \in Resolvers, r \in Ids : (Holds(p, r)' <=> Holds(p, r)) /\ (Plans(p, r)' <=> Plans(p, r))
    BY <2>1 DEF Holds, Plans
  <2> QED BY <2>1, <2>2 DEF TypeOK
<1> QED BY <1>1, <1>2

LEMMA RememberTypes ==
  ASSUME TypeOK, NEW r0 \in Ids, NEW s \in Settings, NEW click \in BOOLEAN, Remember(r0, s, click)
  PROVE  /\ wanted' \in [Ids -> Settings \cup {NoRow}]
         /\ overlapped' \subseteq Ids /\ requested' \subseteq Ids /\ untouched' \subseteq Ids
  BY DEF TypeOK, Remember

(* Saving settings s for route r0, whose row changes to s and topic t: what*)
(* users want and what is remembered of it stay consistent.                *)
LEMMA RememberKeepsEdits ==
  ASSUME TypeOK, EditInv, NEW r0 \in Ids, NEW s \in Settings, NEW t, NEW click \in BOOLEAN,
         rows' = [rows EXCEPT ![r0] = [settings |-> s, topic |-> t]],
         Click(r0, click), Remember(r0, s, click)
  PROVE  EditInv'
<1> USE RoutesAssumption
<1>1. /\ rows'[r0].settings = s
      /\ \A r \in Ids \ {r0} : rows'[r] = rows[r]
  BY DEF TypeOK
<1>2. /\ wanted'[r0] = s
      /\ \A r \in Ids \ {r0} : wanted'[r] = wanted[r]
  BY DEF TypeOK, Remember
<1>3. \A r \in Ids \ {r0} : /\ r \in overlapped' <=> r \in overlapped
                            /\ r \in requested' <=> r \in requested
  BY DEF Remember
<1>4. /\ (\E p \in Resolvers : Holds(p, r0)) => r0 \in overlapped' /\ r0 \in requested'
      /\ click \/ (\E p \in Resolvers : Plans(p, r0)) => r0 \in requested'
      /\ r0 \in overlapped' => r0 \in requested'
  BY DEF Remember, Plans
<1>5. overlapped' \subseteq requested'
  BY <1>3, <1>4 DEF EditInv, Remember
<1>6. [s EXCEPT !.dynamic = s.dynamic] = s
  BY DEF Settings
<1>7. EditsAreLostOnlyToOverlap'
  <2> SUFFICES ASSUME NEW r \in Ids, rows'[r] # NoRow
               PROVE  /\ r \notin overlapped' => Wanted(rows[r].settings, r)'
                      /\ r \notin requested' => rows'[r].settings = wanted'[r]
    BY DEF EditsAreLostOnlyToOverlap, Stored, Wanted
  <2>1. CASE r = r0
    BY <2>1, <1>1, <1>2, <1>6 DEF Wanted
  <2>2. CASE r # r0
    <3>1. /\ r \notin overlapped => Wanted(rows[r].settings, r)
          /\ r \notin requested => rows[r].settings = wanted[r]
      BY <2>2, <1>1 DEF EditInv, EditsAreLostOnlyToOverlap, Stored, Wanted
    <3> QED BY <2>2, <3>1, <1>1, <1>2, <1>3 DEF Wanted
  <2> QED BY <2>1, <2>2
<1>8. ASSUME NEW p \in Resolvers, NEW r \in Ids
      PROVE  /\ Holds(p, r)' /\ r \notin overlapped' => Wanted(job[p].row.settings, r)'
             /\ Plans(p, r)' /\ r \notin requested' => wanted'[r].dynamic = TRUE
  <2>1. /\ Holds(p, r)' <=> Holds(p, r)
        /\ Plans(p, r)' => Plans(p, r) \/ (click /\ r = r0)
        /\ job'[p].row = job[p].row
    BY ClickPlans
  <2>2. CASE r = r0
    BY <2>1, <2>2, <1>4
  <2>3. CASE r # r0
    <3>1. /\ Holds(p, r) /\ r \notin overlapped => Wanted(job[p].row.settings, r)
          /\ Plans(p, r) /\ r \notin requested => wanted[r].dynamic = TRUE
      BY DEF EditInv
    <3> QED BY <2>1, <2>3, <3>1, <1>2, <1>3 DEF Wanted
  <2> QED BY <2>2, <2>3
<1> QED BY <1>5, <1>7, <1>8 DEF EditInv

LEMMA CreatePreserves ==
  ASSUME IInv, NEW s \in Choices, NEW click \in BOOLEAN, Create(s, click)
  PROVE  IInv'
<1> USE RoutesAssumption
<1> DEFINE r0 == created + 1
<1>0. TypeOK /\ HeldInv /\ EditInv /\ ForeignInv /\ LoopInv
  BY DEF IInv
<1>1. r0 \in Ids /\ s \in Settings
  BY <1>0 DEF Create, TypeOK, Ids
<1>2. TypeOK'
  <2>1. rows' \in [Ids -> Rows \cup {NoRow}] /\ created' \in 0 .. MaxRoutes
    BY <1>0, <1>1 DEF Create, TypeOK, Rows, Ids
  <2> QED BY <1>0, <1>1, <2>1, ClickPlans, RememberTypes
             DEF Create, Edit, TypeOK, ResponderTypeOK, responder
<1>3. HeldInv'
  BY <1>0, <1>1, ClickPlans DEF Create, HeldInv
<1>4. EditInv'
  BY <1>0, <1>1, RememberKeepsEdits DEF Create
<1>5. ForeignInv'
  <2>1. /\ rows'[r0].topic = NoTopic /\ carried' = carried
        /\ \A r \in Ids \ {r0} : rows'[r] = rows[r]
    BY <1>0, <1>1 DEF Create, TypeOK
  <2>2. \A p \in Resolvers, r \in Ids : (Holds(p, r)' <=> Holds(p, r)) /\ job'[p].row = job[p].row
    BY <1>0, <1>1, ClickPlans DEF Create
  <2> QED BY <1>0, <2>1, <2>2 DEF ForeignInv, ForeignTopicsComeFromForms, Foreign, Stored
<1>6. LoopInv'
  <2>1. /\ rows'[r0].settings = s /\ rows'[r0] # NoRow
        /\ \A r \in Ids \ {r0} : rows'[r] = rows[r]
        /\ devices' = devices /\ disturbed' = disturbed /\ failed' = failed /\ s.device \in devices \cup {AllDevices}
    BY <1>0, <1>1 DEF Create, TypeOK, Rows
  <2>2. /\ job'[Loop] = job[Loop] /\ todo'[Loop] = todo[Loop]
        /\ \A r \in Ids : Holds(Loop, r)' <=> Holds(Loop, r)
    BY <1>0, <1>1, ClickPlans DEF Create, Resolvers
  <2>3. todo[Loop] \subseteq Ids
    BY <1>0, <1>2 DEF TypeOK, Resolvers
  <2>4. Stored' = Stored \cup {r0}
    BY <1>1, <2>1 DEF Stored
  <2>5. \A r \in Stored' : rows'[r].settings.device \in devices' \cup {AllDevices}
    BY <1>0, <1>1, <2>1, <2>4 DEF LoopInv, Stored
  <2>6. Stored' \subseteq 1 .. created' /\ r0 \notin Stored
    <3>1. created' = created + 1
      BY DEF Create
    <3>2. created \in Nat
      BY <1>0 DEF TypeOK
    <3>3. Stored \subseteq 1 .. created
      BY <1>0 DEF LoopInv
    <3>4. created + 1 \notin 1 .. created /\ 1 .. created' = (1 .. created) \cup {created + 1}
      BY <3>1, <3>2
    <3> QED BY <3>3, <3>4, <2>4
  <2>7. \A r \in Stored : rows'[r] = rows[r]
    BY <2>1, <2>6 DEF Stored
  <2> QED BY <1>0, <1>1, <2>1, <2>2, <2>3, <2>4, <2>5, <2>6, <2>7 DEF LoopInv
<1> QED BY <1>2, <1>3, <1>4, <1>5, <1>6 DEF IInv

LEMMA SavePreserves ==
  ASSUME IInv, NEW s \in Choices, NEW click \in BOOLEAN, Save(s, click)
  PROVE  IInv'
<1> USE RoutesAssumption
<1> DEFINE r0 == form.id
<1>0. TypeOK /\ HeldInv /\ EditInv /\ ForeignInv /\ LoopInv
  BY DEF IInv
<1>1. form.id \in Ids /\ form.topic \in Topics \cup {NoTopic} /\ s \in Settings
  BY <1>0 DEF Save, TypeOK
<1>2. TypeOK'
  <2>1. rows' \in [Ids -> Rows \cup {NoRow}]
    BY <1>0, <1>1 DEF Save, TypeOK, Rows, Update
  <2> QED BY <1>0, <1>1, <2>1, ClickPlans, RememberTypes
             DEF Save, Edit, TypeOK, ResponderTypeOK, responder
<1>3. HeldInv'
  BY <1>0, <1>1, ClickPlans DEF Save, HeldInv
<1>4. EditInv'
  BY <1>0, <1>1, RememberKeepsEdits DEF Save, Update
<1>5. ForeignInv'
  <2>1. /\ rows'[r0] = [settings |-> s, topic |-> form.topic]
        /\ carried' = IF Foreign(rows'[r0]) THEN carried \cup {r0} ELSE carried
        /\ \A r \in Ids \ {r0} : rows'[r] = rows[r]
    BY <1>0, <1>1 DEF Save, TypeOK, Update
  <2>2. \A p \in Resolvers, r \in Ids : (Holds(p, r)' <=> Holds(p, r)) /\ job'[p].row = job[p].row
    BY <1>0, <1>1, ClickPlans DEF Save
  <2> QED BY <1>0, <2>1, <2>2 DEF ForeignInv, ForeignTopicsComeFromForms, Foreign, Stored
<1>6. LoopInv'
  <2>1. /\ rows'[r0].settings = s /\ rows'[r0] # NoRow /\ rows[r0] # NoRow
        /\ \A r \in Ids \ {r0} : rows'[r] = rows[r]
        /\ devices' = devices /\ created' = created /\ s.device \in devices \cup {AllDevices}
        /\ disturbed' = (disturbed \/ (s.mac = NoMac /\ r0 \in todo[Loop])) /\ failed' = failed
    BY <1>0, <1>1 DEF Save, TypeOK, Rows, Update, Stored
  <2>2. /\ job'[Loop] = job[Loop] /\ todo'[Loop] = todo[Loop]
        /\ \A r \in Ids : Holds(Loop, r)' <=> Holds(Loop, r)
    BY <1>0, <1>1, ClickPlans DEF Save, Resolvers
  <2>3. todo[Loop] \subseteq Ids
    BY <1>0, <1>2 DEF TypeOK, Resolvers
  <2>4. Stored' = Stored
    BY <1>1, <2>1 DEF Stored
  <2> QED BY <1>0, <1>1, <2>1, <2>2, <2>3, <2>4 DEF LoopInv, Stored
<1> QED BY <1>2, <1>3, <1>4, <1>5, <1>6 DEF IInv

(* Steps that leave routes, resolvers and history alone.                   *)
core == <<devices, rows, created, job, todo, history>>

LEMMA CoreKeepsInvariants ==
  ASSUME HeldInv, EditInv, ForeignInv, LoopInv, UNCHANGED core
  PROVE  HeldInv' /\ EditInv' /\ ForeignInv' /\ LoopInv'
<1>0. /\ devices' = devices /\ rows' = rows /\ created' = created /\ job' = job /\ todo' = todo
      /\ wanted' = wanted /\ overlapped' = overlapped /\ requested' = requested
      /\ carried' = carried /\ disturbed' = disturbed /\ failed' = failed
  BY DEF core, history
<1>1. HeldInv'
  BY <1>0 DEF HeldInv
<1>2. Stored' = Stored /\ \A p, r : (Holds(p, r)' <=> Holds(p, r)) /\ (Plans(p, r)' <=> Plans(p, r))
  BY <1>0 DEF Stored, Holds, Plans
<1>3. EditInv'
  BY <1>0, <1>2 DEF EditInv, EditsAreLostOnlyToOverlap, Wanted
<1>4. ForeignInv'
  BY <1>0, <1>2 DEF ForeignInv, ForeignTopicsComeFromForms
<1>5. LoopInv'
  BY <1>0, <1>2 DEF LoopInv
<1> QED BY <1>1, <1>3, <1>4, <1>5

LEMMA OpenFormPreserves ==
  ASSUME IInv, OpenForm
  PROVE  IInv'
<1>0. TypeOK /\ HeldInv /\ EditInv /\ ForeignInv /\ LoopInv
  BY DEF IInv
<1>1. UNCHANGED core
  BY DEF OpenForm, core, table, resolvers
<1>2. PICK r \in Stored : form' = [id |-> r, topic |-> rows[r].topic]
  BY DEF OpenForm
<1>3. r \in Ids /\ rows[r].topic \in Topics \cup {NoTopic}
  BY <1>0, RoutesAssumption DEF TypeOK, Stored, Rows
<1>4. TypeOK'
  BY <1>0, <1>2, <1>3 DEF OpenForm, TypeOK, ResponderTypeOK, responder, table, resolvers, history
<1> QED BY <1>0, <1>1, <1>4, CoreKeepsInvariants DEF IInv

LEMMA ResponderPreserves ==
  ASSUME IInv, Move \/ RefreshMapping \/ ResponderFails, UNCHANGED others
  PROVE  IInv'
<1>0. TypeOK /\ HeldInv /\ EditInv /\ ForeignInv /\ LoopInv
  BY DEF IInv
<1>1. UNCHANGED core
  BY DEF others, core, table, resolvers
<1>2. ResponderTypeOK'
  <2>1. CASE Move
    <3>1. PICK m \in Macs : \E place \in (Places \cup {UnknownMac}) \ {mapping[m]} :
             mapping' = [mapping EXCEPT ![m] = place]
      BY <2>1 DEF Move
    <3> QED BY <1>0, <2>1, <3>1, ResponderAssumption DEF TypeOK, ResponderTypeOK, Move
  <2>2. CASE RefreshMapping
    BY <1>0, <2>2 DEF TypeOK, ResponderTypeOK, RefreshMapping
  <2>3. CASE ResponderFails
    BY <1>0, <2>3 DEF TypeOK, ResponderTypeOK, ResponderFails
  <2> QED BY <2>1, <2>2, <2>3
<1>3. TypeOK'
  BY <1>0, <1>2 DEF TypeOK, others, table, resolvers, history
<1> QED BY <1>0, <1>1, <1>3, CoreKeepsInvariants DEF IInv

LEMMA StutterPreserves ==
  ASSUME IInv, UNCHANGED vars
  PROVE  IInv'
<1>0. TypeOK /\ HeldInv /\ EditInv /\ ForeignInv /\ LoopInv
  BY DEF IInv
<1>1. UNCHANGED core
  BY DEF vars, core, table, resolvers
<1>2. TypeOK'
  BY <1>0 DEF vars, TypeOK, ResponderTypeOK, responder, table, resolvers, history
<1> QED BY <1>0, <1>1, <1>2, CoreKeepsInvariants DEF IInv

LEMMA DeletionPreserves ==
  ASSUME IInv, NEW gone \in SUBSET Stored,
         rows' = [r \in Ids |-> IF r \in gone THEN NoRow ELSE rows[r]],
         devices' \subseteq devices,
         \A r \in Stored \ gone : rows[r].settings.device \in devices' \cup {AllDevices},
         UNCHANGED <<responder, created, form, resolvers, routes, wanted, overlapped, requested, carried, failed>>,
         untouched' \subseteq untouched, edits' \in 0 .. MaxEdits, disturbed' \in BOOLEAN, disturbed => disturbed',
         (\E r \in gone : Needs(r)) => disturbed',
         (\E r \in Ids : /\ Holds(Loop, r)
                         /\ job[Loop].row.settings.device \in devices \ devices') => disturbed'
  PROVE  IInv'
<1> USE RoutesAssumption
<1>0. TypeOK /\ HeldInv /\ EditInv /\ ForeignInv /\ LoopInv
  BY DEF IInv
<1>1. /\ created' = created /\ job' = job /\ todo' = todo /\ carried' = carried
      /\ wanted' = wanted /\ overlapped' = overlapped /\ requested' = requested /\ failed' = failed
  BY DEF resolvers
<1>2. Stored' = Stored \ gone /\ \A r \in Stored \ gone : rows'[r] = rows[r]
  BY DEF Stored
<1>3. \A p, r : (Holds(p, r)' <=> Holds(p, r)) /\ (Plans(p, r)' <=> Plans(p, r))
  BY <1>1 DEF Holds, Plans
<1>4. TypeOK'
  BY <1>0 DEF TypeOK, ResponderTypeOK, responder, resolvers
<1>5. HeldInv'
  BY <1>0, <1>1 DEF HeldInv
<1>6. EditInv'
  BY <1>0, <1>1, <1>2, <1>3 DEF EditInv, EditsAreLostOnlyToOverlap, Wanted
<1>7. ForeignInv'
  BY <1>0, <1>1, <1>2, <1>3 DEF ForeignInv, ForeignTopicsComeFromForms
<1>8. LoopInv'
  <2>1. /\ Stored' \subseteq 1 .. created'
        /\ \A r \in Stored' : rows'[r].settings.device \in devices' \cup {AllDevices}
    BY <1>0, <1>1, <1>2 DEF LoopInv
  <2>2. SUFFICES ASSUME ~disturbed', ~failed
                 PROVE  /\ job[Loop].phase # "dead"
                        /\ \A r \in todo[Loop] : r \in Stored' /\ rows'[r].settings.mac # NoMac
                        /\ \A r \in Ids : Holds(Loop, r) =>
                             r \in Stored' /\ job[Loop].row.settings.device \in devices' \cup {AllDevices}
                        /\ job[Loop].phase = "relist" => job[Loop].route \in Stored'
    BY <2>1, <1>1, <1>3 DEF LoopInv
  <2>3. /\ job[Loop].phase # "dead"
        /\ \A r \in todo[Loop] : r \in Stored /\ rows[r].settings.mac # NoMac
        /\ \A r \in Ids : Holds(Loop, r) =>
             r \in Stored /\ job[Loop].row.settings.device \in devices \cup {AllDevices}
        /\ job[Loop].phase = "relist" => job[Loop].route \in Stored
    BY <1>0, <2>2 DEF LoopInv
  <2>4. \A r \in gone : /\ r \notin todo[Loop] /\ ~Holds(Loop, r)
                        /\ ~(job[Loop].phase = "relist" /\ job[Loop].route = r)
    BY <2>2 DEF Needs, Plans
  <2> QED BY <2>2, <2>3, <2>4, <1>2
<1> QED BY <1>4, <1>5, <1>6, <1>7, <1>8 DEF IInv

LEMMA DeleteRoutePreserves ==
  ASSUME IInv, NEW r \in Ids, DeleteRoute(r)
  PROVE  IInv'
<1>1. TypeOK /\ LoopInv
  BY DEF IInv
<1>2. {r} \in SUBSET Stored /\ rows' = [i \in Ids |-> IF i \in {r} THEN NoRow ELSE rows[i]]
  BY <1>1 DEF DeleteRoute, TypeOK
<1>3. devices' = devices /\ edits' \in 0 .. MaxEdits
  BY <1>1, RoutesAssumption DEF DeleteRoute, Edit, TypeOK
<1>4. disturbed' = (disturbed \/ Needs(r)) /\ disturbed' \in BOOLEAN
  BY <1>1 DEF DeleteRoute, TypeOK
<1> QED BY <1>1, <1>2, <1>3, <1>4, DeletionPreserves DEF DeleteRoute, LoopInv

LEMMA DeleteDevicePreserves ==
  ASSUME IInv, NEW d \in Devices, DeleteDevice(d)
  PROVE  IInv'
<1> DEFINE gone == {r \in Stored : rows[r].settings.device = d}
<1>1. TypeOK /\ LoopInv
  BY DEF IInv
<1>2. gone \in SUBSET Stored /\ rows' = [r \in Ids |-> IF r \in gone THEN NoRow ELSE rows[r]]
  BY DEF DeleteDevice
<1>3. devices' = devices \ {d} /\ edits' \in 0 .. MaxEdits
  BY <1>1, RoutesAssumption DEF DeleteDevice, Edit, TypeOK
<1>4. \A r \in Stored \ gone : rows[r].settings.device \in devices' \cup {AllDevices}
  BY <1>1, <1>3 DEF LoopInv
<1>5. /\ disturbed' = \/ disturbed
                      \/ \E r \in gone : Needs(r)
                      \/ \E r \in Ids : Holds(Loop, r) /\ job[Loop].row.settings.device = d
      /\ disturbed' \in BOOLEAN
  BY <1>1 DEF DeleteDevice, TypeOK
<1> HIDE DEF gone
<1> QED BY <1>1, <1>2, <1>3, <1>4, <1>5, DeletionPreserves DEF DeleteDevice

-----------------------------------------------------------------------------
(***************************************************************************)
(* The steps of a resolver.                                                *)
(***************************************************************************)
LEMMA ListRoutesPreserves ==
  ASSUME IInv, ListRoutes
  PROVE  IInv'
<1> USE RoutesAssumption
<1>0. TypeOK /\ HeldInv /\ EditInv /\ ForeignInv /\ LoopInv
  BY DEF IInv
<1>1. /\ job[Loop].phase = "idle" /\ job' = [job EXCEPT ![Loop].phase = "round"]
      /\ todo' = [todo EXCEPT ![Loop] = {r \in Stored : Eligible(rows[r])}]
      /\ UNCHANGED <<responder, table, form, routes, edits, history>>
  BY DEF ListRoutes
<1>2. job \in [Resolvers -> Jobs] /\ todo \in [Resolvers -> SUBSET Ids] /\ Loop \in Resolvers
  BY <1>0 DEF TypeOK, Resolvers
<1>3. job'[Loop].phase = "round" /\ job'[Loop] \in Jobs /\ todo'[Loop] = {r \in Stored : Eligible(rows[r])}
  BY <1>1, <1>2 DEF Jobs
<1>4. \A p \in Resolvers \ {Loop} : job'[p] = job[p] /\ todo'[p] = todo[p]
  BY <1>1, <1>2
<1>5. /\ devices' = devices /\ rows' = rows /\ created' = created /\ Stored' = Stored
      /\ wanted' = wanted /\ overlapped' = overlapped /\ requested' = requested
      /\ carried' = carried /\ disturbed' = disturbed /\ failed' = failed
  BY <1>1 DEF table, history, Stored
<1>6. TypeOK'
  <2>1. job' \in [Resolvers -> Jobs] /\ todo' \in [Resolvers -> SUBSET Ids]
    BY <1>1, <1>2, <1>3 DEF Stored
  <2> QED BY <1>0, <1>1, <2>1 DEF TypeOK, ResponderTypeOK, responder, table, history
<1>7. HeldInv'
  BY <1>0, <1>3, <1>4 DEF HeldInv
<1>8. \A p \in Resolvers, r \in Ids : Holds(p, r)' => (Holds(p, r) /\ job'[p] = job[p])
  BY <1>3, <1>4 DEF Holds
<1>9. EditInv'
  <2>1. ASSUME NEW p \in Resolvers, NEW r \in Ids, Plans(p, r)', r \notin requested
        PROVE  wanted[r].dynamic = TRUE
    <3>1. CASE p = Loop
      <4>1. r \in Stored /\ Eligible(rows[r])
        BY <2>1, <3>1, <1>3 DEF Plans, Holds
      <4>2. rows[r].settings = wanted[r]
        BY <1>0, <2>1, <4>1 DEF EditInv, EditsAreLostOnlyToOverlap
      <4>3. rows[r].settings \in Settings
        BY <1>0, <4>1 DEF TypeOK, Stored, Rows
      <4> QED BY <4>1, <4>2, <4>3 DEF Eligible, Settings
    <3>2. CASE p # Loop
      BY <1>0, <2>1, <3>2, <1>4 DEF EditInv, Plans, Holds
    <3> QED BY <3>1, <3>2
  <2>2. EditsAreLostOnlyToOverlap'
    BY <1>0, <1>5 DEF EditInv, EditsAreLostOnlyToOverlap
  <2>3. ASSUME NEW p \in Resolvers, NEW r \in Ids, Holds(p, r)', r \notin overlapped
        PROVE  Wanted(job'[p].row.settings, r)
    BY <1>0, <1>8, <2>3 DEF EditInv
  <2> QED BY <1>0, <1>5, <2>1, <2>2, <2>3 DEF EditInv, Wanted
<1>10. ForeignInv'
  BY <1>0, <1>5, <1>8 DEF ForeignInv, ForeignTopicsComeFromForms
<1>11. LoopInv'
  <2>1. ~ \E r \in Ids : Holds(Loop, r)'
    BY <1>3 DEF Holds
  <2>2. \A r \in todo'[Loop] : r \in Stored /\ rows[r].settings.mac # NoMac
    BY <1>3 DEF Eligible
  <2> QED BY <1>0, <1>3, <1>5, <2>1, <2>2 DEF LoopInv
<1> QED BY <1>6, <1>7, <1>9, <1>10, <1>11 DEF IInv

LEMMA ReadRoutePreserves ==
  ASSUME IInv, NEW p \in Resolvers, NEW r \in Ids, ReadRoute(p, r)
  PROVE  IInv'
<1> USE RoutesAssumption
<1>0. TypeOK /\ HeldInv /\ EditInv /\ ForeignInv /\ LoopInv
  BY DEF IInv
<1>1. /\ job[p].phase = "round" /\ r \in todo[p] /\ r \in Stored /\ rows[r].settings.mac # NoMac
      /\ todo' = [todo EXCEPT ![p] = @ \ {r}]
      /\ job' = [job EXCEPT ![p] = [phase |-> "topic", route |-> r, row |-> rows[r], topic |-> NoTopic]]
      /\ UNCHANGED <<responder, table, form, routes, edits, history>>
  BY DEF ReadRoute
<1>2. job \in [Resolvers -> Jobs] /\ todo \in [Resolvers -> SUBSET Ids] /\ rows[r] \in Rows
  BY <1>0, <1>1 DEF TypeOK, Stored
<1>3. /\ job'[p] = [phase |-> "topic", route |-> r, row |-> rows[r], topic |-> NoTopic]
      /\ job'[p] \in Jobs /\ todo'[p] = todo[p] \ {r}
  BY <1>1, <1>2 DEF Jobs
<1>4. \A q \in Resolvers \ {p} : job'[q] = job[q] /\ todo'[q] = todo[q]
  BY <1>1, <1>2
<1>5. /\ devices' = devices /\ rows' = rows /\ created' = created /\ Stored' = Stored
      /\ wanted' = wanted /\ overlapped' = overlapped /\ requested' = requested
      /\ carried' = carried /\ disturbed' = disturbed /\ failed' = failed
  BY <1>1 DEF table, history, Stored
<1>6. TypeOK'
  <2>1. job' \in [Resolvers -> Jobs] /\ todo' \in [Resolvers -> SUBSET Ids]
    BY <1>1, <1>2, <1>3
  <2> QED BY <1>0, <1>1, <2>1 DEF TypeOK, ResponderTypeOK, responder, table, history
<1>7. HeldInv'
  <2>1. rows[r].settings.mac \in Macs
    BY <1>1, <1>2 DEF Rows, Settings
  <2> QED BY <1>0, <1>2, <1>3, <1>4, <2>1 DEF HeldInv
<1>8. /\ \A i \in Ids : Holds(p, i)' <=> i = r
      /\ \A q \in Resolvers \ {p}, i \in Ids : /\ Holds(q, i)' <=> Holds(q, i)
                                               /\ Plans(q, i)' <=> Plans(q, i)
      /\ \A i \in Ids : Plans(p, i)' => Plans(p, i)
  BY <1>1, <1>3, <1>4 DEF Holds, Plans
<1>9. EditInv'
  <2>1. r \notin overlapped => Wanted(rows[r].settings, r)
    BY <1>0, <1>1 DEF EditInv, EditsAreLostOnlyToOverlap, Wanted
  <2>2. EditsAreLostOnlyToOverlap'
    BY <1>0, <1>5 DEF EditInv, EditsAreLostOnlyToOverlap
  <2>3. ASSUME NEW q \in Resolvers, NEW i \in Ids, Holds(q, i)', i \notin overlapped
        PROVE  Wanted(job'[q].row.settings, i)
    <3>1. CASE q = p
      <4>1. i = r /\ job'[q].row = rows[r]
        BY <1>3, <1>8, <2>3, <3>1
      <4> QED BY <2>1, <2>3, <4>1
    <3>2. CASE q # p
      <4>1. Holds(q, i) /\ job'[q] = job[q]
        BY <1>4, <1>8, <2>3, <3>2
      <4> QED BY <1>0, <2>3, <4>1 DEF EditInv
    <3> QED BY <3>1, <3>2
  <2>4. ASSUME NEW q \in Resolvers, NEW i \in Ids, Plans(q, i)', i \notin requested
        PROVE  wanted[i].dynamic = TRUE
    BY <1>0, <1>8, <2>4 DEF EditInv
  <2>5. (overlapped \subseteq requested)'
    BY <1>0, <1>5 DEF EditInv
  <2>6. ASSUME NEW q \in Resolvers, NEW i \in Ids
        PROVE  /\ Holds(q, i)' /\ i \notin overlapped' => Wanted(job[q].row.settings, i)'
               /\ Plans(q, i)' /\ i \notin requested' => wanted'[i].dynamic = TRUE
    BY <1>5, <2>3, <2>4 DEF Wanted
  <2> QED BY <2>2, <2>5, <2>6 DEF EditInv
<1>10. ForeignInv'
  BY <1>0, <1>1, <1>3, <1>4, <1>5, <1>8 DEF ForeignInv, ForeignTopicsComeFromForms
<1>11. LoopInv'
  <2>1. CASE p = Loop
    BY <1>0, <1>1, <1>3, <1>5, <1>8, <2>1 DEF LoopInv
  <2>2. CASE p # Loop
    <3>1. /\ job'[Loop] = job[Loop] /\ todo'[Loop] = todo[Loop]
          /\ \A i \in Ids : Holds(Loop, i)' <=> Holds(Loop, i)
      BY <1>4, <1>8, <2>2 DEF Resolvers
    <3> QED BY <1>0, <1>5, <3>1 DEF LoopInv
  <2> QED BY <2>1, <2>2
<1> QED BY <1>6, <1>7, <1>9, <1>10, <1>11 DEF IInv

(* A resolver that fails drops its plan; a loop that fails has been        *)
(* disturbed, or a call of its own has failed.                             *)
LEMMA RaisePreserves ==
  ASSUME IInv, NEW p \in Resolvers, Raise(p), p = Loop => disturbed \/ failed',
         failed' \in BOOLEAN, failed => failed',
         UNCHANGED <<responder, table, form, routes, edits,
                     wanted, overlapped, requested, carried, disturbed, untouched>>
  PROVE  IInv'
<1> USE RoutesAssumption
<1>0. TypeOK /\ HeldInv /\ EditInv /\ ForeignInv /\ LoopInv
  BY DEF IInv
<1> DEFINE end == IF p = Loop THEN [Idle EXCEPT !.phase = "dead"] ELSE Idle
<1>1. job' = [job EXCEPT ![p] = end] /\ todo' = [todo EXCEPT ![p] = {}]
  BY DEF Raise
<1>2. job \in [Resolvers -> Jobs] /\ todo \in [Resolvers -> SUBSET Ids]
  BY <1>0 DEF TypeOK
<1>3. end \in Jobs /\ end.phase \in {"idle", "dead"}
  BY DEF Idle, Jobs
<1> HIDE DEF end
<1>4. /\ job'[p] = end /\ todo'[p] = {}
      /\ \A q \in Resolvers \ {p} : job'[q] = job[q] /\ todo'[q] = todo[q]
  BY <1>1, <1>2
<1>5. /\ devices' = devices /\ rows' = rows /\ created' = created /\ Stored' = Stored
      /\ wanted' = wanted /\ overlapped' = overlapped /\ requested' = requested
      /\ carried' = carried /\ disturbed' = disturbed /\ untouched' = untouched
  BY DEF table, Stored
<1>6. TypeOK'
  <2>1. job' \in [Resolvers -> Jobs] /\ todo' \in [Resolvers -> SUBSET Ids]
    BY <1>1, <1>2, <1>3
  <2> QED BY <1>0, <2>1 DEF TypeOK, ResponderTypeOK, responder, table
<1>7. HeldInv'
  BY <1>0, <1>3, <1>4 DEF HeldInv
<1>8. \A q \in Resolvers, i \in Ids : /\ Holds(q, i)' => (Holds(q, i) /\ job'[q] = job[q])
                                      /\ Plans(q, i)' => Plans(q, i)
  BY <1>3, <1>4 DEF Holds, Plans
<1>9. EditInv'
  <2>1. EditsAreLostOnlyToOverlap'
    BY <1>0, <1>5 DEF EditInv, EditsAreLostOnlyToOverlap
  <2>2. ASSUME NEW q \in Resolvers, NEW i \in Ids
        PROVE  /\ Holds(q, i)' /\ i \notin overlapped => Wanted(job'[q].row.settings, i)
               /\ Plans(q, i)' /\ i \notin requested => wanted[i].dynamic = TRUE
    BY <1>0, <1>8 DEF EditInv
  <2> QED BY <1>0, <1>5, <2>1, <2>2 DEF EditInv, Wanted
<1>10. ForeignInv'
  <2>1. ASSUME NEW q \in Resolvers, NEW i \in Ids, Holds(q, i)', Foreign(job'[q].row)
        PROVE  i \in carried
    BY <1>0, <1>8, <2>1 DEF ForeignInv
  <2> QED BY <1>0, <1>5, <2>1 DEF ForeignInv, ForeignTopicsComeFromForms, Foreign
<1>11. LoopInv'
  <2>1. CASE p = Loop
    BY <1>0, <1>5, <2>1 DEF LoopInv
  <2>2. CASE p # Loop
    <3>1. /\ job'[Loop] = job[Loop] /\ todo'[Loop] = todo[Loop]
          /\ \A i \in Ids : Holds(Loop, i)' => Holds(Loop, i)
      BY <1>4, <2>2 DEF Resolvers, Holds
    <3> QED BY <1>0, <1>5, <3>1 DEF LoopInv
  <2> QED BY <2>1, <2>2
<1> QED BY <1>6, <1>7, <1>9, <1>10, <1>11 DEF IInv

LEMMA ReadFailsPreserves ==
  ASSUME IInv, NEW p \in Resolvers, NEW r \in Ids, ReadFails(p, r)
  PROVE  IInv'
<1>1. p = Loop => disturbed \/ failed
  BY DEF IInv, LoopInv, ReadFails
<1>2. failed' = failed /\ failed \in BOOLEAN
  BY DEF IInv, TypeOK, ReadFails, history
<1> QED BY <1>1, <1>2, RaisePreserves DEF ReadFails, history

LEMMA CallRaisesPreserves ==
  ASSUME IInv, NEW p \in Resolvers, CallRaises(p)
  PROVE  IInv'
<1>1. failed' = (failed \/ p = Loop) /\ failed' \in BOOLEAN
  BY DEF IInv, TypeOK, CallRaises
<1> QED BY <1>1, RaisePreserves DEF CallRaises

(* A response reaches those that ask for the address it is for, and gives  *)
(* them a topic for that address.                                          *)
LEMMA RespondPreserves ==
  ASSUME IInv, NEW m \in Macs, Respond(m)
  PROVE  IInv'
<1> USE RoutesAssumption
<1>0. TypeOK /\ HeldInv /\ EditInv /\ ForeignInv /\ LoopInv
  BY DEF IInv
<1>1. /\ job' = [p \in Resolvers |-> IF Listens(p, m)
                                     THEN [job[p] EXCEPT !.phase = "sensors", !.topic = TopicFor(m)]
                                     ELSE job[p]]
      /\ UNCHANGED <<responder, table, form, todo, routes, edits, history>>
  BY DEF Respond
<1>2. job \in [Resolvers -> Jobs] /\ TopicFor(m) \in Topics /\ TopicFor(m).mac = m
  BY <1>0 DEF TypeOK, ResponderTypeOK, Topics, TopicFor
<1>3. ASSUME NEW p \in Resolvers, Listens(p, m)
      PROVE  /\ job'[p].phase = "sensors" /\ job'[p].topic = TopicFor(m) /\ job'[p] \in Jobs
             /\ job'[p].route = job[p].route /\ job'[p].row = job[p].row
             /\ job[p].phase \in {"topic", "sensors"} /\ job[p].row.settings.mac = m
  <2>1. job'[p] = [job[p] EXCEPT !.phase = "sensors", !.topic = TopicFor(m)] /\ job[p] \in Jobs
    BY <1>1, <1>2, <1>3
  <2>2. /\ job'[p].phase = "sensors" /\ job'[p].topic = TopicFor(m)
        /\ job'[p].route = job[p].route /\ job'[p].row = job[p].row
    BY <2>1 DEF Jobs
  <2>3. job'[p] \in Jobs
    BY <2>1, <1>2 DEF Jobs
  <2> QED BY <1>3, <2>2, <2>3 DEF Listens, Asks
<1>4. \A p \in Resolvers : ~Listens(p, m) => job'[p] = job[p]
  BY <1>1
<1>5. /\ devices' = devices /\ rows' = rows /\ created' = created /\ Stored' = Stored
      /\ wanted' = wanted /\ overlapped' = overlapped /\ requested' = requested
      /\ carried' = carried /\ disturbed' = disturbed /\ failed' = failed /\ todo' = todo
  BY <1>1 DEF table, history, Stored
<1>6. \A p \in Resolvers : /\ job'[p].route = job[p].route /\ job'[p].row = job[p].row
                           /\ \/ job'[p].phase = job[p].phase
                              \/ /\ job[p].phase \in {"topic", "sensors"}
                                 /\ job'[p].phase = "sensors"
  BY <1>3, <1>4
<1>7. \A p \in Resolvers, i \in Ids : /\ Holds(p, i)' <=> Holds(p, i)
                                      /\ Plans(p, i)' <=> Plans(p, i)
  BY <1>5, <1>6 DEF Holds, Plans
<1>8. TypeOK'
  <2>1. job' \in [Resolvers -> Jobs]
    <3>1. \A p \in Resolvers : job'[p] \in Jobs
      BY <1>2, <1>3, <1>4
    <3> QED BY <1>1, <3>1
  <2> QED BY <1>0, <1>1, <2>1 DEF TypeOK, ResponderTypeOK, responder, table, history
<1>9. HeldInv'
  <2> SUFFICES ASSUME NEW p \in Resolvers
               PROVE  /\ job'[p].phase \in {"topic", "sensors"} =>
                           /\ job'[p].route \in Ids /\ job'[p].row \in Rows
                           /\ job'[p].row.settings.mac \in Macs
                      /\ job'[p].phase = "sensors" =>
                           job'[p].topic \in Topics /\ job'[p].topic.mac = job'[p].row.settings.mac
                      /\ job'[p].phase = "relist" => job'[p].route \in Ids
    BY DEF HeldInv
  <2>1. CASE Listens(p, m)
    BY <1>0, <1>2, <1>3, <2>1 DEF HeldInv
  <2>2. CASE ~Listens(p, m)
    BY <1>0, <1>4, <2>2 DEF HeldInv
  <2> QED BY <2>1, <2>2
<1>10. EditInv'
  <2>1. EditsAreLostOnlyToOverlap'
    BY <1>0, <1>5 DEF EditInv, EditsAreLostOnlyToOverlap
  <2>2. ASSUME NEW p \in Resolvers, NEW i \in Ids
        PROVE  /\ Holds(p, i)' /\ i \notin overlapped => Wanted(job'[p].row.settings, i)
               /\ Plans(p, i)' /\ i \notin requested => wanted[i].dynamic = TRUE
    BY <1>0, <1>6, <1>7 DEF EditInv
  <2> QED BY <1>0, <1>5, <2>1, <2>2 DEF EditInv, Wanted
<1>11. ForeignInv'
  <2>1. ASSUME NEW p \in Resolvers, NEW i \in Ids, Holds(p, i)', Foreign(job'[p].row)
        PROVE  i \in carried
    BY <1>0, <1>6, <1>7, <2>1 DEF ForeignInv
  <2> QED BY <1>0, <1>5, <2>1 DEF ForeignInv, ForeignTopicsComeFromForms, Foreign
<1>12. LoopInv'
  <2>1. Loop \in Resolvers
    BY DEF Resolvers
  <2>2. /\ job'[Loop].row = job[Loop].row /\ job'[Loop].route = job[Loop].route
        /\ job'[Loop].phase = "dead" <=> job[Loop].phase = "dead"
        /\ job'[Loop].phase = "relist" <=> job[Loop].phase = "relist"
        /\ \A i \in Ids : Holds(Loop, i)' <=> Holds(Loop, i)
    BY <1>6, <1>7, <2>1
  <2> QED BY <1>0, <1>5, <2>2 DEF LoopInv
<1> QED BY <1>8, <1>9, <1>10, <1>11, <1>12 DEF IInv

(* The end of resolver p's work on a route or of its round: it holds       *)
(* nothing and plans no more than before.                                  *)
LetGo(p, next) == job' = [job EXCEPT ![p] = [Idle EXCEPT !.phase = next]]

LEMMA LetGoPreserves ==
  ASSUME IInv, NEW p \in Resolvers, NEW next \in {"idle", "round"}, LetGo(p, next),
         UNCHANGED <<responder, table, form, todo, edits, history>>,
         routes' = routes \/ routes' = OutputRoutes
  PROVE  IInv'
<1> USE RoutesAssumption
<1>0. TypeOK /\ HeldInv /\ EditInv /\ ForeignInv /\ LoopInv
  BY DEF IInv
<1>1. job \in [Resolvers -> Jobs]
  BY <1>0 DEF TypeOK
<1>2. /\ job'[p].phase = next /\ job'[p] \in Jobs
      /\ \A q \in Resolvers \ {p} : job'[q] = job[q]
  BY <1>1 DEF LetGo, Idle, Jobs
<1>3. /\ devices' = devices /\ rows' = rows /\ created' = created /\ Stored' = Stored
      /\ wanted' = wanted /\ overlapped' = overlapped /\ requested' = requested
      /\ carried' = carried /\ disturbed' = disturbed /\ failed' = failed /\ todo' = todo
  BY DEF table, history, Stored
<1>4. TypeOK'
  <2>1. job' \in [Resolvers -> Jobs]
    BY <1>1, <1>2 DEF LetGo
  <2>2. routes' \subseteq Ids \X (Devices \cup {AllDevices}) \X (Topics \cup {NoTopic})
    BY <1>0, OutputRoutesType DEF TypeOK
  <2> QED BY <1>0, <2>1, <2>2 DEF TypeOK, ResponderTypeOK, responder, table, history
<1>5. HeldInv'
  BY <1>0, <1>2 DEF HeldInv
<1>6. \A q \in Resolvers, i \in Ids : /\ Holds(q, i)' => (Holds(q, i) /\ job'[q] = job[q])
                                      /\ Plans(q, i)' => Plans(q, i)
  BY <1>2, <1>3 DEF Holds, Plans
<1>7. EditInv'
  <2>1. EditsAreLostOnlyToOverlap'
    BY <1>0, <1>3 DEF EditInv, EditsAreLostOnlyToOverlap
  <2>2. ASSUME NEW q \in Resolvers, NEW i \in Ids
        PROVE  /\ Holds(q, i)' /\ i \notin overlapped => Wanted(job'[q].row.settings, i)
               /\ Plans(q, i)' /\ i \notin requested => wanted[i].dynamic = TRUE
    BY <1>0, <1>6 DEF EditInv
  <2> QED BY <1>0, <1>3, <2>1, <2>2 DEF EditInv, Wanted
<1>8. ForeignInv'
  <2>1. ASSUME NEW q \in Resolvers, NEW i \in Ids, Holds(q, i)', Foreign(job'[q].row)
        PROVE  i \in carried
    BY <1>0, <1>6, <2>1 DEF ForeignInv
  <2> QED BY <1>0, <1>3, <2>1 DEF ForeignInv, ForeignTopicsComeFromForms, Foreign
<1>9. LoopInv'
  <2>1. CASE p = Loop
    BY <1>0, <1>2, <1>3, <2>1 DEF LoopInv, Holds
  <2>2. CASE p # Loop
    <3>1. job'[Loop] = job[Loop] /\ \A i \in Ids : Holds(Loop, i)' => Holds(Loop, i)
      BY <1>2, <2>2 DEF Resolvers, Holds
    <3> QED BY <1>0, <1>3, <3>1 DEF LoopInv
  <2> QED BY <2>1, <2>2
<1> QED BY <1>4, <1>5, <1>7, <1>8, <1>9 DEF IInv

(* Resolver p writes back the row that it holds, with topic t.             *)
Written(p, t) ==
  /\ rows' = Update(job[p].route, [settings |-> [job[p].row.settings EXCEPT !.dynamic = TRUE], topic |-> t])
  /\ job' = [job EXCEPT ![p] = [Idle EXCEPT !.phase = "relist", !.route = job[p].route]]
  /\ UNCHANGED <<responder, devices, created, form, todo, routes, edits, history>>

LEMMA WrittenPreserves ==
  ASSUME IInv, NEW p \in Resolvers, NEW t \in Topics \cup {NoTopic},
         job[p].phase \in {"topic", "sensors"},
         Foreign([settings |-> job[p].row.settings, topic |-> t]) => Foreign(job[p].row),
         job[p].route \in Stored => job[p].row.settings.device \in devices \cup {AllDevices},
         Written(p, t)
  PROVE  IInv'
<1> USE RoutesAssumption
<1> DEFINE r0  == job[p].route
           s0  == job[p].row.settings
           s1  == [s0 EXCEPT !.dynamic = TRUE]
           new == [settings |-> s1, topic |-> t]
           end == [Idle EXCEPT !.phase = "relist", !.route = r0]
<1>0. TypeOK /\ HeldInv /\ EditInv /\ ForeignInv /\ LoopInv
  BY DEF IInv
<1>1. r0 \in Ids /\ s0 \in Settings /\ s0.mac \in Macs /\ Holds(p, r0) /\ Plans(p, r0)
  BY <1>0 DEF HeldInv, Rows, Holds, Plans
<1>2. /\ s1 \in Settings /\ s1.mac = s0.mac /\ s1.device = s0.device
      /\ \A b : [s1 EXCEPT !.dynamic = b] = [s0 EXCEPT !.dynamic = b]
  BY <1>1 DEF Settings
<1>3. new \in Rows /\ new # NoRow /\ new.settings = s1 /\ new.topic = t
  <2>1. new \in Rows
    BY <1>2 DEF Rows
  <2> QED BY <2>1
<1>4. end \in Jobs /\ end.phase = "relist" /\ end.route = r0
  BY <1>1 DEF Idle, Jobs
<1>5. /\ devices' = devices /\ created' = created /\ todo' = todo
      /\ wanted' = wanted /\ overlapped' = overlapped /\ requested' = requested
      /\ carried' = carried /\ disturbed' = disturbed /\ failed' = failed
      /\ untouched' = untouched
  BY DEF Written, history
<1>6. /\ rows' = IF r0 \in Stored THEN [rows EXCEPT ![r0] = new] ELSE rows
      /\ job' = [job EXCEPT ![p] = end]
      /\ UNCHANGED <<responder, form, routes, edits>>
  BY DEF Written, Update
<1> HIDE DEF s1, new, end
<1>7. /\ Stored' = Stored
      /\ \A i \in Ids \ {r0} : rows'[i] = rows[i]
      /\ r0 \in Stored => rows'[r0] = new
  BY <1>0, <1>1, <1>3, <1>6 DEF Stored, TypeOK
<1>8. /\ job'[p] = end
      /\ \A q \in Resolvers \ {p} : job'[q] = job[q]
  BY <1>0, <1>6 DEF TypeOK
<1>9. \A q \in Resolvers, i \in Ids : /\ Holds(q, i)' => (Holds(q, i) /\ job'[q] = job[q])
                                      /\ Plans(q, i)' => Plans(q, i)
  BY <1>4, <1>5, <1>8 DEF Holds, Plans
<1>10. TypeOK'
  <2>1. job' \in [Resolvers -> Jobs] /\ rows' \in [Ids -> Rows \cup {NoRow}]
    BY <1>0, <1>3, <1>4, <1>6 DEF TypeOK
  <2> QED BY <1>0, <1>5, <1>6, <2>1 DEF TypeOK, ResponderTypeOK, responder
<1>11. HeldInv'
  BY <1>0, <1>1, <1>4, <1>8 DEF HeldInv
<1>12. EditInv'
  <2>1. /\ r0 \notin overlapped => Wanted(s0, r0)
        /\ r0 \notin requested => wanted[r0].dynamic = TRUE
        /\ overlapped \subseteq requested
    BY <1>0, <1>1 DEF EditInv
  <2>2. ASSUME r0 \in Stored, r0 \notin overlapped
        PROVE  /\ Wanted(s1, r0)
               /\ r0 \notin requested => s1 = wanted[r0]
    <3>1. [s0 EXCEPT !.dynamic = wanted[r0].dynamic] = wanted[r0]
      BY <2>1, <2>2 DEF Wanted
    <3>2. r0 \notin requested => s1 = wanted[r0]
      BY <3>1, <2>1 DEF s1
    <3> QED BY <3>1, <3>2, <1>2 DEF Wanted
  <2>3. ASSUME NEW i \in Stored
        PROVE  /\ i \notin overlapped => Wanted(rows'[i].settings, i)
               /\ i \notin requested => rows'[i].settings = wanted[i]
    <3>1. CASE i = r0
      BY <2>1, <2>2, <2>3, <3>1, <1>3, <1>7
    <3>2. CASE i # r0
      BY <1>0, <1>7, <3>2 DEF EditInv, EditsAreLostOnlyToOverlap, Wanted, Stored
    <3> QED BY <3>1, <3>2
  <2>4. EditsAreLostOnlyToOverlap'
    BY <1>5, <1>7, <2>3 DEF EditsAreLostOnlyToOverlap, Wanted
  <2>5. ASSUME NEW q \in Resolvers, NEW i \in Ids
        PROVE  /\ Holds(q, i)' /\ i \notin overlapped => Wanted(job'[q].row.settings, i)
               /\ Plans(q, i)' /\ i \notin requested => wanted[i].dynamic = TRUE
    BY <1>0, <1>9 DEF EditInv
  <2> QED BY <1>5, <2>1, <2>4, <2>5 DEF EditInv, Wanted
<1>13. ForeignInv'
  <2>1. ASSUME NEW q \in Resolvers, NEW i \in Ids, Holds(q, i)', Foreign(job'[q].row)
        PROVE  i \in carried
    BY <1>0, <1>9, <2>1 DEF ForeignInv
  <2>2. Foreign(new) => r0 \in carried
    <3>1. Foreign(new) => Foreign([settings |-> s0, topic |-> t])
      BY <1>2, <1>3 DEF Foreign
    <3> QED BY <1>0, <1>1, <3>1 DEF ForeignInv
  <2>3. ASSUME NEW i \in Stored, Foreign(rows'[i])
        PROVE  i \in carried
    <3>1. CASE i = r0
      BY <2>2, <2>3, <3>1, <1>7
    <3>2. CASE i # r0
      BY <1>0, <2>3, <1>7, <3>2 DEF ForeignInv, ForeignTopicsComeFromForms, Stored
    <3> QED BY <3>1, <3>2
  <2> QED BY <1>5, <1>7, <2>1, <2>3 DEF ForeignInv, ForeignTopicsComeFromForms, Foreign
<1>14. LoopInv'
  <2>1. /\ Stored' \subseteq 1 .. created'
        /\ \A i \in Stored' : rows'[i].settings.device \in devices' \cup {AllDevices}
    BY <1>0, <1>2, <1>3, <1>5, <1>7 DEF LoopInv, Stored
  <2>2. SUFFICES ASSUME ~disturbed, ~failed
                 PROVE  /\ job'[Loop].phase # "dead"
                        /\ \A i \in todo[Loop] : i \in Stored /\ rows'[i].settings.mac # NoMac
                        /\ \A i \in Ids : Holds(Loop, i)' =>
                             i \in Stored /\ job'[Loop].row.settings.device \in devices \cup {AllDevices}
                        /\ job'[Loop].phase = "relist" => job'[Loop].route \in Stored
    BY <2>1, <1>5, <1>7 DEF LoopInv
  <2>3. /\ job[Loop].phase # "dead"
        /\ \A i \in todo[Loop] : i \in Stored /\ rows[i].settings.mac # NoMac
        /\ \A i \in Ids : Holds(Loop, i) =>
             i \in Stored /\ job[Loop].row.settings.device \in devices \cup {AllDevices}
        /\ job[Loop].phase = "relist" => job[Loop].route \in Stored
    BY <1>0, <2>2 DEF LoopInv
  <2>4. \A i \in todo[Loop] : i \in Stored /\ rows'[i].settings.mac # NoMac
    BY <1>1, <1>2, <1>3, <1>7, <2>3 DEF Stored
  <2>5. Loop \in Resolvers /\ \A i \in Ids : Holds(Loop, i)' => (Holds(Loop, i) /\ job'[Loop] = job[Loop])
    BY <1>9 DEF Resolvers
  <2>6. /\ job'[Loop].phase # "dead"
        /\ job'[Loop].phase = "relist" => job'[Loop].route \in Stored
    <3>1. CASE p = Loop
      BY <1>1, <1>4, <1>8, <2>3, <3>1
    <3>2. CASE p # Loop
      BY <1>8, <2>3, <2>5, <3>2
    <3> QED BY <3>1, <3>2
  <2> QED BY <2>3, <2>4, <2>5, <2>6
<1> QED BY <1>10, <1>11, <1>12, <1>13, <1>14 DEF IInv

LEMMA WriteBackPreserves ==
  ASSUME IInv, NEW p \in Resolvers, NEW t \in Topics \cup {NoTopic},
         job[p].phase \in {"topic", "sensors"},
         Foreign([settings |-> job[p].row.settings, topic |-> t]) => Foreign(job[p].row),
         WriteBack(p, t)
  PROVE  IInv'
<1> DEFINE legal == job[p].route \in Stored => job[p].row.settings.device \in devices \cup {AllDevices}
<1>1. CASE legal /\ Written(p, t)
  BY <1>1, WrittenPreserves
<1>2. CASE /\ ~legal /\ Raise(p)
           /\ UNCHANGED <<responder, table, form, routes, edits, history>>
  <2>1. job[p].route \in Ids
    BY DEF IInv, HeldInv
  <2>2. p = Loop => disturbed \/ failed
    BY <1>2, <2>1 DEF IInv, LoopInv, Holds
  <2>3. failed' = failed /\ failed \in BOOLEAN
    BY <1>2 DEF IInv, TypeOK, history
  <2> QED BY <1>2, <2>2, <2>3, RaisePreserves DEF history
<1> QED BY <1>1, <1>2 DEF WriteBack, Written, table

LEMMA WriteTopicPreserves ==
  ASSUME IInv, NEW p \in Resolvers, WriteTopic(p)
  PROVE  IInv'
<1>1. job[p].phase = "sensors" /\ WriteBack(p, job[p].topic)
  BY DEF WriteTopic
<1>2. job[p].topic \in Topics /\ job[p].topic.mac = job[p].row.settings.mac
  BY <1>1 DEF IInv, HeldInv
<1>3. ~Foreign([settings |-> job[p].row.settings, topic |-> job[p].topic])
  BY <1>2 DEF Foreign
<1> QED BY <1>1, <1>2, <1>3, WriteBackPreserves

LEMMA WriteErrorPreserves ==
  ASSUME IInv, NEW p \in Resolvers, WriteError(p)
  PROVE  IInv'
<1>1. job[p].phase = "topic" /\ WriteBack(p, job[p].row.topic)
  BY DEF WriteError
<1>2. job[p].row.topic \in Topics \cup {NoTopic}
  BY <1>1 DEF IInv, HeldInv, Rows
<1>3. Foreign([settings |-> job[p].row.settings, topic |-> job[p].row.topic]) => Foreign(job[p].row)
  BY DEF Foreign
<1> QED BY <1>1, <1>2, <1>3, WriteBackPreserves

LEMMA RelistPreserves ==
  ASSUME IInv, NEW p \in Resolvers, Relist(p)
  PROVE  IInv'
<1>1. CASE job[p].route \in Stored
  <2>1. LetGo(p, "round")
    BY <1>1 DEF Relist, LetGo
  <2> QED BY <1>1, <2>1, LetGoPreserves DEF Relist
<1>2. CASE job[p].route \notin Stored
  <2>1. p = Loop => disturbed \/ failed
    BY <1>2 DEF IInv, LoopInv, Relist
  <2>2. failed' = failed /\ failed \in BOOLEAN
    BY DEF IInv, TypeOK, Relist, history
  <2> QED BY <1>2, <2>1, <2>2, RaisePreserves DEF Relist, history
<1> QED BY <1>1, <1>2

LEMMA EndRoundPreserves ==
  ASSUME IInv, NEW p \in Resolvers, EndRound(p)
  PROVE  IInv'
<1>1. LetGo(p, "idle")
  <2>1. [Idle EXCEPT !.phase = "idle"] = Idle
    BY DEF Idle
  <2> QED BY <2>1 DEF EndRound, LetGo
<1> QED BY <1>1, LetGoPreserves DEF EndRound

-----------------------------------------------------------------------------
LEMMA NextPreserves == IInv /\ [Next]_vars => IInv'
<1> SUFFICES ASSUME IInv, [Next]_vars PROVE IInv'
  OBVIOUS
<1>1. CASE UNCHANGED vars
  BY <1>1, StutterPreserves
<1>2. CASE UserStep
  BY <1>2, OpenFormPreserves, CreatePreserves, SavePreserves, DeleteRoutePreserves,
     DeleteDevicePreserves DEF UserStep
<1>3. CASE ListRoutes
  BY <1>3, ListRoutesPreserves
<1>4. ASSUME NEW p \in Resolvers, ResolverStep(p) \/ CallRaises(p) PROVE IInv'
  BY <1>4, CallRaisesPreserves, ReadRoutePreserves, ReadFailsPreserves, WriteTopicPreserves, WriteErrorPreserves,
     RelistPreserves, EndRoundPreserves DEF ResolverStep
<1>5. ASSUME NEW m \in Macs, Respond(m) PROVE IInv'
  BY <1>5, RespondPreserves
<1>6. CASE (Move \/ RefreshMapping \/ ResponderFails) /\ UNCHANGED others
  BY <1>6, ResponderPreserves
<1> QED BY <1>1, <1>2, <1>3, <1>4, <1>5, <1>6 DEF Next

LEMMA Invariant == Spec => []IInv
<1> QED BY InitEstablishes, NextPreserves, PTL DEF Spec

(* The variables of every reachable state have their types.                *)
THEOREM RoutesTypeCorrect == Spec => []TypeOK
<1>1. IInv => TypeOK
  BY DEF IInv
<1> QED BY <1>1, Invariant, PTL

(* What users save in save_output_route() is undone only by a resolver     *)
(* that had read, or planned to read, the row before.                      *)
THEOREM EditsLostOnlyToOverlap == Spec => []EditsAreLostOnlyToOverlap
<1>1. IInv => EditsAreLostOnlyToOverlap
  BY DEF IInv, EditInv
<1> QED BY <1>1, Invariant, PTL

(* refresh_loop() dies only if a user takes away what its round needs, or  *)
(* a call that it makes raises by itself.                                  *)
THEOREM LoopDeathsHaveCauses == Spec => []LoopDiesOnlyOfEditsOrErrors
<1>1. IInv => LoopDiesOnlyOfEditsOrErrors
  BY DEF IInv, LoopInv, LoopDiesOnlyOfEditsOrErrors
<1> QED BY <1>1, Invariant, PTL

(* TopicRequestClient hears every response for an address that it asked    *)
(* for, and no resolver gives a route a topic for another address.         *)
THEOREM ForeignTopicsAreFormTopics == Spec => []ForeignTopicsComeFromForms
<1>1. IInv => ForeignTopicsComeFromForms
  BY DEF IInv, ForeignInv
<1> QED BY <1>1, Invariant, PTL

(* UPDATE without a row to update and a new id for every INSERT: a route   *)
(* that has been deleted stays deleted, whatever a resolver still writes.  *)
THEOREM DeletedRoutesStayDeleted == Spec => DeletedStaysDeleted
<1> DEFINE Kept == \A r \in 1 .. created : r \notin Stored => r \notin Stored'
<1>1. ASSUME IInv, [Next]_vars PROVE [Kept]_vars
  <2>0. created \in Nat /\ rows \in [Ids -> Rows \cup {NoRow}]
    BY <1>1 DEF IInv, TypeOK
  <2>1. CASE UNCHANGED vars
    BY <2>1
  <2>2. CASE UserStep
    <3>1. ASSUME NEW s \in Choices, NEW click \in BOOLEAN, Create(s, click) PROVE Kept
      BY <2>0, <3>1 DEF Create, Stored
    <3>2. ASSUME NEW s \in Choices, NEW click \in BOOLEAN, Save(s, click) PROVE Kept
      <4>1. form.id \in Stored /\ \A r \in Ids \ {form.id} : rows'[r] = rows[r]
        BY <2>0, <3>2 DEF Save, Update, Stored
      <4> QED BY <4>1 DEF Stored
    <3>3. ASSUME NEW r \in Ids, DeleteRoute(r) PROVE Kept
      BY <2>0, <3>3 DEF DeleteRoute, Stored
    <3>4. ASSUME NEW d \in Devices, DeleteDevice(d) PROVE Kept
      BY <3>4 DEF DeleteDevice, Stored
    <3>5. CASE OpenForm
      BY <3>5 DEF OpenForm, table, Stored
    <3> QED BY <2>2, <3>1, <3>2, <3>3, <3>4, <3>5 DEF UserStep
  <2>3. ASSUME NEW p \in Resolvers, ResolverStep(p) \/ CallRaises(p) PROVE Kept
    <3>1. ASSUME NEW t, WriteBack(p, t) PROVE Kept
      <4>1. \A r \in Ids \ Stored : rows'[r] = rows[r]
        BY <2>0, <3>1 DEF WriteBack, Update
      <4> QED BY <4>1 DEF Stored
    <3>2. CASE UNCHANGED rows
      BY <3>2 DEF Stored
    <3> QED BY <2>3, <3>1, <3>2
               DEF ResolverStep, ReadRoute, ReadFails, WriteTopic, WriteError, Relist, EndRound, CallRaises,
                   table
  <2>4. CASE \/ ListRoutes \/ \E m \in Macs : Respond(m)
             \/ (Move \/ RefreshMapping \/ ResponderFails) /\ UNCHANGED others
    <3>1. rows' = rows
      BY <2>4 DEF ListRoutes, Respond, others, table
    <3> QED BY <3>1 DEF Stored
  <2> QED BY <1>1, <2>1, <2>2, <2>3, <2>4 DEF Next
<1>2. Spec => [][Kept]_vars
  BY <1>1, Invariant, PTL DEF Spec
<1> QED BY <1>2 DEF DeletedStaysDeleted
=============================================================================

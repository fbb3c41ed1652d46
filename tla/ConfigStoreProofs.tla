--------------------------- MODULE ConfigStoreProofs ---------------------------
(***************************************************************************)
(* What the store keeps of its promises next to any number of requests and *)
(* an import, for every set of names, groups and drivers.                  *)
(*                                                                         *)
(* The argument is about what an actor knows between two transactions of   *)
(* save_tag(): after the first, that the tag fits the driver, after the    *)
(* second, that no other tag has its place, unless the history says that   *)
(* somebody has changed either since.                                      *)
(***************************************************************************)
EXTENDS ConfigStore, TLAPS

(* No id is given out twice.                                               *)
SavedIdsAreOld == \A a \in Saving : save[a].id \in 1 .. made.tag \cup {None}

(* The tag of an actor still fits.                                         *)
ValidatedFits ==
  \A a \in Actors : at[a] \in {"validated", "checked"} =>
    LET d == save[a].row.place.device IN
    /\ d \in 1 .. made.device
    /\ d \in DOMAIN devices /\ a \notin outdated => devices[d].driver = save[a].row.fits

(* The place of an actor is still free.                                    *)
CheckedIsFree ==
  \A a \in Actors \ raced : at[a] = "checked" =>
    \A i \in DOMAIN tags \ {save[a].id} : tags[i].place # save[a].row.place

(* The tag that the import writes over is at its place, or where nothing   *)
(* that is kept is.                                                        *)
MatchIsSafe ==
  Loop \in Saving /\ save[Loop].id \in DOMAIN tags =>
    \/ tags[save[Loop].id].place = save[Loop].row.place
    \/ \A r \in kept : r.place # tags[save[Loop].id].place

Inv ==
  /\ TypeOK /\ SavedIdsAreOld /\ ValidatedFits
  /\ CheckedIsFree /\ MatchIsSafe /\ ImportedRowsStand

-----------------------------------------------------------------------------
(* Types                                                                   *)

(* The types hold at first.                                                *)
LEMMA TypeInit == Init => TypeOK
  <1> SUFFICES ASSUME Init PROVE TypeOK
    OBVIOUS
  <1> USE StoreAssumption DEF Init, NoRows, Saving
  <1>1. TablesOK
    <2>1. DOMAIN devices = {} /\ devices \in [DOMAIN devices -> DeviceRows]
      OBVIOUS
    <2>2. DOMAIN tags = {} /\ tags \in [DOMAIN tags -> TagRows]
      OBVIOUS
    <2>3. made \in [device : 0 .. MaxDevices, tag : 0 .. MaxTags]
      OBVIOUS
    <2> QED BY <2>1, <2>2, <2>3 DEF TablesOK
  <1>2. ActorsOK
    BY DEF ActorsOK, Actors
  <1>3. ImportOK /\ served \in 0 .. MaxRequests
    <2>1. at[Loop] = "idle" /\ Loop \notin Saving
      BY DEF Actors
    <2>2. known \in Indexes \cup {None} /\ into \in DeviceIds \cup {None}
      OBVIOUS
    <2>3. rowNo \in 0 .. MaxRows /\ served \in 0 .. MaxRequests
      OBVIOUS
    <2>4. disturbed \in BOOLEAN /\ kept \subseteq TagRows
      OBVIOUS
    <2>5. import = <<None, None, 0>>
      BY DEF import
    <2> QED BY ONLY <2>1, <2>2, <2>3, <2>4, <2>5 DEF ImportOK
  <1> QED BY <1>1, <1>2, <1>3 DEF TypeOK

(* A device is inserted under a new id.                                    *)
LEMMA DeviceInserted ==
  ASSUME TablesOK, NEW d \in DeviceRows, InsertDevice(d)
  PROVE  /\ made'.device = made.device + 1 /\ made'.tag = made.tag
         /\ made' \in [device : 0 .. MaxDevices, tag : 0 .. MaxTags]
         /\ DOMAIN devices' = DOMAIN devices \cup {made'.device}
         /\ devices' \in [DOMAIN devices' -> DeviceRows]
         /\ made'.device \notin DOMAIN devices
         /\ made'.device \in DeviceIds
         /\ \A i \in DOMAIN devices : devices'[i] = devices[i]
  <1>1. /\ made'.device = made.device + 1 /\ made'.tag = made.tag
        /\ made' \in [device : 0 .. MaxDevices, tag : 0 .. MaxTags]
        /\ made'.device \in DeviceIds /\ made'.device \notin DOMAIN devices
    BY StoreAssumption DEF InsertDevice, TablesOK, DeviceIds
  <1>2. devices' = With(devices, made'.device, d)
    BY DEF InsertDevice
  <1>3. devices \in [DOMAIN devices -> DeviceRows]
    BY DEF TablesOK
  <1>4. /\ DOMAIN devices' = DOMAIN devices \cup {made'.device}
        /\ devices' \in [DOMAIN devices' -> DeviceRows]
        /\ \A i \in DOMAIN devices \ {made'.device} : devices'[i] = devices[i]
    BY <1>2, <1>3 DEF With
  <1> QED BY <1>1, <1>4

(* A tag is written: under a new id, or over the one of its id.            *)
LEMMA TagWritten ==
  ASSUME TablesOK, ActorsOK, NEW a \in Actors, NEW i, NEW left,
         i \in TagIds, WriteRow(a, i, left), at[a] = "checked"
  PROVE  /\ save[a].row \in TagRows /\ save[a].row.place.device \in DOMAIN devices
         /\ DOMAIN tags' = DOMAIN tags \cup {i}
         /\ tags' \in [DOMAIN tags' -> TagRows]
         /\ tags'[i] = save[a].row
         /\ \A j \in DOMAIN tags \ {i} : tags'[j] = tags[j]
         /\ devices' = devices
  <1>1. save[a] \in Saves
    BY DEF ActorsOK, Saving
  <1>2. save[a].row \in TagRows
    BY <1>1 DEF Saves
  <1>3. tags' = With(tags, i, save[a].row) /\ save[a].row.place.device \in DOMAIN devices
    BY DEF WriteRow
  <1>4. devices' = devices
    BY DEF WriteRow, Saved
  <1>5. tags \in [DOMAIN tags -> TagRows]
    BY DEF TablesOK
  <1>6. /\ DOMAIN tags' = DOMAIN tags \cup {i}
        /\ tags' \in [DOMAIN tags' -> TagRows]
        /\ tags'[i] = save[a].row
        /\ \A j \in DOMAIN tags \ {i} : tags'[j] = tags[j]
    BY <1>2, <1>3, <1>5 DEF With
  <1> QED BY <1>2, <1>3, <1>4, <1>6

(* Which tag an actor writes: a new one, or that of its id.                *)
LEMMA WhichTag ==
  ASSUME TablesOK, ActorsOK, NEW a \in Actors, Insert(a) \/ Update(a)
  PROVE  \E i \in TagIds : \E left :
           /\ WriteRow(a, i, left) /\ at[a] = "checked"
           /\ \/ /\ save[a].id = None /\ i \notin DOMAIN tags /\ left = {}
                 /\ i = made.tag + 1 /\ made' = [made EXCEPT !.tag = i]
              \/ i = save[a].id /\ i \in DOMAIN tags /\ left = {tags[i].place} /\ made' = made
  <1>1. CASE Insert(a)
    <2>1. made.tag \in Nat /\ made.tag < MaxTags /\ made' = [made EXCEPT !.tag = made.tag + 1]
      BY <1>1, StoreAssumption DEF Insert, TablesOK
    <2>2. made'.tag = made.tag + 1 /\ made.tag + 1 \in TagIds /\ made.tag + 1 \notin DOMAIN tags
      BY <2>1, StoreAssumption DEF TablesOK, TagIds
    <2>3. WriteRow(a, made.tag + 1, {}) /\ at[a] = "checked" /\ save[a].id = None
      BY <1>1, <2>2 DEF Insert
    <2> QED BY <2>1, <2>2, <2>3
  <1>2. CASE Update(a)
    <2>1. save[a].id \in TagIds
      BY <1>2, StoreAssumption DEF Update, TablesOK, TagIds
    <2> QED BY <1>2, <2>1 DEF Update
  <1> QED BY <1>1, <1>2

-----------------------------------------------------------------------------
(* Every step keeps the types of the tables.                               *)
LEMMA TablesStep == TypeOK /\ [Next]_vars => TablesOK'
  <1> SUFFICES ASSUME TypeOK, [Next]_vars PROVE TablesOK'
    OBVIOUS
  <1> USE DEF TypeOK
  <1>1. CASE UNCHANGED <<devices, tags, made>>
    BY <1>1 DEF TablesOK
  <1>2. CASE \E d \in DeviceRows : InsertDevice(d) /\ UNCHANGED tags
    <2>1. PICK d \in DeviceRows : InsertDevice(d) /\ UNCHANGED tags
      BY <1>2
    <2>2. /\ made' \in [device : 0 .. MaxDevices, tag : 0 .. MaxTags]
          /\ made'.device = made.device + 1 /\ made'.tag = made.tag
          /\ DOMAIN devices' = DOMAIN devices \cup {made'.device}
          /\ devices' \in [DOMAIN devices' -> DeviceRows]
      BY <2>1, DeviceInserted
    <2> QED BY <2>1, <2>2, StoreAssumption DEF TablesOK
  <1>3. CASE \E i \in DOMAIN devices : UpdateDevice(i)
    BY <1>3 DEF UpdateDevice, TablesOK
  <1>4. CASE \E i \in DOMAIN devices : DeleteDevice(i)
    <2>1. PICK i \in DOMAIN devices : DeleteDevice(i)
      BY <1>4
    <2>2. /\ DOMAIN devices' = DOMAIN devices \ {i} /\ made' = made
          /\ devices' \in [DOMAIN devices' -> DeviceRows]
      BY <2>1 DEF DeleteDevice, Without, TablesOK
    <2>3. /\ DOMAIN tags' = DOMAIN tags \ TagsOf(i)
          /\ tags' \in [DOMAIN tags' -> TagRows]
          /\ \A j \in DOMAIN tags' : tags'[j] = tags[j]
      BY <2>1 DEF DeleteDevice, Without, TablesOK
    <2>4. \A j \in DOMAIN tags' : tags'[j].place.device \in DOMAIN devices'
      BY <2>2, <2>3 DEF TagsOf, TablesOK
    <2> QED BY <2>2, <2>3, <2>4 DEF TablesOK
  <1>5. CASE \E i \in DOMAIN tags : DeleteTag(i)
    <2>1. PICK i \in DOMAIN tags : DeleteTag(i)
      BY <1>5
    <2>2. /\ DOMAIN tags' = DOMAIN tags \ {i}
          /\ tags' \in [DOMAIN tags' -> TagRows]
          /\ \A j \in DOMAIN tags' : tags'[j] = tags[j]
      BY <2>1 DEF DeleteTag, Without, TablesOK
    <2>3. UNCHANGED <<devices, made>>
      BY <2>1 DEF DeleteTag
    <2> QED BY <2>2, <2>3 DEF TablesOK
  <1>6. CASE \E a \in Actors : Insert(a) \/ Update(a)
    <2>1. PICK a \in Actors : Insert(a) \/ Update(a)
      BY <1>6
    <2>2. PICK i \in TagIds : \E left :
            /\ WriteRow(a, i, left) /\ at[a] = "checked"
            /\ \/ /\ save[a].id = None /\ i \notin DOMAIN tags /\ left = {}
                  /\ i = made.tag + 1 /\ made' = [made EXCEPT !.tag = i]
               \/ i = save[a].id /\ i \in DOMAIN tags /\ left = {tags[i].place} /\ made' = made
      BY <2>1, WhichTag
    <2>3. /\ save[a].row \in TagRows /\ save[a].row.place.device \in DOMAIN devices
          /\ DOMAIN tags' = DOMAIN tags \cup {i}
          /\ tags' \in [DOMAIN tags' -> TagRows]
          /\ tags'[i] = save[a].row
          /\ \A j \in DOMAIN tags \ {i} : tags'[j] = tags[j]
          /\ devices' = devices
      BY <2>2, TagWritten
    <2>4. made' \in [device : 0 .. MaxDevices, tag : 0 .. MaxTags] /\ made'.device = made.device
      BY <2>2, StoreAssumption DEF TablesOK, TagIds
    <2>5. DOMAIN tags' \subseteq 1 .. made'.tag
      BY <2>2, <2>3, StoreAssumption DEF TablesOK, TagIds
    <2>6. \A j \in DOMAIN tags' : tags'[j].place.device \in DOMAIN devices'
      BY <2>3 DEF TablesOK
    <2> QED BY <2>3, <2>4, <2>5, <2>6 DEF TablesOK
  <1> QED
    BY <1>1, <1>2, <1>3, <1>4, <1>5, <1>6
    DEF Next, vars, Request, ImportStep, SaveStep, CreateDevice, SaveTag, ImportDevices, ImportTags,
        ImportDevice, NoTag, MatchTag, EndImport, Fail, Leave, Validate, CheckName, Refuse,
        UpdateNothing, Saved, WriteFails

(* Every step keeps the types of the actors.                               *)
LEMMA ActorsStep == TypeOK /\ [Next]_vars => ActorsOK'
  <1> SUFFICES ASSUME TypeOK, [Next]_vars PROVE ActorsOK'
    OBVIOUS
  <1> USE StoreAssumption DEF Actors
  <1>0. ActorsOK
    BY DEF TypeOK
  <1>1. CASE /\ UNCHANGED <<at, save, raced>> /\ outdated' \subseteq outdated \cup Saving
    BY <1>0, <1>1 DEF ActorsOK, Saving
  <1>2. CASE \E a \in Actors, s \in Saves :
               /\ at[a] \notin {"given", "validated", "checked"}
               /\ at' = [at EXCEPT ![a] = "given"] /\ save' = [save EXCEPT ![a] = s]
               /\ UNCHANGED <<outdated, raced>>
    BY <1>0, <1>2 DEF ActorsOK, Saving
  <1>3. CASE \E a \in Saving, l \in {"validated", "checked"} :
               /\ at' = [at EXCEPT ![a] = l]
               /\ save' = save /\ outdated' \subseteq outdated /\ raced' \subseteq raced
    BY <1>0, <1>3 DEF ActorsOK, Saving
  <1>4. CASE \E a \in Actors, l \in {"idle", "row", "file"} :
               /\ l = "idle" \/ a = Loop
               /\ at' = [at EXCEPT ![a] = l] /\ save' = [save EXCEPT ![a] = None]
               /\ outdated' = outdated \ {a}
               /\ raced' \subseteq (raced \ {a}) \cup {b \in Actors \ {a} : at[b] = "checked"}
    BY <1>0, <1>4 DEF ActorsOK, Saving
  <1>5. CASE \E l \in {"row", "file"} :
               /\ Loop \notin Saving
               /\ at' = [at EXCEPT ![Loop] = l] /\ UNCHANGED <<save, outdated, raced>>
    BY <1>0, <1>5 DEF ActorsOK, Saving
  <1>6. ASSUME NEW a \in Requests, SaveTag(a) PROVE ActorsOK'
    <2>1. PICK id \in DOMAIN tags \cup {None}, p \in Places, v \in Drivers :
            save' = [save EXCEPT ![a] = [id |-> id, row |-> [place |-> p, fits |-> v, fields |-> 0]]]
      BY <1>6 DEF SaveTag
    <2>2. DOMAIN tags \subseteq TagIds
      BY DEF TypeOK, TablesOK, TagIds
    <2>3. [id |-> id, row |-> [place |-> p, fits |-> v, fields |-> 0]] \in Saves
      BY <2>2 DEF Saves, TagRows
    <2>4. /\ at[a] \notin {"given", "validated", "checked"}
          /\ at' = [at EXCEPT ![a] = "given"]
          /\ UNCHANGED <<outdated, raced>>
      BY <1>6 DEF SaveTag, history
    <2> QED BY <1>2, <2>1, <2>3, <2>4
  <1>7. ASSUME MatchTag PROVE ActorsOK'
    <2>1. PICK id \in TagIds \cup {None}, p \in Places, v \in Drivers :
            save' = [save EXCEPT ![Loop] =
                       [id |-> id, row |-> [place |-> p, fits |-> v, fields |-> rowNo + 1]]]
      <3>1. PICK p \in Places, v \in Drivers :
              \E id \in IF Existing(p) = {} THEN {None} ELSE Existing(p) :
                save' = [save EXCEPT ![Loop] =
                           [id |-> id, row |-> [place |-> p, fits |-> v, fields |-> rowNo + 1]]]
        BY <1>7 DEF MatchTag
      <3>2. Existing(p) \subseteq TagIds
        BY DEF TypeOK, TablesOK, TagIds, Existing
      <3> QED BY <3>1, <3>2
    <2>2. rowNo + 1 \in 0 .. MaxRows
      BY <1>7 DEF TypeOK, ImportOK, MatchTag
    <2>3. [id |-> id, row |-> [place |-> p, fits |-> v, fields |-> rowNo + 1]] \in Saves
      BY <2>2 DEF Saves, TagRows
    <2>4. /\ at[Loop] \notin {"given", "validated", "checked"}
          /\ at' = [at EXCEPT ![Loop] = "given"]
          /\ UNCHANGED <<outdated, raced>>
      BY <1>7 DEF MatchTag
    <2> QED BY <1>2, <2>1, <2>3, <2>4
  <1>8. ASSUME NEW a \in Actors, Validate(a) \/ CheckName(a) PROVE ActorsOK'
    <2>1. a \in Saving
      BY <1>8 DEF Validate, CheckName, Saving
    <2> QED BY <1>3, <1>8, <2>1 DEF Validate, CheckName
  <1>9. ASSUME NEW a \in Actors, Refuse(a) \/ WriteFails(a) \/ (a = Loop /\ EndImport) PROVE ActorsOK'
    BY <1>4, <1>9 DEF Refuse, WriteFails, EndImport, Fail, Leave
  <1>10. ASSUME NEW a \in Actors, UpdateNothing(a) PROVE ActorsOK'
    BY <1>4, <1>10 DEF UpdateNothing, Saved
  <1>11. ASSUME NEW a \in Actors, Insert(a) \/ Update(a) PROVE ActorsOK'
    <2>1. PICK i, left : WriteRow(a, i, left)
      BY <1>11 DEF Insert, Update
    <2> QED BY <1>4, <2>1 DEF WriteRow, Saved
  <1>12. ASSUME ImportDevices \/ ImportTags \/ ImportDevice \/ NoTag PROVE ActorsOK'
    BY <1>5, <1>12 DEF ImportDevices, ImportTags, ImportDevice, NoTag, Saving, history
  <1>13. ASSUME CreateDevice \/ UNCHANGED vars PROVE ActorsOK'
    BY <1>1, <1>13 DEF CreateDevice, vars, history
  <1>14. ASSUME NEW i, UpdateDevice(i) \/ DeleteDevice(i) \/ DeleteTag(i) PROVE ActorsOK'
    BY <1>1, <1>14 DEF UpdateDevice, DeleteDevice, DeleteTag
  <1> QED
    BY <1>6, <1>7, <1>8, <1>9, <1>10, <1>11, <1>12, <1>13, <1>14
    DEF Next, Request, ImportStep, SaveStep

(* Every step keeps the types of the import.                               *)
LEMMA ImportStepOK == TypeOK /\ [Next]_vars => ImportOK'
  <1> SUFFICES ASSUME TypeOK, [Next]_vars PROVE ImportOK'
    OBVIOUS
  <1> USE StoreAssumption DEF Actors
  <1>0. ImportOK /\ ActorsOK /\ TablesOK
    BY DEF TypeOK
  <1>1. CASE /\ UNCHANGED import /\ (at'[Loop] = at[Loop] \/ (Loop \in Saving /\ Loop \in Saving'))
             /\ disturbed' \in BOOLEAN /\ kept' \subseteq TagRows
    BY <1>0, <1>1 DEF ImportOK, ActorsOK, Saving, import
  <1>2. ASSUME NEW places, Touched(places) PROVE disturbed' \in BOOLEAN /\ kept' \subseteq TagRows
    BY <1>0, <1>2 DEF Touched, ImportOK, import
  <1>3. ASSUME NEW a \in Actors, Fail(a) PROVE ImportOK'
    <2>1. CASE a = Loop
      BY <1>0, <1>3, <2>1 DEF Fail, Leave, ImportOK, ActorsOK, Saving, import
    <2>2. CASE a # Loop
      BY <1>0, <1>1, <1>3, <2>2 DEF Fail, Leave, ImportOK, ActorsOK, import
    <2> QED BY <2>1, <2>2
  <1>4. ASSUME NEW a \in Actors, Saved(a), a \in Saving,
               disturbed' \in BOOLEAN, kept' \subseteq TagRows
        PROVE  ImportOK'
    <2>1. CASE a = Loop
      <3>1. rowNo < MaxRows
        BY <1>0, <1>4, <2>1 DEF ImportOK, import
      <3>2. /\ at'[Loop] = IF known = None THEN "row" ELSE "file"
            /\ rowNo' = rowNo + 1 /\ known' = known
            /\ into' = IF known = None THEN into ELSE None
        BY <1>0, <1>4, <2>1 DEF Saved, ActorsOK
      <3> QED BY <1>0, <1>4, <3>1, <3>2 DEF ImportOK, Saving, import
    <2>2. CASE a # Loop
      BY <1>0, <1>1, <1>4, <2>2 DEF Saved, ActorsOK, import
    <2> QED BY <2>1, <2>2
  <1>5. ASSUME CreateDevice \/ UNCHANGED vars PROVE ImportOK'
    BY <1>0, <1>1, <1>5 DEF CreateDevice, vars, history, ImportOK, import
  <1>6. ASSUME NEW i, UpdateDevice(i) PROVE ImportOK'
    BY <1>0, <1>1, <1>6 DEF UpdateDevice, ImportOK, import
  <1>7. ASSUME NEW i, DeleteDevice(i) \/ DeleteTag(i) PROVE ImportOK'
    BY <1>1, <1>2, <1>7 DEF DeleteDevice, DeleteTag
  <1>8. ASSUME NEW a \in Requests, SaveTag(a) PROVE ImportOK'
    BY <1>0, <1>1, <1>8 DEF SaveTag, ActorsOK, ImportOK, history, import
  <1>9. ASSUME NEW a \in Actors, Validate(a) \/ CheckName(a) PROVE ImportOK'
    BY <1>0, <1>1, <1>9 DEF Validate, CheckName, ActorsOK, ImportOK, Saving, import
  <1>10. ASSUME NEW a \in Actors, Refuse(a) \/ WriteFails(a) \/ (a = Loop /\ EndImport) PROVE ImportOK'
    BY <1>3, <1>10 DEF Refuse, WriteFails, EndImport
  <1>11. ASSUME NEW a \in Actors, UpdateNothing(a) PROVE ImportOK'
    BY <1>0, <1>4, <1>11 DEF UpdateNothing, Saving, ImportOK, import
  <1>12. ASSUME NEW a \in Actors, Insert(a) \/ Update(a) PROVE ImportOK'
    <2>1. PICK i, left : WriteRow(a, i, left)
      BY <1>12 DEF Insert, Update
    <2>2. a \in Saving
      BY <1>12 DEF Insert, Update, Saving
    <2>3. save[a].row \in TagRows
      BY <1>0, <2>2 DEF ActorsOK, Saves
    <2>4. disturbed' \in BOOLEAN /\ kept' \subseteq TagRows
      <3>1. CASE a = Loop
        BY <1>0, <2>1, <2>3, <3>1 DEF WriteRow, ImportOK, import
      <3>2. CASE a # Loop
        BY <1>2, <2>1, <3>2 DEF WriteRow
      <3> QED BY <3>1, <3>2
    <2> QED BY <1>4, <2>1, <2>2, <2>4 DEF WriteRow
  <1>13. ASSUME ImportDevices PROVE ImportOK'
    <2>1. \A i \in DOMAIN devices : Entry(i) \in [id : DeviceIds, driver : Drivers]
      BY <1>0 DEF TablesOK, Entry, DeviceRows, DeviceIds
    <2>2. known' \in Indexes
      BY <1>13, <2>1 DEF ImportDevices, Indexes
    <2>3. /\ at'[Loop] = "file" /\ UNCHANGED <<into, rowNo, disturbed, kept>>
      BY <1>0, <1>13 DEF ImportDevices, ActorsOK, history
    <2> QED BY <1>0, <2>2, <2>3 DEF ImportOK, Saving, import
  <1>14. ASSUME ImportTags PROVE ImportOK'
    <2>1. /\ at'[Loop] = "row" /\ UNCHANGED <<known, rowNo, disturbed, kept>>
          /\ into' \in DeviceIds
      BY <1>0, <1>14 DEF ImportTags, ActorsOK, TablesOK, DeviceIds, history
    <2>2. known = None
      BY <1>0, <1>14 DEF ImportTags, ImportOK, import
    <2> QED BY <1>0, <2>1, <2>2 DEF ImportOK, Saving, import
  <1>15. ASSUME ImportDevice PROVE ImportOK'
    <2>1. /\ at'[Loop] = "row" /\ rowNo < MaxRows /\ UNCHANGED <<rowNo, disturbed, kept>>
          /\ known \in Indexes
      BY <1>0, <1>15 DEF ImportDevice, ActorsOK, ImportOK, history, import
    <2>2. known' \in Indexes /\ into' \in DeviceIds
      <3>1. CASE \E d \in DeviceRows :
                   /\ InsertDevice(d)
                   /\ known' = [known EXCEPT ![d.name] = [id |-> made'.device, driver |-> d.driver]]
                   /\ into' = made'.device
        <4>1. PICK d \in DeviceRows :
                /\ InsertDevice(d)
                /\ known' = [known EXCEPT ![d.name] = [id |-> made'.device, driver |-> d.driver]]
                /\ into' = made'.device
          BY <3>1
        <4>2. made'.device \in DeviceIds
          BY <1>0, <4>1, DeviceInserted
        <4> QED BY <2>1, <4>1, <4>2 DEF Indexes, DeviceRows
      <3>2. CASE \E d \in DeviceRows :
                   known[d.name] # None /\ into' = known[d.name].id /\ UNCHANGED known
        BY <2>1, <3>2 DEF Indexes, DeviceRows
      <3> QED BY <1>15, <3>1, <3>2 DEF ImportDevice
    <2> QED BY <1>0, <2>1, <2>2 DEF ImportOK, Saving, import
  <1>16. ASSUME NoTag PROVE ImportOK'
    <2>1. /\ at'[Loop] = "file" /\ rowNo < MaxRows /\ rowNo' = rowNo + 1 /\ into' = None
          /\ known' = known /\ known \in Indexes /\ UNCHANGED <<disturbed, kept>>
      BY <1>0, <1>16 DEF NoTag, ActorsOK, ImportOK, history, import
    <2> QED BY <1>0, <2>1 DEF ImportOK, Saving, import
  <1>17. ASSUME MatchTag PROVE ImportOK'
    BY <1>0, <1>17 DEF MatchTag, ActorsOK, ImportOK, Saving, import
  <1> QED
    BY <1>5, <1>6, <1>7, <1>8, <1>9, <1>10, <1>11, <1>12, <1>13, <1>14, <1>15, <1>16, <1>17
    DEF Next, Request, ImportStep, SaveStep

(* Only requests count.                                                    *)
LEMMA ServedStep == TypeOK /\ [Next]_vars => (served \in 0 .. MaxRequests)'
  BY StoreAssumption DEF TypeOK, Next, vars

(* Tables, actors and the import keep their types: a tag belongs to a      *)
(* device that exists, whatever is deleted while it is saved.              *)
THEOREM StoreTypeCorrect == Spec => []TypeOK
  <1>1. TypeOK /\ [Next]_vars => TypeOK'
    BY TablesStep, ActorsStep, ImportStepOK, ServedStep DEF TypeOK
  <1> QED BY <1>1, TypeInit, PTL DEF Spec

-----------------------------------------------------------------------------
(* What actors know                                                        *)

(* An actor in save_tag() has gone on with its row, or has just been given *)
(* one.                                                                    *)
LEMMA ActorsMove ==
  ASSUME TypeOK, [Next]_vars, NEW a \in Saving'
  PROVE  \/ /\ a \in Saving /\ save'[a] = save[a]
            /\ at'[a] = at[a] \/ Validate(a) \/ CheckName(a)
         \/ at'[a] = "given" /\ ((a \in Requests /\ SaveTag(a)) \/ (a = Loop /\ MatchTag))
  <1> USE DEF Actors
  <1>0. ActorsOK /\ a \in Actors /\ at'[a] \in {"given", "validated", "checked"}
    BY DEF TypeOK, Saving
  <1> DEFINE Goal ==
        \/ /\ a \in Saving /\ save'[a] = save[a]
           /\ at'[a] = at[a] \/ Validate(a) \/ CheckName(a)
        \/ at'[a] = "given" /\ ((a \in Requests /\ SaveTag(a)) \/ (a = Loop /\ MatchTag))
  <1>1. CASE at'[a] = at[a] /\ save'[a] = save[a]
    BY <1>0, <1>1 DEF Saving
  <1>2. ASSUME NEW b \in Actors, b # a, NEW l, NEW s,
               at' = [at EXCEPT ![b] = l], save' = [save EXCEPT ![b] = s] \/ save' = save
        PROVE  Goal
    BY <1>0, <1>1, <1>2 DEF ActorsOK
  <1>3. ASSUME NEW l \in {"idle", "file", "row"}, at' = [at EXCEPT ![a] = l] PROVE FALSE
    BY <1>0, <1>3 DEF ActorsOK
  <1>4. CASE UNCHANGED <<at, save>>
    BY <1>1, <1>4
  <1>5. ASSUME NEW b \in Requests, SaveTag(b) PROVE Goal
    <2>1. PICK s : save' = [save EXCEPT ![b] = s] /\ at' = [at EXCEPT ![b] = "given"]
      BY <1>5 DEF SaveTag
    <2>2. CASE b # a
      BY <1>2, <2>1, <2>2
    <2>3. CASE b = a
      BY <1>0, <1>5, <2>1, <2>3 DEF ActorsOK
    <2> QED BY <2>2, <2>3
  <1>6. ASSUME MatchTag PROVE Goal
    <2>1. PICK s : save' = [save EXCEPT ![Loop] = s] /\ at' = [at EXCEPT ![Loop] = "given"]
      BY <1>6 DEF MatchTag
    <2>2. CASE Loop # a
      BY <1>2, <2>1, <2>2
    <2>3. CASE Loop = a
      BY <1>0, <1>6, <2>1, <2>3 DEF ActorsOK
    <2> QED BY <2>2, <2>3
  <1>7. ASSUME NEW b \in Actors, Validate(b) \/ CheckName(b) PROVE Goal
    <2>1. PICK l : save' = save /\ at' = [at EXCEPT ![b] = l] /\ b \in Saving
      BY <1>7 DEF Validate, CheckName, Saving
    <2> QED BY <1>2, <1>7, <2>1
  <1>8. ASSUME NEW b \in Actors, Fail(b) PROVE Goal
    BY <1>2, <1>3, <1>8 DEF Fail, Leave
  <1>9. ASSUME NEW b \in Actors, Saved(b) PROVE Goal
    <2>1. PICK l \in {"idle", "row", "file"} : at' = [at EXCEPT ![b] = l]
      BY <1>9 DEF Saved
    <2>2. save' = [save EXCEPT ![b] = None]
      BY <1>9 DEF Saved
    <2> QED BY <1>2, <1>3, <2>1, <2>2
  <1>10. ASSUME ImportDevices \/ ImportTags \/ ImportDevice \/ NoTag PROVE Goal
    <2>1. PICK l \in {"row", "file"} : at' = [at EXCEPT ![Loop] = l] /\ save' = save
      BY <1>10 DEF ImportDevices, ImportTags, ImportDevice, NoTag
    <2> QED BY <1>2, <1>3, <2>1
  <1> QED
    BY <1>4, <1>5, <1>6, <1>7, <1>8, <1>9, <1>10
    DEF Next, vars, Request, ImportStep, SaveStep, CreateDevice, UpdateDevice, DeleteDevice, DeleteTag,
        EndImport, Refuse, WriteFails, UpdateNothing, Insert, Update, WriteRow

(* Ids grow, and an actor has been given one that exists or none.          *)
LEMMA SavedIdsStep == TypeOK /\ SavedIdsAreOld /\ [Next]_vars => SavedIdsAreOld'
  <1> SUFFICES ASSUME TypeOK, SavedIdsAreOld, [Next]_vars,
                      NEW a \in Saving'
               PROVE  (save[a].id \in 1 .. made.tag \cup {None})'
    BY DEF SavedIdsAreOld
  <1> USE StoreAssumption DEF Actors
  <1>0. TypeOK' /\ TablesOK /\ ActorsOK
    BY TablesStep, ActorsStep, ImportStepOK, ServedStep DEF TypeOK
  <1>1. made.tag \in Nat /\ made'.tag \in Nat /\ made.tag <= made'.tag
    <2>1. made.tag \in Nat /\ made'.tag \in Nat
      BY <1>0 DEF TypeOK, TablesOK
    <2>2. CASE \E d \in DeviceRows : InsertDevice(d)
      BY <1>0, <2>1, <2>2, DeviceInserted
    <2>3. CASE \E b \in Actors : Insert(b)
      BY <1>0, <2>1, <2>3 DEF Insert, TablesOK
    <2>4. CASE made' = made
      BY <2>1, <2>4
    <2> QED
      BY <2>2, <2>3, <2>4
      DEF Next, vars, Request, ImportStep, SaveStep, CreateDevice, SaveTag, ImportDevices, ImportTags,
          ImportDevice, NoTag, MatchTag, EndImport, Fail, Leave, Validate, CheckName, Refuse, Update,
          UpdateNothing, WriteFails, UpdateDevice, DeleteDevice, DeleteTag
  <1>2. CASE a \in Saving /\ save'[a] = save[a]
    BY <1>1, <1>2 DEF SavedIdsAreOld
  <1>3. CASE save'[a].id \in DOMAIN tags \cup {None}
    BY <1>0, <1>1, <1>3 DEF TablesOK
  <1>4. ASSUME NEW b \in Actors, SaveTag(b) \/ (b = Loop /\ MatchTag)
        PROVE  save'[b].id \in DOMAIN tags \cup {None}
    <2>1. CASE SaveTag(b)
      <3>1. PICK id, row : /\ id \in DOMAIN tags \cup {None}
                           /\ save' = [save EXCEPT ![b] = [id |-> id, row |-> row]]
        BY <2>1 DEF SaveTag
      <3> QED BY <1>0, <3>1 DEF ActorsOK
    <2>2. CASE b = Loop /\ MatchTag
      <3>1. PICK id, row : /\ id \in DOMAIN tags \cup {None}
                           /\ save' = [save EXCEPT ![b] = [id |-> id, row |-> row]]
        BY <2>2 DEF MatchTag, Existing
      <3> QED BY <1>0, <3>1 DEF ActorsOK
    <2> QED BY <1>4, <2>1, <2>2
  <1>5. a \in Actors
    BY DEF Saving
  <1> QED BY <1>2, <1>3, <1>4, <1>5, ActorsMove

(* What the history says of an actor stays until it moves.                 *)
LEMMA HistoryStays ==
  ASSUME TypeOK, [Next]_vars, NEW a \in Saving, at'[a] = at[a]
  PROVE  /\ a \in outdated => a \in outdated'
         /\ a \in raced => a \in raced'
  <1> USE DEF Actors
  <1>0. ActorsOK /\ a \in Actors /\ at[a] \in {"given", "validated", "checked"}
    BY DEF TypeOK, Saving
  <1> DEFINE Goal == (a \in outdated => a \in outdated') /\ (a \in raced => a \in raced')
  <1>1. CASE outdated \subseteq outdated' /\ raced \subseteq raced'
    BY <1>1
  <1>2. ASSUME NEW b \in Actors, NEW l, l # at[b], at' = [at EXCEPT ![b] = l],
               outdated \ {b} \subseteq outdated', raced \ {b} \subseteq raced'
        PROVE  Goal
    BY <1>0, <1>2 DEF ActorsOK
  <1>3. ASSUME NEW b \in Actors, Fail(b), at[b] # "idle" PROVE Goal
    BY <1>2, <1>3 DEF Fail, Leave
  <1>4. ASSUME NEW b \in Actors, Saved(b), at[b] = "checked",
               outdated' = outdated \ {b}, raced \ {b} \subseteq raced'
        PROVE  Goal
    BY <1>2, <1>4 DEF Saved
  <1>5. ASSUME NEW b \in Actors, SaveStep(b) PROVE Goal
    <2>1. CASE Validate(b)
      BY <1>2, <2>1 DEF Validate
    <2>2. CASE CheckName(b)
      BY <1>2, <2>2 DEF CheckName
    <2>3. CASE Refuse(b)
      BY <1>3, <2>3 DEF Refuse
    <2>4. CASE WriteFails(b)
      BY <1>3, <2>4 DEF WriteFails
    <2>5. CASE UpdateNothing(b)
      BY <1>4, <2>5 DEF UpdateNothing
    <2>6. CASE Insert(b) \/ Update(b)
      <3>1. PICK i, left : WriteRow(b, i, left)
        BY <2>6 DEF Insert, Update
      <3> QED BY <1>4, <2>6, <3>1 DEF WriteRow, Insert, Update
    <2> QED BY <1>5, <2>1, <2>2, <2>3, <2>4, <2>5, <2>6 DEF SaveStep
  <1>6. ASSUME Request PROVE Goal
    BY <1>1, <1>6
    DEF Request, CreateDevice, UpdateDevice, DeleteDevice, DeleteTag, SaveTag, ImportDevices,
        ImportTags, history
  <1>7. ASSUME ImportStep PROVE Goal
    BY <1>1, <1>3, <1>7 DEF ImportStep, ImportDevice, NoTag, MatchTag, EndImport, history
  <1> QED BY <1>1, <1>5, <1>6, <1>7 DEF Next, vars, history

(* A device that is there was there before, or has a new id; its driver    *)
(* changes in update_device.                                               *)
LEMMA DevicesMove ==
  ASSUME TypeOK, [Next]_vars, NEW d \in 1 .. made.device
  PROVE  /\ d \in 1 .. made'.device
         /\ d \in DOMAIN devices' =>
              /\ d \in DOMAIN devices
              /\ devices'[d].driver = devices[d].driver \/ UpdateDevice(d)
  <1> USE StoreAssumption DEF Actors
  <1>0. TablesOK /\ ActorsOK
    BY DEF TypeOK
  <1>1. CASE UNCHANGED <<devices, made>>
    BY <1>1
  <1>2. CASE \E e \in DeviceRows : InsertDevice(e)
    BY <1>0, <1>2, DeviceInserted DEF TablesOK
  <1>3. CASE \E i \in DOMAIN devices : UpdateDevice(i)
    <2>1. PICK i \in DOMAIN devices : UpdateDevice(i)
      BY <1>3
    <2>2. PICK e : devices' = [devices EXCEPT ![i] = e] /\ made' = made
      BY <2>1 DEF UpdateDevice
    <2>3. DOMAIN devices' = DOMAIN devices /\ (d # i /\ d \in DOMAIN devices => devices'[d] = devices[d])
      BY <1>0, <2>2 DEF TablesOK
    <2> QED BY <2>1, <2>2, <2>3
  <1>4. CASE \E i \in DOMAIN devices : DeleteDevice(i)
    BY <1>0, <1>4 DEF DeleteDevice, Without, TablesOK
  <1>5. CASE \E b \in Actors : Insert(b) \/ Update(b)
    <2>1. devices' = devices
      BY <1>5 DEF Insert, Update, WriteRow, Saved
    <2>2. made'.device = made.device
      BY <1>0, <1>5 DEF Insert, Update, TablesOK
    <2> QED BY <2>1, <2>2
  <1> QED
    BY <1>1, <1>2, <1>3, <1>4, <1>5
    DEF Next, vars, Request, ImportStep, SaveStep, CreateDevice, SaveTag, ImportDevices, ImportTags,
        ImportDevice, NoTag, MatchTag, EndImport, Fail, Leave, Validate, CheckName, Refuse,
        UpdateNothing, Saved, WriteFails, DeleteTag

(* A validated tag fits.                                                   *)
LEMMA ValidatedStep == TypeOK /\ ValidatedFits /\ [Next]_vars => ValidatedFits'
  <1> SUFFICES ASSUME TypeOK, ValidatedFits, [Next]_vars,
                      NEW a \in Actors, at'[a] \in {"validated", "checked"}
               PROVE  LET d == save[a].row.place.device IN
                      ( /\ d \in 1 .. made.device
                        /\ d \in DOMAIN devices /\ a \notin outdated
                           => devices[d].driver = save[a].row.fits )'
    BY DEF ValidatedFits
  <1>1. a \in Saving'
    BY DEF Saving
  <1>2. /\ a \in Saving /\ save'[a] = save[a]
        /\ at'[a] = at[a] \/ Validate(a) \/ CheckName(a)
    BY <1>1, ActorsMove
  <1> DEFINE d == save[a].row.place.device
  <1>3. CASE Validate(a)
    <2>1. d \in DOMAIN devices /\ devices[d].driver = save[a].row.fits /\ UNCHANGED <<devices, made, save>>
      BY <1>3 DEF Validate, IsValid
    <2>2. d \in 1 .. made.device
      BY <2>1 DEF TypeOK, TablesOK
    <2> QED BY <2>1, <2>2
  <1>4. CASE at'[a] = at[a] \/ CheckName(a)
    <2>1. at[a] \in {"validated", "checked"}
      BY <1>4 DEF CheckName
    <2>2. d \in 1 .. made.device /\ (d \in DOMAIN devices /\ a \notin outdated => devices[d].driver = save[a].row.fits)
      BY <2>1 DEF ValidatedFits
    <2>3. a \in outdated => a \in outdated'
      BY <1>2, <1>4, HistoryStays DEF CheckName
    <2>4. /\ d \in 1 .. made'.device
          /\ d \in DOMAIN devices' =>
               /\ d \in DOMAIN devices
               /\ devices'[d].driver = devices[d].driver \/ UpdateDevice(d)
      BY <2>2, DevicesMove
    <2>5. UpdateDevice(d) => a \in outdated' \/ devices'[d].driver = devices[d].driver
      BY <1>2, <2>2 DEF UpdateDevice, TypeOK, TablesOK
    <2> QED BY <1>2, <2>2, <2>3, <2>4, <2>5
  <1> QED BY <1>2, <1>3, <1>4

(* A tag is left alone or taken away, or it is the one that is written.    *)
LEMMA TagsMove ==
  ASSUME TypeOK, [Next]_vars
  PROVE  \/ /\ DOMAIN tags' \subseteq DOMAIN tags
            /\ \A i \in DOMAIN tags' : tags'[i] = tags[i]
         \/ \E a \in Actors : Insert(a) \/ Update(a)
  <1> USE DEF Actors
  <1>1. CASE \E i \in DOMAIN devices : DeleteDevice(i)
    BY <1>1 DEF DeleteDevice, Without
  <1>2. CASE \E i \in DOMAIN tags : DeleteTag(i)
    BY <1>2 DEF DeleteTag, Without
  <1>3. CASE tags' = tags
    BY <1>3
  <1> QED
    BY <1>1, <1>2, <1>3
    DEF Next, vars, Request, ImportStep, SaveStep, CreateDevice, UpdateDevice, SaveTag, ImportDevices,
        ImportTags, ImportDevice, NoTag, MatchTag, EndImport, Fail, Leave, Validate, CheckName, Refuse,
        UpdateNothing, WriteFails

(* What a write changes, and that the written tag is new or that of the    *)
(* actor's id.                                                             *)
LEMMA WriteStep ==
  ASSUME TypeOK, NEW a \in Actors, Insert(a) \/ Update(a)
  PROVE  \E i \in TagIds : \E left :
           /\ WriteRow(a, i, left) /\ at[a] = "checked" /\ save'[a] = None
           /\ \/ save[a].id = None /\ i \notin DOMAIN tags /\ left = {} /\ i = made.tag + 1
              \/ i = save[a].id /\ i \in DOMAIN tags /\ left = {tags[i].place}
           /\ save[a].row \in TagRows /\ DOMAIN tags' = DOMAIN tags \cup {i}
           /\ tags'[i] = save[a].row
           /\ \A j \in DOMAIN tags \ {i} : tags'[j] = tags[j]
           /\ devices' = devices
  <1>0. TablesOK /\ ActorsOK
    BY DEF TypeOK
  <1>1. PICK i \in TagIds : \E left :
          /\ WriteRow(a, i, left) /\ at[a] = "checked"
          /\ \/ /\ save[a].id = None /\ i \notin DOMAIN tags /\ left = {}
                /\ i = made.tag + 1 /\ made' = [made EXCEPT !.tag = i]
             \/ i = save[a].id /\ i \in DOMAIN tags /\ left = {tags[i].place} /\ made' = made
    BY <1>0, WhichTag
  <1>2. PICK left :
          /\ WriteRow(a, i, left) /\ at[a] = "checked"
          /\ \/ /\ save[a].id = None /\ i \notin DOMAIN tags /\ left = {}
                /\ i = made.tag + 1 /\ made' = [made EXCEPT !.tag = i]
             \/ i = save[a].id /\ i \in DOMAIN tags /\ left = {tags[i].place} /\ made' = made
    BY <1>1
  <1>3. /\ save[a].row \in TagRows /\ save[a].row.place.device \in DOMAIN devices
        /\ DOMAIN tags' = DOMAIN tags \cup {i}
        /\ tags' \in [DOMAIN tags' -> TagRows]
        /\ tags'[i] = save[a].row
        /\ \A j \in DOMAIN tags \ {i} : tags'[j] = tags[j]
        /\ devices' = devices
    BY <1>0, <1>2, TagWritten
  <1>4. save'[a] = None
    BY <1>0, <1>2 DEF WriteRow, Saved, ActorsOK
  <1> QED BY <1>2, <1>3, <1>4

(* A checked place is free.                                                *)
LEMMA CheckedStep == TypeOK /\ CheckedIsFree /\ [Next]_vars => CheckedIsFree'
  <1> SUFFICES ASSUME TypeOK, CheckedIsFree, [Next]_vars,
                      NEW a \in Actors, a \notin raced', at'[a] = "checked",
                      NEW i \in DOMAIN tags', i # save'[a].id
               PROVE  tags'[i].place # save'[a].row.place
    BY DEF CheckedIsFree
  <1>1. a \in Saving'
    BY DEF Saving
  <1>2. /\ a \in Saving /\ save'[a] = save[a]
        /\ at'[a] = at[a] \/ Validate(a) \/ CheckName(a)
    BY <1>1, ActorsMove
  <1>3. CASE CheckName(a)
    BY <1>2, <1>3 DEF CheckName, IsUnique
  <1>4. CASE at'[a] = at[a]
    <2>1. at[a] = "checked" /\ a \notin raced
      BY <1>2, <1>4, HistoryStays
    <2>2. \A j \in DOMAIN tags \ {save[a].id} : tags[j].place # save[a].row.place
      BY <2>1 DEF CheckedIsFree
    <2>3. CASE DOMAIN tags' \subseteq DOMAIN tags /\ \A j \in DOMAIN tags' : tags'[j] = tags[j]
      BY <1>2, <2>2, <2>3
    <2>4. ASSUME NEW b \in Actors, Insert(b) \/ Update(b) PROVE tags'[i].place # save'[a].row.place
      <3>1. PICK j \in TagIds : \E left :
              /\ WriteRow(b, j, left) /\ at[b] = "checked" /\ save'[b] = None
              /\ \/ save[b].id = None /\ j \notin DOMAIN tags /\ left = {} /\ j = made.tag + 1
                 \/ j = save[b].id /\ j \in DOMAIN tags /\ left = {tags[j].place}
              /\ save[b].row \in TagRows /\ DOMAIN tags' = DOMAIN tags \cup {j}
              /\ tags'[j] = save[b].row
              /\ \A k \in DOMAIN tags \ {j} : tags'[k] = tags[k]
              /\ devices' = devices
        BY <2>4, WriteStep
      <3>2. save[a] # None
        BY <1>2 DEF TypeOK, ActorsOK
      <3>3. a # b
        BY <1>2, <3>1, <3>2
      <3>4. save[a].id # j => save[a].row.place # save[b].row.place
        BY <2>1, <3>1, <3>3 DEF WriteRow
      <3> QED BY <1>2, <2>2, <3>1, <3>4
    <2> QED BY <2>3, <2>4, TagsMove
  <1>5. CASE Validate(a)
    BY <1>5 DEF Validate, TypeOK, ActorsOK
  <1> QED BY <1>2, <1>3, <1>4, <1>5

(* Two tags get one name only from an actor that has lost a race.          *)
LEMMA ClashStep ==
  ASSUME TypeOK, CheckedIsFree, [Next]_vars
  PROVE  \A p \in Clashes' \ Clashes :
           \E a \in raced : at[a] = "checked" /\ save[a].row.place = p /\ save'[a] = None
  <1> SUFFICES ASSUME NEW p \in Clashes', p \notin Clashes
               PROVE  \E a \in raced : at[a] = "checked" /\ save[a].row.place = p /\ save'[a] = None
    OBVIOUS
  <1>1. PICK j \in DOMAIN tags', k \in DOMAIN tags' :
          j # k /\ tags'[j].place = p /\ tags'[k].place = p
    BY DEF Clashes
  <1>2. ~\E m, n \in DOMAIN tags : m # n /\ tags[m].place = p /\ tags[n].place = p
    BY DEF Clashes
  <1>3. PICK a \in Actors : Insert(a) \/ Update(a)
    BY <1>1, <1>2, TagsMove
  <1>4. PICK i \in TagIds : \E left :
          /\ WriteRow(a, i, left) /\ at[a] = "checked" /\ save'[a] = None
          /\ \/ save[a].id = None /\ i \notin DOMAIN tags /\ left = {} /\ i = made.tag + 1
             \/ i = save[a].id /\ i \in DOMAIN tags /\ left = {tags[i].place}
          /\ save[a].row \in TagRows /\ DOMAIN tags' = DOMAIN tags \cup {i}
          /\ tags'[i] = save[a].row
          /\ \A n \in DOMAIN tags \ {i} : tags'[n] = tags[n]
          /\ devices' = devices
    BY <1>3, WriteStep
  <1>5. save[a].row.place = p /\ \E n \in DOMAIN tags \ {i} : tags[n].place = p
    BY <1>1, <1>2, <1>4
  <1>6. \E n \in DOMAIN tags \ {save[a].id} : tags[n].place = p
    <2>1. None \notin DOMAIN tags
      BY StoreAssumption DEF TypeOK, TablesOK
    <2> QED BY <1>4, <1>5, <2>1
  <1>7. a \in raced
    BY <1>4, <1>5, <1>6 DEF CheckedIsFree
  <1> QED BY <1>4, <1>5, <1>7

(* A tag stops fitting its driver only by a change of the driver.          *)
LEMMA MisfitStep ==
  ASSUME TypeOK, ValidatedFits, [Next]_vars
  PROVE  \A i \in Misfits' \ Misfits :
           \/ devices'[tags'[i].place.device].driver # devices[tags'[i].place.device].driver
           \/ \E a \in outdated : at[a] = "checked" /\ save[a].row = tags'[i] /\ save'[a] = None
  <1> SUFFICES ASSUME NEW i \in Misfits', i \notin Misfits,
                      devices'[tags'[i].place.device].driver = devices[tags'[i].place.device].driver
               PROVE  \E a \in outdated : at[a] = "checked" /\ save[a].row = tags'[i] /\ save'[a] = None
    OBVIOUS
  <1>1. i \in DOMAIN tags' /\ tags'[i].fits # devices[tags'[i].place.device].driver
    BY DEF Misfits
  <1>2. ~(i \in DOMAIN tags /\ tags'[i] = tags[i])
    BY <1>1 DEF Misfits
  <1>3. PICK a \in Actors : Insert(a) \/ Update(a)
    BY <1>1, <1>2, TagsMove
  <1>4. PICK j \in TagIds : \E left :
          /\ WriteRow(a, j, left) /\ at[a] = "checked" /\ save'[a] = None
          /\ \/ save[a].id = None /\ j \notin DOMAIN tags /\ left = {} /\ j = made.tag + 1
             \/ j = save[a].id /\ j \in DOMAIN tags /\ left = {tags[j].place}
          /\ save[a].row \in TagRows /\ DOMAIN tags' = DOMAIN tags \cup {j}
          /\ tags'[j] = save[a].row
          /\ \A n \in DOMAIN tags \ {j} : tags'[n] = tags[n]
          /\ devices' = devices
    BY <1>3, WriteStep
  <1>5. i = j
    BY <1>1, <1>2, <1>4
  <1>6. save[a].row.place.device \in DOMAIN devices
    BY <1>4 DEF WriteRow
  <1>7. a \in outdated
    BY <1>1, <1>4, <1>5, <1>6 DEF ValidatedFits
  <1> QED BY <1>4, <1>5, <1>7

-----------------------------------------------------------------------------
(* What an import has saved                                                *)

(* Only a write of the import adds to what it has saved, and a tag that is *)
(* taken away takes what was saved at its place with it.                   *)
LEMMA KeptMoves ==
  ASSUME TypeOK, [Next]_vars
  PROVE  \/ /\ kept' \subseteq kept
            /\ \A i \in DOMAIN tags :
                 \/ i \in DOMAIN tags' /\ tags'[i] = tags[i]
                 \/ \A r \in kept' : r.place # tags[i].place
         \/ \E a \in Actors : Insert(a) \/ Update(a)
  <1> USE DEF Actors
  <1>0. TablesOK
    BY DEF TypeOK
  <1>1. CASE \E d \in DOMAIN devices : DeleteDevice(d)
    <2>1. PICK d \in DOMAIN devices : DeleteDevice(d)
      BY <1>1
    <2>2. /\ kept' = {r \in kept : r.place \notin {p \in Places : p.device = d}}
          /\ tags' = [i \in DOMAIN tags \ TagsOf(d) |-> tags[i]]
      BY <2>1 DEF DeleteDevice, Touched, Without
    <2>3. \A i \in DOMAIN tags : tags[i].place \in Places
      BY <1>0 DEF TablesOK, TagRows
    <2> QED BY <2>2, <2>3 DEF TagsOf
  <1>2. CASE \E i \in DOMAIN tags : DeleteTag(i)
    BY <1>2 DEF DeleteTag, Touched, Without
  <1>3. CASE tags' = tags /\ kept' \subseteq kept
    BY <1>3
  <1> QED
    BY <1>1, <1>2, <1>3
    DEF Next, vars, history, Request, ImportStep, SaveStep, CreateDevice, UpdateDevice, SaveTag,
        ImportDevices, ImportTags, ImportDevice, NoTag, MatchTag, EndImport, Fail, Leave, Validate, CheckName,
        Refuse, UpdateNothing, WriteFails

(* The import goes on to write over a tag at its place or where nothing of *)
(* it is: a request that moves the tag clears the place it moves it to.    *)
LEMMA MatchStep == TypeOK /\ SavedIdsAreOld /\ MatchIsSafe /\ [Next]_vars => MatchIsSafe'
  <1> SUFFICES ASSUME TypeOK, SavedIdsAreOld, MatchIsSafe, [Next]_vars,
                      Loop \in Saving', save'[Loop].id \in DOMAIN tags'
               PROVE  \/ tags'[save'[Loop].id].place = save'[Loop].row.place
                      \/ \A r \in kept' : r.place # tags'[save'[Loop].id].place
    BY DEF MatchIsSafe
  <1> USE StoreAssumption DEF Actors
  <1> DEFINE i == save'[Loop].id
  <1>0. TablesOK /\ ActorsOK
    BY DEF TypeOK
  <1>1. CASE MatchTag
    <2>1. PICK p, id, row :
            /\ p \in Places /\ id \in DOMAIN tags \cup {None}
            /\ save' = [save EXCEPT ![Loop] = [id |-> id, row |-> row]] /\ row.place = p
            /\ id # None => tags[id].place = p
      <3>1. PICK p \in Places, v \in Drivers : \E id \in IF Existing(p) = {} THEN {None} ELSE Existing(p) :
              save' = [save EXCEPT ![Loop] =
                         [id |-> id, row |-> [place |-> p, fits |-> v, fields |-> rowNo + 1]]]
        BY <1>1 DEF MatchTag
      <3>2. PICK id \in IF Existing(p) = {} THEN {None} ELSE Existing(p) :
              save' = [save EXCEPT ![Loop] =
                         [id |-> id, row |-> [place |-> p, fits |-> v, fields |-> rowNo + 1]]]
        BY <3>1
      <3>3. id \in DOMAIN tags \cup {None} /\ (id # None => tags[id].place = p)
        BY <3>2 DEF Existing
      <3> DEFINE row == [place |-> p, fits |-> v, fields |-> rowNo + 1]
      <3>4. row.place = p /\ save' = [save EXCEPT ![Loop] = [id |-> id, row |-> row]]
        BY <3>2
      <3> HIDE DEF row
      <3> QED BY <3>3, <3>4
    <2>2. save'[Loop] = [id |-> id, row |-> row]
      BY <1>0, <2>1 DEF ActorsOK
    <2>3. tags' = tags /\ None \notin DOMAIN tags
      BY <1>0, <1>1 DEF MatchTag, TablesOK
    <2> QED BY <2>1, <2>2, <2>3
  <1>2. CASE Loop \in Saving /\ save'[Loop] = save[Loop]
    <2>1. save'[Loop] # None /\ i \in 1 .. made.tag
      <3>1. None \notin DOMAIN tags' /\ save[Loop] # None
        BY <1>0, <1>2, TablesStep DEF TypeOK, TablesOK, ActorsOK
      <3> QED BY <1>2, <3>1 DEF SavedIdsAreOld
    <2>2. CASE ~\E b \in Actors : Insert(b) \/ Update(b)
      <3>1. i \in DOMAIN tags /\ tags'[i] = tags[i]
        BY <2>2, TagsMove
      <3>2. kept' \subseteq kept
        BY <2>2, KeptMoves
      <3> QED BY <1>2, <3>1, <3>2 DEF MatchIsSafe
    <2>3. ASSUME NEW b \in Actors, Insert(b) \/ Update(b)
          PROVE  \/ tags'[i].place = save'[Loop].row.place
                 \/ \A r \in kept' : r.place # tags'[i].place
      <3>1. PICK j \in TagIds : \E left :
              /\ WriteRow(b, j, left) /\ at[b] = "checked" /\ save'[b] = None
              /\ \/ save[b].id = None /\ j \notin DOMAIN tags /\ left = {} /\ j = made.tag + 1
                 \/ j = save[b].id /\ j \in DOMAIN tags /\ left = {tags[j].place}
              /\ save[b].row \in TagRows /\ DOMAIN tags' = DOMAIN tags \cup {j}
              /\ tags'[j] = save[b].row
              /\ \A k \in DOMAIN tags \ {j} : tags'[k] = tags[k]
              /\ devices' = devices
        BY <2>3, WriteStep
      <3>2. b # Loop
        BY <2>1, <3>1
      <3>3. \A r \in kept' : r \in kept /\ r.place # save[b].row.place
        BY <3>1, <3>2 DEF WriteRow, Touched
      <3>4. CASE j = i
        BY <3>1, <3>3, <3>4
      <3>5. CASE j # i
        <4>1. i \in DOMAIN tags /\ tags'[i] = tags[i]
          BY <3>1, <3>5
        <4> QED BY <1>2, <3>3, <4>1 DEF MatchIsSafe
      <3> QED BY <3>4, <3>5
    <2> QED BY <2>2, <2>3
  <1> QED BY <1>1, <1>2, ActorsMove

(* What is saved stays.                                                    *)
LEMMA KeptStep == TypeOK /\ MatchIsSafe /\ ImportedRowsStand /\ [Next]_vars => ImportedRowsStand'
  <1> SUFFICES ASSUME TypeOK, MatchIsSafe, ImportedRowsStand, [Next]_vars,
                      NEW r \in kept'
               PROVE  \E i \in DOMAIN tags' : tags'[i] = r
    BY DEF ImportedRowsStand
  <1> USE StoreAssumption DEF Actors
  <1>1. CASE ~\E a \in Actors : Insert(a) \/ Update(a)
    BY <1>1, KeptMoves DEF ImportedRowsStand
  <1>2. ASSUME NEW a \in Actors, Insert(a) \/ Update(a)
        PROVE  \E i \in DOMAIN tags' : tags'[i] = r
    <2>1. PICK j \in TagIds : \E left :
            /\ WriteRow(a, j, left) /\ at[a] = "checked" /\ save'[a] = None
            /\ \/ save[a].id = None /\ j \notin DOMAIN tags /\ left = {} /\ j = made.tag + 1
               \/ j = save[a].id /\ j \in DOMAIN tags /\ left = {tags[j].place}
            /\ save[a].row \in TagRows /\ DOMAIN tags' = DOMAIN tags \cup {j}
            /\ tags'[j] = save[a].row
            /\ \A k \in DOMAIN tags \ {j} : tags'[k] = tags[k]
            /\ devices' = devices
      BY <1>2, WriteStep
    <2>2. CASE r = save[a].row
      BY <2>1, <2>2
    <2>3. CASE r \in kept /\ \A i \in DOMAIN tags : tags[i] = r => i # j
      <3>1. PICK i \in DOMAIN tags : tags[i] = r
        BY <2>3 DEF ImportedRowsStand
      <3> QED BY <2>1, <2>3, <3>1
    <2>4. CASE a # Loop
      <3>1. r \in kept /\ (j \in DOMAIN tags => r.place # tags[j].place)
        <4>1. None \notin DOMAIN tags
          BY DEF TypeOK, TablesOK
        <4> QED BY <2>1, <2>4, <4>1 DEF WriteRow, Touched
      <3> QED BY <2>3, <3>1
    <2>5. CASE a = Loop /\ r # save[a].row
      <3>1. r \in kept /\ r.place # save[Loop].row.place
        BY <2>1, <2>5 DEF WriteRow
      <3>2. Loop \in Saving
        BY <2>1, <2>5 DEF Saving
      <3>3. j \in DOMAIN tags => r.place # tags[j].place
        BY <2>1, <2>5, <3>1, <3>2 DEF MatchIsSafe
      <3> QED BY <2>3, <3>1, <3>3
    <2> QED BY <2>2, <2>4, <2>5
  <1> QED BY <1>1, <1>2

-----------------------------------------------------------------------------
(* All of it                                                               *)

(* Nobody knows anything at first, and each step keeps what was known.     *)
LEMMA StoreInvariant == Spec => []Inv
  <1>1. Init => Inv
    <2> SUFFICES ASSUME Init PROVE Inv
      OBVIOUS
    <2>1. TypeOK
      BY TypeInit
    <2>2. kept = {} /\ \A a \in Actors : at[a] = "idle" /\ a \notin Saving
      BY DEF Init, Saving
    <2>3. Loop \notin Saving
      BY <2>2 DEF Actors
    <2> QED
      BY <2>1, <2>2, <2>3
      DEF Inv, SavedIdsAreOld, ValidatedFits, CheckedIsFree, MatchIsSafe, ImportedRowsStand, Saving
  <1>2. Inv /\ [Next]_vars => Inv'
    <2> SUFFICES ASSUME Inv, [Next]_vars PROVE Inv'
      OBVIOUS
    <2>1. TypeOK'
      BY TablesStep, ActorsStep, ImportStepOK, ServedStep DEF Inv, TypeOK
    <2>2. SavedIdsAreOld' /\ ValidatedFits' /\ CheckedIsFree'
      BY SavedIdsStep, ValidatedStep, CheckedStep DEF Inv
    <2>3. MatchIsSafe' /\ ImportedRowsStand'
      BY MatchStep, KeptStep DEF Inv
    <2> QED BY <2>1, <2>2, <2>3 DEF Inv
  <1> QED BY <1>1, <1>2, PTL DEF Spec

(* Two tags get one place of a device only by an actor that had looked for *)
(* the name before the other tag got it.                                   *)
THEOREM ClashesNeedRaces == Spec => NamesClashOnlyInRaces
  <1>1. Inv /\ [Next]_vars =>
          [\A p \in Clashes' \ Clashes :
             \E a \in raced : at[a] = "checked" /\ save[a].row.place = p /\ save'[a] = None]_vars
    BY ClashStep DEF Inv
  <1> QED BY <1>1, StoreInvariant, PTL DEF Spec, NamesClashOnlyInRaces

(* A tag comes not to fit the driver of its device only by a change of the *)
(* driver, at that step or while the tag was being saved.                  *)
THEOREM MisfitsNeedDriverChanges == Spec => TagsFitTheirDriver
  <1>1. Inv /\ [Next]_vars =>
          [\A i \in Misfits' \ Misfits :
             \/ devices'[tags'[i].place.device].driver # devices[tags'[i].place.device].driver
             \/ \E a \in outdated : at[a] = "checked" /\ save[a].row = tags'[i] /\ save'[a] = None]_vars
    BY MisfitStep DEF Inv
  <1> QED BY <1>1, StoreInvariant, PTL DEF Spec, TagsFitTheirDriver

(* The rows an import has saved stay in the store, whatever its other rows *)
(* do, the one that fails included, until a request changes them or the    *)
(* same place is imported again.                                           *)
THEOREM ImportsStand == Spec => []ImportedRowsStand
  <1>1. Inv => ImportedRowsStand
    BY DEF Inv
  <1> QED BY <1>1, StoreInvariant, PTL
==============================================================================

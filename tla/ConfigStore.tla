----------------------------- MODULE ConfigStore -----------------------------
(***************************************************************************)
(* The devices and tags of store.py as the requests of web/api.py change   *)
(* them through services/config_service.py.                                *)
(*                                                                         *)
(* Each statement is a transaction of its own: save_tag() looks up the     *)
(* driver and validates the tag in a first one, looks for its name in a    *)
(* second and writes it in a third.  Requests run on threads; a CSV import *)
(* runs on the event loop, so that there is one at a time, and saves its   *)
(* rows one by one next to the requests.                                   *)
(*                                                                         *)
(* A tag fits one driver, that of its function; its other fields are a     *)
(* number, that of its row in the file, or 0 from a form.  Ids are never   *)
(* used again (AUTOINCREMENT).                                             *)
(***************************************************************************)
EXTENDS Naturals

CONSTANTS Names,        \* (device_group, name) of devices
          Groups,       \* tag groups
          TagNames,     \* names of tags
          Drivers,      \* driver types
          Requests,     \* threads that serve requests
          Loop,         \* the event loop
          None,
          MaxDevices,   \* bound: devices ever made
          MaxTags,      \* bound: tags ever made
          MaxRows,      \* bound: rows of a file
          MaxRequests   \* bound: requests in a behaviour, imports included

Actors == Requests \cup {Loop}
DeviceIds == 1 .. MaxDevices
TagIds == 1 .. MaxTags
Places == [device : DeviceIds, group : Groups, name : TagNames]
DeviceRows == [name : Names, driver : Drivers]
TagRows == [place : Places, fits : Drivers, fields : 0 .. MaxRows]
Indexes == [Names -> [id : DeviceIds, driver : Drivers] \cup {None}]
Saves == [id : TagIds \cup {None}, row : TagRows]

ASSUME StoreAssumption ==
  /\ Loop \notin Requests
  /\ {MaxDevices, MaxTags, MaxRows, MaxRequests} \subseteq Nat
  /\ None \notin Nat /\ None \notin Saves

VARIABLES
  devices,     \* the devices table, a row per id
  tags,        \* the tags table
  made,        \* the last ids of both
  at,          \* where an actor is: "idle", between two rows of a file ("file", "row"),
               \* or in save_tag(): "given", "validated", "checked"
  save,        \* the id and the row it saves
  known,       \* devices_by_key of an import of devices, None for one of tags
  into,        \* the device whose tags are imported
  rowNo,       \* rows done
  served,      \* history: requests so far
  outdated,    \* history: actors whose tag was validated for another driver
  raced,       \* history: actors whose place was taken after they had looked
  disturbed,   \* history: a request has changed the place the import is saving to
  kept         \* history: what imports have saved and nothing has changed since

import == <<known, into, rowNo>>
history == <<outdated, raced, disturbed, kept>>
vars == <<devices, tags, made, at, save, import, served, history>>

NoRows == [i \in {} |-> None]

Init ==
  /\ devices = NoRows /\ tags = NoRows /\ made = [device |-> 0, tag |-> 0]
  /\ at = [a \in Actors |-> "idle"] /\ save = [a \in Actors |-> None]
  /\ known = None /\ into = None /\ rowNo = 0 /\ served = 0
  /\ outdated = {} /\ raced = {} /\ disturbed = FALSE /\ kept = {}

-----------------------------------------------------------------------------
(* Tables                                                                  *)

With(table, id, row) == [i \in DOMAIN table \cup {id} |-> IF i = id THEN row ELSE table[i]]

Without(table, ids) == [i \in DOMAIN table \ ids |-> table[i]]

TagsOf(d) == {i \in DOMAIN tags : tags[i].place.device = d}

Saving == {a \in Actors : at[a] \in {"given", "validated", "checked"}}

(* Requests change the rows of these places.                               *)
Touched(places) ==
  /\ kept' = {r \in kept : r.place \notin places}
  /\ disturbed' = (disturbed \/ (Loop \in Saving /\ save[Loop].row.place \in places))

-----------------------------------------------------------------------------
(* create_device, update_device and delete_device.  What they read before  *)
(* and after the statement only decides about the answer.                  *)

InsertDevice(d) ==
  /\ made.device < MaxDevices /\ made' = [made EXCEPT !.device = @ + 1]
  /\ devices' = With(devices, made'.device, d)

CreateDevice ==
  /\ \E d \in DeviceRows : InsertDevice(d)
  /\ UNCHANGED <<tags, at, save, import, history>>

(* The tags are not validated again for another driver.                    *)
UpdateDevice(i) ==
  \E d \in DeviceRows \ {devices[i]} :
    /\ devices' = [devices EXCEPT ![i] = d]
    /\ outdated' = IF d.driver = devices[i].driver THEN outdated
                   ELSE outdated \cup {a \in Saving : save[a].row.place.device = i}
    /\ UNCHANGED <<tags, made, at, save, import, raced, disturbed, kept>>

(* ON DELETE CASCADE, with PRAGMA foreign_keys on each connection.         *)
(* Mutant: without the pragma.                                             *)
DeleteDeviceOnly(i) ==
  /\ devices' = Without(devices, {i})
  /\ UNCHANGED <<tags, made, at, save, import, history>>

DeleteDevice(i) ==
  /\ devices' = Without(devices, {i})
  /\ tags' = Without(tags, TagsOf(i))
  /\ Touched({p \in Places : p.device = i})
  /\ UNCHANGED <<made, at, save, import, outdated, raced>>

DeleteTag(i) ==
  /\ tags' = Without(tags, {i})
  /\ Touched({tags[i].place})
  /\ UNCHANGED <<devices, made, at, save, import, outdated, raced>>

-----------------------------------------------------------------------------
(* create_tag and update_tag, up to save_tag(); an update may move the tag *)
(* to any device.                                                          *)
SaveTag(a) ==
  /\ at[a] = "idle" /\ at' = [at EXCEPT ![a] = "given"]
  /\ \E id \in DOMAIN tags \cup {None}, p \in Places, v \in Drivers :
       /\ id # None \/ p.device \in DOMAIN devices
       /\ save' = [save EXCEPT ![a] = [id |-> id, row |-> [place |-> p, fits |-> v, fields |-> 0]]]
  /\ UNCHANGED <<devices, tags, made, import, history>>

(* save_tag() of actor a and its three transactions.  An error ends the    *)
(* request, or the import with the rows before it in the store.            *)
Leave(a) ==
  /\ at' = [at EXCEPT ![a] = "idle"] /\ save' = [save EXCEPT ![a] = None]
  /\ IF a = Loop THEN known' = None /\ into' = None /\ rowNo' = 0 ELSE UNCHANGED import
  /\ outdated' = outdated \ {a} /\ raced' = raced \ {a}
  /\ disturbed' = (disturbed /\ a # Loop)
  /\ UNCHANGED <<devices, made, kept>>

(* Mutant: a row that fails takes the rows before it back.                 *)
FailAltogether(a) ==
  /\ Leave(a)
  /\ tags' = IF a = Loop /\ a \in Saving THEN Without(tags, {i \in DOMAIN tags : tags[i] \in kept}) ELSE tags

Fail(a) == Leave(a) /\ UNCHANGED tags

(* validate_tag for the driver of the device.  Mutant: for that of the     *)
(* device the tag was in.                                                  *)
IsValidBefore(s) ==
  LET d == IF s.id \in DOMAIN tags THEN tags[s.id].place.device ELSE s.row.place.device
  IN  d \in DOMAIN devices /\ devices[d].driver = s.row.fits

IsValid(s) ==
  s.row.place.device \in DOMAIN devices /\ devices[s.row.place.device].driver = s.row.fits

Validate(a) ==
  /\ at[a] = "given" /\ IsValid(save[a])
  /\ at' = [at EXCEPT ![a] = "validated"]
  /\ outdated' = outdated \ {a}
  /\ UNCHANGED <<devices, tags, made, save, import, raced, disturbed, kept>>

(* _validate_unique_tag_name.  Mutant: only a new tag is looked for.       *)
IsNewOrUnique(s) == s.id # None \/ \A i \in DOMAIN tags : tags[i].place # s.row.place

IsUnique(s) == \A i \in DOMAIN tags \ {s.id} : tags[i].place # s.row.place

CheckName(a) ==
  /\ at[a] = "validated" /\ IsUnique(save[a])
  /\ at' = [at EXCEPT ![a] = "checked"]
  /\ raced' = raced \ {a}
  /\ UNCHANGED <<devices, tags, made, save, import, outdated, disturbed, kept>>

Refuse(a) ==
  /\ \/ at[a] = "given" /\ ~IsValid(save[a])
     \/ at[a] = "validated" /\ ~IsUnique(save[a])
  /\ Fail(a)

(* The next row of the file, or the answer.                                *)
Saved(a) ==
  /\ at' = [at EXCEPT ![a] = IF a # Loop THEN "idle" ELSE IF known = None THEN "row" ELSE "file"]
  /\ save' = [save EXCEPT ![a] = None]
  /\ IF a = Loop THEN rowNo' = rowNo + 1 /\ into' = (IF known = None THEN into ELSE None)
     ELSE UNCHANGED <<into, rowNo>>
  /\ UNCHANGED <<devices, known>>

(* Row i is written with the places it leaves and takes.                   *)
WriteRow(a, i, left) ==
  LET r == save[a].row IN
  /\ r.place.device \in DOMAIN devices
  /\ tags' = With(tags, i, r)
  /\ outdated' = outdated \ {a}
  /\ raced' = (raced \ {a}) \cup
       {b \in Actors \ {a} : at[b] = "checked" /\ save[b].id # i /\ save[b].row.place = r.place}
  /\ IF a # Loop THEN Touched(left \cup {r.place})
     ELSE /\ kept' = {k \in kept : k.place # r.place} \cup (IF disturbed THEN {} ELSE {r})
          /\ disturbed' = FALSE
  /\ Saved(a)

Insert(a) ==
  /\ at[a] = "checked" /\ save[a].id = None
  /\ made.tag < MaxTags /\ made' = [made EXCEPT !.tag = @ + 1]
  /\ WriteRow(a, made'.tag, {})

Update(a) ==
  /\ at[a] = "checked" /\ save[a].id \in DOMAIN tags
  /\ WriteRow(a, save[a].id, {tags[save[a].id].place})
  /\ UNCHANGED made

(* UPDATE ... WHERE id = ? of a deleted tag changes nothing; the import    *)
(* takes its row as saved.                                                 *)
UpdateNothing(a) ==
  /\ at[a] = "checked" /\ save[a].id \notin DOMAIN tags \cup {None}
  /\ outdated' = outdated \ {a} /\ raced' = raced \ {a} /\ disturbed' = (disturbed /\ a # Loop)
  /\ Saved(a)
  /\ UNCHANGED <<tags, made, kept>>

(* The foreign key of a deleted device.                                    *)
WriteFails(a) ==
  /\ at[a] = "checked" /\ save[a].id \in DOMAIN tags \cup {None}
  /\ save[a].row.place.device \notin DOMAIN devices
  /\ Fail(a)

-----------------------------------------------------------------------------
(* import_devices_csv and import_tags_csv                                  *)

(* devices_by_key; of two devices of a name the later in the list counts,  *)
(* and SQL leaves their order open.                                        *)
Named(n) == {i \in DOMAIN devices : devices[i].name = n}

Entry(i) == [id |-> i, driver |-> devices[i].driver]

ImportDevices ==
  /\ at[Loop] = "idle" /\ at' = [at EXCEPT ![Loop] = "file"]
  /\ known' \in {f \in [Names -> {Entry(i) : i \in DOMAIN devices} \cup {None}] :
                   \A n \in Names : IF Named(n) = {} THEN f[n] = None
                                    ELSE f[n] \in {Entry(i) : i \in Named(n)}}
  /\ UNCHANGED <<devices, tags, made, save, into, rowNo, history>>

ImportTags ==
  /\ at[Loop] = "idle" /\ at' = [at EXCEPT ![Loop] = "row"]
  /\ into' \in DOMAIN devices
  /\ UNCHANGED <<devices, tags, made, save, known, rowNo, history>>

(* A row of a device: new, or known with the same settings.                *)
ImportDevice ==
  /\ at[Loop] = "file" /\ rowNo < MaxRows /\ at' = [at EXCEPT ![Loop] = "row"]
  /\ \E d \in DeviceRows :
       \/ /\ known[d.name] = None
          /\ InsertDevice(d)
          /\ known' = [known EXCEPT ![d.name] = [id |-> made'.device, driver |-> d.driver]]
          /\ into' = made'.device
       \/ /\ known[d.name] # None /\ known[d.name].driver = d.driver
          /\ into' = known[d.name].id
          /\ UNCHANGED <<devices, made, known>>
  /\ UNCHANGED <<tags, save, rowNo, history>>

NoTag ==
  /\ at[Loop] = "row" /\ known # None /\ at' = [at EXCEPT ![Loop] = "file"]
  /\ into' = None /\ rowNo' = rowNo + 1
  /\ UNCHANGED <<devices, tags, made, save, known, history>>

(* _upsert_tag: list_tags() and _existing_tag_id.                          *)
Existing(p) == {i \in DOMAIN tags : tags[i].place = p}

MatchTag ==
  /\ at[Loop] = "row" /\ rowNo < MaxRows /\ at' = [at EXCEPT ![Loop] = "given"]
  /\ \E p \in {q \in Places : q.device = into}, v \in Drivers :
       \E id \in IF Existing(p) = {} THEN {None} ELSE Existing(p) :
         save' = [save EXCEPT ![Loop] =
                    [id |-> id, row |-> [place |-> p, fits |-> v, fields |-> rowNo + 1]]]
  /\ disturbed' = FALSE
  /\ UNCHANGED <<devices, tags, made, import, outdated, raced, kept>>

(* The end of the file, a row that cannot be read, or one with other       *)
(* settings for a known device: the rows before it stay.                   *)
EndImport == at[Loop] \in {"file", "row"} /\ Fail(Loop)

-----------------------------------------------------------------------------
Request ==
  \/ CreateDevice
  \/ \E i \in DOMAIN devices : UpdateDevice(i) \/ DeleteDevice(i)
  \/ \E i \in DOMAIN tags : DeleteTag(i)
  \/ \E a \in Requests : SaveTag(a)
  \/ ImportDevices \/ ImportTags

SaveStep(a) ==
  \/ Validate(a) \/ CheckName(a) \/ Refuse(a)
  \/ Insert(a) \/ Update(a) \/ UpdateNothing(a) \/ WriteFails(a)

ImportStep == ImportDevice \/ NoTag \/ MatchTag \/ EndImport

Next ==
  \/ served < MaxRequests /\ served' = served + 1 /\ Request
  \/ UNCHANGED served /\ (ImportStep \/ \E a \in Actors : SaveStep(a))

Spec == Init /\ [][Next]_vars

-----------------------------------------------------------------------------
TablesOK ==
  /\ made \in [device : 0 .. MaxDevices, tag : 0 .. MaxTags]
  /\ DOMAIN devices \subseteq 1 .. made.device /\ devices \in [DOMAIN devices -> DeviceRows]
  /\ DOMAIN tags \subseteq 1 .. made.tag /\ tags \in [DOMAIN tags -> TagRows]
  /\ \A i \in DOMAIN tags : tags[i].place.device \in DOMAIN devices

ActorsOK ==
  /\ at \in [Actors -> {"idle", "file", "row", "given", "validated", "checked"}]
  /\ \A a \in Requests : at[a] \notin {"file", "row"}
  /\ save \in [Actors -> Saves \cup {None}]
  /\ \A a \in Actors : save[a] = None <=> a \notin Saving
  /\ outdated \subseteq Saving /\ raced \subseteq Saving

ImportOK ==
  /\ known \in Indexes \cup {None} /\ (at[Loop] = "file" => known \in Indexes)
  /\ (at[Loop] = "idle" => import = <<None, None, 0>>)
  /\ into \in DeviceIds \cup {None} /\ rowNo \in 0 .. MaxRows
  /\ (Loop \in Saving \/ (at[Loop] = "row" /\ known # None) => rowNo < MaxRows)
  /\ disturbed \in BOOLEAN /\ kept \subseteq TagRows

(* A tag belongs to a device that exists, and an actor saves what it is    *)
(* in save_tag() with (store.py lines 70-180, config_service.py 453-535).  *)
TypeOK == TablesOK /\ ActorsOK /\ ImportOK /\ served \in 0 .. MaxRequests

Clashes == {p \in Places : \E i, j \in DOMAIN tags : i # j /\ tags[i].place = p /\ tags[j].place = p}

Misfits == {i \in DOMAIN tags : tags[i].fits # devices[tags[i].place.device].driver}

(* A second tag gets a name of a device and a group only from an actor     *)
(* that had looked for the name before the first got it (lines 494-518 and *)
(* 138-180 of store.py): complete saves, and imports, never do it.         *)
NamesClashOnlyInRaces ==
  [][\A p \in Clashes' \ Clashes :
       \E a \in raced : at[a] = "checked" /\ save[a].row.place = p /\ save'[a] = None]_vars

(* A driver meets a tag that is not for it only if the driver of the       *)
(* device was changed, for the tags it had or those in save_tag().         *)
TagsFitTheirDriver ==
  [][\A i \in Misfits' \ Misfits :
       \/ devices'[tags'[i].place.device].driver # devices[tags'[i].place.device].driver
       \/ \E a \in outdated : at[a] = "checked" /\ save[a].row = tags'[i] /\ save'[a] = None]_vars

(* What an import has saved stays as it was in the file, through its later *)
(* rows and the row that fails, and after the import, until a request      *)
(* changes it or a row of the same name, group and device is imported      *)
(* (config_service.py lines 453-535).                                      *)
ImportedRowsStand ==
  \A r \in kept : \E i \in DOMAIN tags : tags[i] = r
==============================================================================

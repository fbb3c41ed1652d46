----------------------------- MODULE ReadResults -----------------------------
(***************************************************************************)
(* The devices, their enabled tags, and the ReadResult of models.py that   *)
(* the driver workers produce and the sink publisher consumes.             *)
(***************************************************************************)
EXTENDS Naturals, SequencesExt

CONSTANTS Devices,
          Tags,
          Result,      \* the key "__result__"
          DeviceTags   \* DeviceTags[d]: the enabled tags of d, in their order

TagsOf(d) == Range(DeviceTags[d])

ASSUME DeviceTagsAssumption ==
  /\ DeviceTags \in [Devices -> Seq(Tags)]
  /\ \A d, e \in Devices : d # e => TagsOf(d) \cap TagsOf(e) = {}
  /\ Result \notin Tags

Quality == {"good", "bad"}

(***************************************************************************)
(* Read results.  A worker reports an error for the whole device, or the   *)
(* qualities of some of its tags in their order: all of them after a poll, *)
(* some of them after a data change.  No tags and no error is the result   *)
(* of a device without enabled tags.                                       *)
(***************************************************************************)
ErrorResult(d) == [device |-> d, error |-> TRUE, tags |-> <<>>]

TagResult(t, q) == [tag |-> t, quality |-> q]

(* The positions of some tags of d, in their order.                        *)
Picks(d) ==
  {p \in UNION {[1 .. n -> DOMAIN DeviceTags[d]] : n \in 0 .. Len(DeviceTags[d])} :
     \A i, j \in DOMAIN p : i < j => p[i] < p[j]}

ReadOf(d, p, q) ==
  LET tag(i) == DeviceTags[d][p[i]]
  IN  [device |-> d, error |-> FALSE, tags |-> [i \in DOMAIN p |-> TagResult(tag(i), q[tag(i)])]]

ResultsOf(d) ==
  {ErrorResult(d)}
    \cup {ReadOf(d, p, q) : p \in {c \in Picks(d) : c = <<>> => TagsOf(d) = {}},
                            q \in [TagsOf(d) -> Quality]}

-----------------------------------------------------------------------------
(***************************************************************************)
(* The data side of _LatestReadResultQueue.                                *)
(***************************************************************************)
VARIABLE items   \* its OrderedDict as a sequence of entries, oldest first

(* _split_items *)
Split(r) ==
  IF r.error \/ r.tags = <<>>
  THEN <<[key |-> <<r.device, Result>>, value |-> r]>>
  ELSE [i \in DOMAIN r.tags |->
          [key |-> <<r.device, r.tags[i].tag>>,
           value |-> [device |-> r.device, error |-> r.error, tags |-> <<r.tags[i]>>]]]

(* Mutant: `self._items[key] = result` without the `del` keeps its place.  *)
EnqueueInPlace(q, entry) ==
  IF \E i \in DOMAIN q : q[i].key = entry.key
  THEN [i \in DOMAIN q |-> IF q[i].key = entry.key THEN entry ELSE q[i]]
  ELSE Append(q, entry)

(* `del self._items[key]` when present, then `self._items[key] = result`.  *)
Without(q, key) ==
  LET older == {i \in DOMAIN q : q[i].key = key}
  IN  IF older = {} THEN q ELSE RemoveAt(q, CHOOSE i \in older : TRUE)

Enqueue(q, entry) == Append(Without(q, entry.key), entry)

PutResult(q, r) == FoldLeft(Enqueue, q, Split(r))
==============================================================================

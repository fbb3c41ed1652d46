----------------------------- MODULE ModbusBlocks -----------------------------
(***************************************************************************)
(* One read of a Modbus device, drivers/modbus.py: _plan_blocks() groups   *)
(* the tags into blocks, each block is one request, and what its response  *)
(* holds is handed out to the block's tags.                                *)
(*                                                                         *)
(* A tag is known by its position in the list; its name need not be unique *)
(* in a device, only in its tag group.  Its `count` is the items, registers *)
(* or bits, that its data type and word_count take.  An item is known by   *)
(* its address, so that a result shows which items it was decoded from;    *)
(* what they decode to is left out.                                        *)
(***************************************************************************)
EXTENDS Integers, Sequences, FiniteSets, FiniteSetsExt, SequencesExt

CONSTANTS Functions,     \* holding_register, coil, ...
          MaxGap,        \* max_block_gap
          Limit,         \* max_counts: the items one request may ask for
          DefaultUnit,   \* the device's unit_id
          Names,         \* of tags
          TagLists       \* the lists of enabled tags considered

Tag == [name : Names, function : Functions, unit : Nat, address : Nat, count : Nat \ {0}]

ASSUME ModbusAssumption ==
  /\ MaxGap \in Nat
  /\ Limit \in [Functions -> Nat \ {0}]
  /\ DefaultUnit \in Nat
  /\ TagLists \subseteq Seq(Tag)

-----------------------------------------------------------------------------
(* `tag.unit_id or default_unit_id`                                        *)
UnitOf(tag) == IF tag.unit = 0 THEN DefaultUnit ELSE tag.unit

GroupOf(tag) == <<tag.function, UnitOf(tag)>>

EndOf(tag) == tag.address + tag.count

BlockEnd(block) == block.start + block.count

NewBlock(tag, i) ==
  [function |-> tag.function, unit |-> UnitOf(tag), start |-> tag.address, count |-> tag.count, tags |-> <<i>>]

(* Mutants: a tag inside its predecessor shortens the block; a gap that is *)
(* one too long; a limit that may not be reached.                          *)
GrownToTag(block, tag, i) ==
  [block EXCEPT !.count = EndOf(tag) - block.start, !.tags = Append(@, i)]

FitsWider(block, grown, tag) ==
  /\ <<block.function, block.unit>> = GroupOf(tag)
  /\ tag.address <= BlockEnd(block) + MaxGap + 1
  /\ grown.count <= Limit[tag.function]

Grown(block, tag, i) ==
  [block EXCEPT !.count = Max({BlockEnd(block), EndOf(tag)}) - block.start, !.tags = Append(@, i)]

Fits(block, grown, tag) ==
  /\ <<block.function, block.unit>> = GroupOf(tag)
  /\ tag.address <= BlockEnd(block) + MaxGap
  /\ grown.count <= Limit[tag.function]

(* The first tag of the same group: the groups are read in their order.    *)
Leader(list, i) == Min({j \in DOMAIN list : GroupOf(list[j]) = GroupOf(list[i])})

(* Group after group, and in a group by address; `sorted` keeps tags with  *)
(* the same address in their order.                                        *)
Precedes(list, i, j) ==
  \/ Leader(list, i) < Leader(list, j)
  \/ /\ Leader(list, i) = Leader(list, j)
     /\ \/ list[i].address < list[j].address
        \/ list[i].address = list[j].address /\ i < j

Sorted(list) ==
  CHOOSE order \in Bijection(DOMAIN list, DOMAIN list) :
    \A m, n \in DOMAIN list : m < n => Precedes(list, order[m], order[n])

(* The last block takes one more tag, or the tag begins another.           *)
Extended(blocks, tag, i) ==
  IF blocks = <<>> THEN <<NewBlock(tag, i)>>
  ELSE LET grown == Grown(Last(blocks), tag, i)
       IN IF Fits(Last(blocks), grown, tag) THEN Append(Front(blocks), grown)
                                            ELSE Append(blocks, NewBlock(tag, i))

PlanBlocks(list) ==
  FoldLeft(LAMBDA blocks, i : Extended(blocks, list[i], i), <<>>, Sorted(list))

-----------------------------------------------------------------------------
VARIABLES
  tags,      \* the tags of the device
  plan,      \* the blocks, in the order in which they are requested
  answered,  \* the items each block so far was answered with, -1 for an error
  byName     \* results_by_name: the items of a good result

vars == <<tags, plan, answered, byName>>

Bad == <<>>

Requests == ToSet(plan)

(* The tags that a request so far was for.                                 *)
Asked == UNION {ToSet(plan[k].tags) : k \in DOMAIN answered}

Named(name) == {i \in Asked : tags[i].name = name}

TypeOK ==
  /\ Len(answered) <= Len(plan)
  /\ \A k \in DOMAIN answered : answered[k] \in -1 .. plan[k].count + 1
  /\ DOMAIN byName = {tags[i].name : i \in Asked}
  /\ \A name \in DOMAIN byName : Len(byName[name]) \in {0} \cup {tags[i].count : i \in Named(name)}

Init ==
  /\ tags \in TagLists
  /\ plan = PlanBlocks(tags)
  /\ answered = <<>>
  /\ byName = <<>>

(* `results[tag.name] = ...` for the tags of a block, one after the other: *)
(* of tags with one name, the last one's result stays.                     *)
ByName(block, result) ==
  LET at(name) == {k \in DOMAIN block.tags : tags[block.tags[k]].name = name}
  IN [name \in {tags[i].name : i \in ToSet(block.tags)} |-> result[block.tags[Max(at(name))]]]

(* dict.update()                                                           *)
Update(dict, new) ==
  [name \in DOMAIN dict \cup DOMAIN new |-> IF name \in DOMAIN new THEN new[name] ELSE dict[name]]

(* A mutant: an offset that is one too large.                              *)
DecodeShifted(block, response) ==
  LET offset(i) == tags[i].address - block.start + 1
  IN ByName(block, [i \in ToSet(block.tags) |->
       IF offset(i) + tags[i].count <= Len(response)
         THEN SubSeq(response, offset(i) + 1, offset(i) + tags[i].count) ELSE Bad])

(* A mutant: what there is of a tag's items is decoded.                    *)
DecodeShort(block, response) ==
  LET offset(i) == tags[i].address - block.start
  IN ByName(block, [i \in ToSet(block.tags) |->
       SubSeq(response, offset(i) + 1, Min({offset(i) + tags[i].count, Len(response)}))])

(* _decode_register_block() and _decode_bit_block(): a slice that is too   *)
(* short is bad for its tag.                                               *)
Decode(block, response) ==
  LET offset(i) == tags[i].address - block.start
  IN ByName(block, [i \in ToSet(block.tags) |->
       IF offset(i) + tags[i].count <= Len(response)
         THEN SubSeq(response, offset(i) + 1, offset(i) + tags[i].count) ELSE Bad])

(* _read_block(): a response may be short, and one of bits is padded.      *)
ReadBlock(block) ==
  \E n \in -1 .. block.count + 1 :
    /\ answered' = Append(answered, n)
    /\ byName' = Update(byName, IF n = -1 THEN ByName(block, [i \in ToSet(block.tags) |-> Bad])
                                ELSE Decode(block, [k \in 1 .. n |-> block.start + k - 1]))
    /\ UNCHANGED <<tags, plan>>

Next == Len(answered) < Len(plan) /\ ReadBlock(plan[Len(answered) + 1])

Spec == Init /\ [][Next]_vars /\ WF_vars(Next)

-----------------------------------------------------------------------------
(* Every tag is read by exactly one request, to its function and unit, and *)
(* the request covers all of the tag's items.                              *)
PlanCoversTags ==
  \A i \in DOMAIN tags :
    \E b \in Requests :
      /\ \A c \in Requests : i \in ToSet(c.tags) <=> c = b
      /\ <<b.function, b.unit>> = GroupOf(tags[i])
      /\ b.start <= tags[i].address /\ EndOf(tags[i]) <= BlockEnd(b)

Wanted(b) == UNION {tags[i].address .. EndOf(tags[i]) - 1 : i \in ToSet(b.tags)}

(* Two requests of a group, and no other of it reads at an address between *)
(* theirs.                                                                 *)
Neighbours(b, c) ==
  LET group == {d \in Requests : <<d.function, d.unit>> = <<b.function, b.unit>>}
  IN /\ c \in group \ {b} /\ b.start <= c.start
     /\ \A d \in group \ {b, c} : ~(b.start <= d.start /\ d.start <= c.start)

(* A request asks for more than the limit only if it is for one tag that   *)
(* takes more, it begins and ends with an item of a tag, and it never      *)
(* reads more than max_block_gap items in a row that no tag asked for; and *)
(* two neighbours within that gap would be beyond the limit as one.        *)
PlanIsFrugal ==
  /\ \A b \in Requests :
       /\ b.count <= Limit[b.function] \/ Len(b.tags) = 1
       /\ {b.start, BlockEnd(b) - 1} \subseteq Wanted(b)
       /\ \A a \in b.start .. BlockEnd(b) - 1 : (a .. a + MaxGap) \cap Wanted(b) # {}
  /\ \A b, c \in Requests :
       Neighbours(b, c) /\ c.start <= BlockEnd(b) + MaxGap
       => Max({BlockEnd(b), BlockEnd(c)}) - b.start > Limit[b.function]

(* What the responses say of a tag: it is good exactly if the response of  *)
(* its block reaches its last item, and then it is its own items.          *)
Told(i) ==
  LET k == CHOOSE k \in DOMAIN answered : i \in ToSet(plan[k].tags)
  IN IF EndOf(tags[i]) <= plan[k].start + answered[k]
       THEN [n \in 1 .. tags[i].count |-> tags[i].address + n - 1]
       ELSE Bad

(* The result of a name is what the responses say of a tag of that name,   *)
(* whatever other requests and other tags failed: a tag whose name is      *)
(* unique in its device gets its own items and no others.                  *)
TagsGetTheirOwnItems ==
  \A i \in Asked : byName[tags[i].name] \in {Told(j) : j \in Named(tags[i].name)}
==============================================================================

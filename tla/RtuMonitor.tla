------------------------------ MODULE RtuMonitor ------------------------------
(***************************************************************************)
(* drivers/modbus_rtu_monitor.py: a driver that never asks.  Another       *)
(* master reads the slaves of an RS-485 bus; each read_tags() listens for  *)
(* capture_wait_s, pairs the requests and responses it hears, and looks up *)
(* its tags in the pairs.  The probe of the device form listens through a  *)
(* second open file of the same port and takes bytes from the driver.      *)
(*                                                                         *)
(* The reads of the master are numbered by `asks`; a frame is the request  *)
(* or the answer of one of them, and a register is its address in the read *)
(* that answered.  A frame with a wrong CRC, or one cut in two by the end  *)
(* of a capture, is skipped (_first_valid_frame_span): it never arrives.   *)
(* Nor do exceptions and writes, which are parsed and ignored.             *)
(***************************************************************************)
EXTENDS Integers, Sequences, FiniteSets

CONSTANTS Queries,      \* the reads the master of the bus may make
          Tags,         \* the enabled tags of the device
          DefaultUnit,  \* the device's unit_id
          MaxAsks       \* bound: the reads made in a behaviour

Codes == 1 .. 4         \* READ_FUNCTIONS: coils, discrete inputs, holding and input registers

RegisterCodes == {3, 4}

ASSUME RtuAssumption ==
  /\ Queries \subseteq [unit : Nat, code : Codes, start : Nat, quantity : Nat \ {0}]
  /\ Tags \subseteq [unit : Nat, code : Codes, address : Nat, count : Nat \ {0}]
  /\ MaxAsks \in Nat

-----------------------------------------------------------------------------
VARIABLES
  driver,     \* serial_port of the driver: "closed", "open", or "capturing"
  probing,    \* whether a probe has the port open as well
  line,       \* frames the port has received and nobody has read
  pending,    \* per slave and function: the read whose request waits, 0 for none
  pairs,      \* pairs of this capture, each naming two reads
  found,      \* the slaves in responses_by_slave of the probe
  asks,       \* history: the reads of the master
  answered,   \* history: reads that have got their answer
  late,       \* history: reads answered after a later one to the same slave and function
  unheard,    \* history: reads whose request reached no capture
  heard       \* history: frames this capture has processed

wire == <<asks, answered, late>>
capture == <<pending, pairs, heard>>
vars == <<driver, probing, line, capture, found, wire, unheard>>

Frames == [kind : {"request", "response"}, ask : 1 .. MaxAsks]

Frame(kind, n) == [kind |-> kind, ask |-> n]

Key(q) == <<q.unit, q.code>>

Keys == {Key(q) : q \in Queries}

NoPending == [k \in Keys |-> 0]

Init ==
  /\ driver = "closed" /\ probing = FALSE /\ line = <<>>
  /\ pending = NoPending /\ pairs = <<>> /\ heard = {} /\ found = {}
  /\ asks = <<>> /\ answered = {} /\ late = {} /\ unheard = {}

-----------------------------------------------------------------------------
(* The bus                                                                 *)

(* A frame on the wire arrives if somebody listens and nothing garbles it. *)
Arrives(frame) == (driver # "closed" \/ probing) /\ line' = Append(line, frame)

(* The reads whose requests are among the frames of a part of the line.    *)
Requested(frames) == {n \in DOMAIN asks : \E i \in DOMAIN frames : frames[i] = Frame("request", n)}

(* The master makes a read, whether or not the last one was answered.      *)
Ask(q) ==
  LET n == Len(asks) + 1 IN
  /\ n <= MaxAsks
  /\ asks' = Append(asks, q)
  /\ \/ Arrives(Frame("request", n)) /\ UNCHANGED unheard
     \/ line' = line /\ unheard' = unheard \cup {n}
  /\ UNCHANGED <<driver, probing, capture, found, answered, late>>

(* A slave answers a read, maybe after the master has given it up.         *)
Answer(n) ==
  /\ n \in DOMAIN asks \ answered
  /\ answered' = answered \cup {n}
  /\ late' = IF \E m \in DOMAIN asks : m > n /\ Key(asks[m]) = Key(asks[n])
             THEN late \cup {n} ELSE late
  /\ \/ Arrives(Frame("response", n))
     \/ line' = line
  /\ UNCHANGED <<driver, probing, capture, found, asks, unheard>>

-----------------------------------------------------------------------------
(* Frames as the monitor sees them                                         *)

DataBytes(q) == IF q.code \in RegisterCodes THEN 2 * q.quantity ELSE (q.quantity + 7) \div 8

(* parse_rtu_frame takes any eight bytes of a read function for a request, *)
(* a response of three data bytes included.                                *)
IsReadRequest(frame) ==
  \/ frame.kind = "request"
  \/ frame.kind = "response" /\ DataBytes(asks[frame.ask]) = 3

IsReadResponse(frame) == ~IsReadRequest(frame)

(* One frame of _drain_request_response_pairs; `pending` of a misread      *)
(* response names the read that it answers.  Mutants: the first request of *)
(* several is kept; an answer without a request makes a pair.              *)
KeepFirst(frame) ==
  LET key == Key(asks[frame.ask]) IN
  /\ pending' = [pending EXCEPT ![key] = IF ~IsReadRequest(frame) THEN 0
                                         ELSE IF @ = 0 THEN frame.ask ELSE @]
  /\ pairs' = IF IsReadResponse(frame) /\ pending[key] # 0
              THEN Append(pairs, [request |-> pending[key], response |-> frame.ask])
              ELSE pairs

PairAlways(frame) ==
  LET key == Key(asks[frame.ask]) IN
  /\ pending' = [pending EXCEPT ![key] = IF IsReadRequest(frame) THEN frame.ask ELSE 0]
  /\ pairs' = IF IsReadResponse(frame)
              THEN Append(pairs, [request |-> pending[key], response |-> frame.ask])
              ELSE pairs

Pair(frame) ==
  LET key == Key(asks[frame.ask]) IN
  /\ pending' = [pending EXCEPT ![key] = IF IsReadRequest(frame) THEN frame.ask ELSE 0]
  /\ pairs' = IF IsReadResponse(frame) /\ pending[key] # 0
              THEN Append(pairs, [request |-> pending[key], response |-> frame.ask])
              ELSE pairs

-----------------------------------------------------------------------------
(* The driver                                                              *)

(* Opening a port flushes what it has received.                            *)
Flush == line' = <<>> /\ unheard' = unheard \cup Requested(line)

Connect ==
  /\ driver = "closed" /\ driver' = "open" /\ Flush
  /\ UNCHANGED <<probing, capture, found, wire>>

StartCapture ==
  /\ driver = "open" /\ driver' = "capturing"
  /\ pending' = NoPending /\ pairs' = <<>> /\ heard' = {}
  /\ UNCHANGED <<probing, line, found, wire, unheard>>

Hear ==
  /\ driver = "capturing" /\ line # <<>>
  /\ Pair(Head(line))
  /\ heard' = heard \cup {Head(line)}
  /\ line' = Tail(line)
  /\ UNCHANGED <<driver, probing, found, wire, unheard>>

(* The deadline: half a frame may have been read, and is dropped with the  *)
(* buffer.  The pairs stay, as the tags are looked up in them.             *)
EndCapture ==
  /\ driver = "capturing" /\ driver' = "open"
  /\ pending' = NoPending
  /\ \/ UNCHANGED <<line, unheard>>
     \/ /\ line # <<>> /\ line' = Tail(line)
        /\ unheard' = unheard \cup Requested(<<Head(line)>>)
  /\ UNCHANGED <<probing, pairs, heard, found, wire>>

(* disconnect(), by the poller that stops or after a failed read.          *)
Disconnect ==
  /\ driver # "closed" /\ driver' = "closed"
  /\ pending' = NoPending /\ pairs' = <<>> /\ heard' = {}
  /\ IF probing THEN UNCHANGED <<line, unheard>> ELSE Flush
  /\ UNCHANGED <<probing, found, wire>>

-----------------------------------------------------------------------------
(* The probe: probe_responses()                                            *)

StartProbe ==
  /\ ~probing /\ probing' = TRUE /\ found' = {} /\ Flush
  /\ UNCHANGED <<driver, capture, wire>>

(* It takes its frames from the driver, and looks only for responses.      *)
ProbeHears ==
  LET frame == Head(line) IN
  /\ probing /\ line # <<>>
  /\ found' = IF IsReadResponse(frame) THEN found \cup {asks[frame.ask].unit} ELSE found
  /\ line' = Tail(line)
  /\ unheard' = unheard \cup Requested(<<frame>>)
  /\ UNCHANGED <<driver, probing, capture, wire>>

EndProbe ==
  /\ probing /\ probing' = FALSE
  /\ IF driver = "closed" THEN Flush ELSE UNCHANGED <<line, unheard>>
  /\ UNCHANGED <<driver, capture, found, wire>>

-----------------------------------------------------------------------------
Next ==
  \/ \E q \in Queries : Ask(q)
  \/ \E n \in DOMAIN asks : Answer(n)
  \/ Connect \/ StartCapture \/ Hear \/ EndCapture \/ Disconnect
  \/ StartProbe \/ ProbeHears \/ EndProbe

Spec == Init /\ [][Next]_vars

-----------------------------------------------------------------------------
(* _tag_results_from_pairs, for the pairs heard so far                     *)

UnitOf(tag) == IF tag.unit = 0 THEN DefaultUnit ELSE tag.unit

QueryOf(i) == asks[pairs[i].request]

SameKey(i, j) == Key(QueryOf(i)) = Key(QueryOf(j)) /\ QueryOf(i).start = QueryOf(j).start

(* latest_pairs holds the last pair of each unit, function and start, and  *)
(* keeps the keys in the order in which they first came.  Mutant: it holds *)
(* the first pair.                                                         *)
IsFirst(i) == \A j \in 1 .. i - 1 : ~SameKey(i, j)

IsLatest(i) == \A j \in i + 1 .. Len(pairs) : ~SameKey(i, j)

CameBefore(i, j) == \E k \in 1 .. i : SameKey(i, k) /\ \A l \in 1 .. k : ~SameKey(j, l)

Covers(query, tag) ==
  /\ Key(query) = <<UnitOf(tag), tag.code>>
  /\ query.start <= tag.address /\ tag.address < query.start + query.quantity

(* A tag gets the pair of the first key that has its first register; the   *)
(* answers to reads of bits have no registers.  The set has one element,   *)
(* or none if the tag was "not observed".                                  *)
Candidates(tag) ==
  {i \in DOMAIN pairs : IsLatest(i) /\ tag.code \in RegisterCodes /\ Covers(QueryOf(i), tag)}

PairFor(tag) == {i \in Candidates(tag) : \A j \in Candidates(tag) \ {i} : CameBefore(i, j)}

Offset(tag, i) == tag.address - QueryOf(i).start

(* A value is decoded if the answer has all registers of the tag.          *)
HasRegisters(tag, i) == Offset(tag, i) + tag.count <= asks[pairs[i].response].quantity

(* The address of the first register the tag is decoded from.              *)
DecodedFrom(tag, i) == asks[pairs[i].response].start + Offset(tag, i)

-----------------------------------------------------------------------------
TypeOK ==
  /\ driver \in {"closed", "open", "capturing"} /\ probing \in BOOLEAN
  /\ line \in Seq(Frames) /\ heard \subseteq Frames
  /\ pending \in [Keys -> 0 .. MaxAsks]
  /\ pairs \in Seq([request : 1 .. MaxAsks, response : 1 .. MaxAsks])
  /\ found \subseteq {q.unit : q \in Queries}
  /\ asks \in Seq(Queries) /\ Len(asks) <= MaxAsks
  /\ answered \subseteq 1 .. MaxAsks /\ late \subseteq answered /\ unheard \subseteq 1 .. MaxAsks

(* A tag is decoded from registers of another address (line 365 pairs by   *)
(* slave and function alone) only if the monitor has missed the request of *)
(* the answer, or the slave answered after a later request.                *)
WrongRegistersNeedAMiss ==
  \A tag \in Tags : \A i \in PairFor(tag) :
    HasRegisters(tag, i) /\ DecodedFrom(tag, i) # tag.address =>
      pairs[i].response \in unheard \cup late

(* A capture that has heard a whole read of a tag, and neither late nor    *)
(* orphaned answers, gives the tag its registers, as new as that read if   *)
(* they come from a read of the same start.  Two other reads may spoil it: *)
(* a shorter one of the same start (line 424), and one that ends within    *)
(* the tag (line 459).                                                     *)
HeardTagsAreGood ==
  \A tag \in Tags, n \in DOMAIN asks :
    LET Whole(m) == Frame("request", m) \in heard /\ Frame("response", m) \in heard
        Spoils(q) == \/ Key(q) = Key(asks[n]) /\ q.start = asks[n].start /\ ~Covers(q, tag)
                     \/ Covers(q, tag) /\ tag.address + tag.count > q.start + q.quantity
    IN /\ tag.code \in RegisterCodes /\ \A frame \in heard : frame.ask \notin late \cup unheard
       /\ Whole(n) /\ Covers(asks[n], tag)
       /\ ~\E m \in DOMAIN asks : Spoils(asks[m])
       => \E i \in PairFor(tag) :
            /\ HasRegisters(tag, i) /\ DecodedFrom(tag, i) = tag.address
            /\ QueryOf(i).start = asks[n].start => pairs[i].response >= n
==============================================================================

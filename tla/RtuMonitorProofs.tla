--------------------------- MODULE RtuMonitorProofs ---------------------------
(***************************************************************************)
(* That a tag of the RTU monitor has registers of another address only     *)
(* after a missed request or a late answer, and that a read heard as a     *)
(* whole serves its tags, for every bus and device.                        *)
(*                                                                         *)
(* The argument follows a request from the wire to `pending`.  A request   *)
(* that waits there is the newest of its key that was heard: a newer one   *)
(* is still behind it on the line or has been missed.  An answer comes     *)
(* behind its own request, and behind no newer one unless it is late.  So  *)
(* an answer that meets the request of another read is late, or its own    *)
(* request was missed.                                                     *)
(*                                                                         *)
(* For the second, frames come in the order of their reads but for late    *)
(* answers, so a request that was heard and whose answer is on its way is  *)
(* still in `pending` when the answer comes: nothing of its key comes      *)
(* between the two.                                                        *)
(***************************************************************************)
EXTENDS RtuMonitor, WellFoundedInduction, TLAPS

(* Frames name reads that were made, and answers reads that were answered. *)
LineOK ==
  \A i \in DOMAIN line :
    /\ line[i].ask \in DOMAIN asks
    /\ line[i].kind = "response" => line[i].ask \in answered

(* What waits under a key is a read of that key.                           *)
PendingOK ==
  \A k \in Keys : pending[k] # 0 => pending[k] \in DOMAIN asks /\ Key(asks[pending[k]]) = k

PairsOK ==
  \A i \in DOMAIN pairs :
    /\ pairs[i].request \in DOMAIN asks /\ pairs[i].response \in DOMAIN asks
    /\ Key(asks[pairs[i].request]) = Key(asks[pairs[i].response])

(* No request is behind its own answer.                                    *)
RequestsComeFirst ==
  \A i, j \in DOMAIN line :
    i < j /\ line[i].kind = "response" /\ line[j].kind = "request" => line[i].ask # line[j].ask

Waits(n, from) == \E j \in DOMAIN line : j > from /\ line[j] = Frame("request", n)

(* The requests of later reads are behind those of earlier ones.           *)
LaterRequestsFollow ==
  \A i \in DOMAIN line : line[i].kind = "request" =>
    \A n \in DOMAIN asks : n > line[i].ask => n \in unheard \/ Waits(n, i)

(* Nothing newer than a waiting request of registers has been heard.       *)
LaterRequestsWait ==
  \A k \in Keys : k[2] \in RegisterCodes /\ pending[k] # 0 =>
    \A n \in DOMAIN asks : n > pending[k] /\ Key(asks[n]) = k => n \in unheard \/ Waits(n, 0)

(* An answer in time has no newer request of its key before it.            *)
AnswersInTime ==
  \A i \in DOMAIN line : line[i].kind = "response" /\ line[i].ask \notin late =>
    /\ \A j \in DOMAIN line :
         /\ j < i /\ line[j].kind = "request"
         /\ Key(asks[line[j].ask]) = Key(asks[line[i].ask])
         => line[j].ask <= line[i].ask
    /\ asks[line[i].ask].code \in RegisterCodes => pending[Key(asks[line[i].ask])] <= line[i].ask

PairsAreRight ==
  \A i \in DOMAIN pairs :
    asks[pairs[i].response].code \in RegisterCodes =>
      pairs[i].request = pairs[i].response \/ pairs[i].response \in unheard \cup late

WireInv == LineOK /\ RequestsComeFirst /\ LaterRequestsFollow

CaptureInv == PendingOK /\ PairsOK /\ LaterRequestsWait /\ AnswersInTime /\ PairsAreRight

Inv == TypeOK /\ WireInv /\ CaptureInv

-----------------------------------------------------------------------------
(* A step that makes no read and no answer: frames may be dropped from the *)
(* line, `pending` and the pairs may be emptied.                           *)
Dropped ==
  \/ UNCHANGED <<line, unheard>>
  \/ line # <<>> /\ line' = Tail(line) /\ unheard' = unheard \cup Requested(<<Head(line)>>)
  \/ Flush

Quiet ==
  /\ Dropped /\ UNCHANGED wire
  /\ pending' = pending \/ pending' = NoPending
  /\ pairs' = pairs \/ pairs' = <<>>

(* Every step is a read, an answer, a frame heard, or quiet.               *)
LEMMA StepsAreFew ==
  ASSUME TypeOK, [Next]_vars
  PROVE  \/ \E q \in Queries : Ask(q)
         \/ \E n \in DOMAIN asks : Answer(n)
         \/ Hear
         \/ Quiet
<1> USE DEF Quiet, Dropped, wire, capture
<1>1. CASE UNCHANGED vars  BY <1>1 DEF vars
<1>2. CASE Connect  BY <1>2 DEF Connect
<1>3. CASE StartCapture  BY <1>3 DEF StartCapture
<1>4. CASE EndCapture  BY <1>4 DEF EndCapture
<1>5. CASE Disconnect  BY <1>5 DEF Disconnect
<1>6. CASE StartProbe  BY <1>6 DEF StartProbe
<1>7. CASE ProbeHears  BY <1>7 DEF ProbeHears
<1>8. CASE EndProbe  BY <1>8 DEF EndProbe
<1> QED
  BY <1>1, <1>2, <1>3, <1>4, <1>5, <1>6, <1>7, <1>8 DEF Next

(* What a dropping of frames does to the line: it shifts it, and a request *)
(* that is gone counts as unheard.                                         *)
LEMMA DroppedFrames ==
  ASSUME TypeOK, LineOK, Dropped, UNCHANGED wire
  PROVE  /\ line' \in Seq(Frames) /\ unheard \subseteq unheard' /\ unheard' \subseteq 1 .. MaxAsks
         /\ \E d \in Nat :
              /\ Len(line') = Len(line) - d
              /\ \A i \in DOMAIN line' : i + d \in DOMAIN line /\ line'[i] = line[i + d]
              /\ \A i \in DOMAIN line :
                   i <= d /\ line[i].kind = "request" => line[i].ask \in unheard'
<1> DEFINE Shifted(d) ==
             /\ Len(line') = Len(line) - d
             /\ \A i \in DOMAIN line' : i + d \in DOMAIN line /\ line'[i] = line[i + d]
             /\ \A i \in DOMAIN line :
                  i <= d /\ line[i].kind = "request" => line[i].ask \in unheard'
<1>1. ASSUME NEW i \in DOMAIN line, line[i].kind = "request"
      PROVE  line[i] = Frame("request", line[i].ask)
  <2>1. line[i] \in Frames  BY DEF TypeOK
  <2> QED  BY <1>1, <2>1 DEF Frames, Frame
<1>2. CASE UNCHANGED <<line, unheard>>
  <2>1. Shifted(0)  BY <1>2 DEF TypeOK
  <2> QED  BY <1>2, <2>1 DEF TypeOK
<1>3. CASE /\ line # <<>> /\ line' = Tail(line)
           /\ unheard' = unheard \cup Requested(<<Head(line)>>)
  <2>1. /\ line' \in Seq(Frames) /\ Len(line') = Len(line) - 1
        /\ \A i \in DOMAIN line' : i + 1 \in DOMAIN line /\ line'[i] = line[i + 1]
    BY <1>3 DEF TypeOK
  <2>2. 1 \in DOMAIN line /\ Head(line) = line[1]  BY <1>3 DEF TypeOK
  <2>3. line[1].kind = "request" => line[1].ask \in Requested(<<Head(line)>>)
    BY <1>1, <2>2 DEF Requested, LineOK
  <2>4. \A i \in DOMAIN line : i <= 1 => i = 1  BY DEF TypeOK
  <2>5. Shifted(1)  BY <1>3, <2>1, <2>3, <2>4
  <2>6. Requested(<<Head(line)>>) \subseteq 1 .. MaxAsks  BY RtuAssumption DEF Requested, TypeOK
  <2> QED  BY <1>3, <2>1, <2>5, <2>6 DEF TypeOK
<1>4. CASE Flush
  <2>1. \A i \in DOMAIN line : line[i].kind = "request" => line[i].ask \in Requested(line)
    BY <1>1 DEF Requested, LineOK
  <2>2. line' = <<>> /\ Len(line) \in Nat /\ Len(line') = Len(line) - Len(line)
    BY <1>4 DEF Flush, TypeOK
  <2>3. Shifted(Len(line))  BY <1>4, <2>1, <2>2 DEF Flush
  <2>4. Requested(line) \subseteq 1 .. MaxAsks  BY RtuAssumption DEF Requested, TypeOK
  <2>5. unheard \subseteq unheard' /\ unheard' \subseteq 1 .. MaxAsks
    BY <1>4, <2>4 DEF Flush, TypeOK
  <2>6. line' \in Seq(Frames)  BY <2>2
  <2> QED  BY <2>2, <2>3, <2>5, <2>6
<1> QED  BY <1>2, <1>3, <1>4 DEF Dropped

-----------------------------------------------------------------------------
(* What a frame that may arrive does to the line.                          *)
LEMMA LongerLine ==
  ASSUME TypeOK, NEW frame \in Frames, line' = line \/ line' = Append(line, frame)
  PROVE  /\ line' \in Seq(Frames) /\ Len(line) \in Nat
         /\ \A i \in DOMAIN line :
              i \in DOMAIN line' /\ line'[i] = line[i] /\ i \in Nat /\ i <= Len(line)
         /\ \A i \in DOMAIN line' :
              i \in DOMAIN line \/ (i = Len(line) + 1 /\ line'[i] = frame)
<1>1. line \in Seq(Frames) /\ Len(line) \in Nat /\ DOMAIN line = 1 .. Len(line)  BY DEF TypeOK
<1>2. CASE line' = line  BY <1>1, <1>2
<1>3. CASE line' = Append(line, frame)
  <2>1. line' \in Seq(Frames) /\ Len(line') = Len(line) + 1 /\ DOMAIN line' = 1 .. Len(line')
    BY <1>1, <1>3
  <2>2. \A i \in DOMAIN line : line'[i] = line[i]  BY <1>1, <1>3
  <2>3. line'[Len(line) + 1] = frame  BY <1>1, <1>3
  <2> QED  BY <1>1, <2>1, <2>2, <2>3
<1> QED  BY <1>2, <1>3

(* A read                                                                  *)
LEMMA AskKeepsTypes ==
  ASSUME Inv, NEW q \in Queries, Ask(q)
  PROVE  TypeOK'
<1> USE DEF Inv, Ask, TypeOK, capture
<1>1. Len(asks) + 1 \in 1 .. MaxAsks  BY RtuAssumption
<1>2. asks' \in Seq(Queries) /\ Len(asks') <= MaxAsks  BY <1>1
<1>3. Frame("request", Len(asks) + 1) \in Frames  BY <1>1 DEF Frame, Frames
<1>4. line' = line \/ line' = Append(line, Frame("request", Len(asks) + 1))  BY DEF Arrives
<1>5. line' \in Seq(Frames)  BY <1>3, <1>4, LongerLine
<1>6. unheard' \subseteq 1 .. MaxAsks  BY <1>1
<1> QED  BY <1>2, <1>5, <1>6

LEMMA AskKeepsWire ==
  ASSUME Inv, NEW q \in Queries, Ask(q)
  PROVE  WireInv'
<1> DEFINE n == Len(asks) + 1
<1>1. /\ DOMAIN asks' = DOMAIN asks \cup {n} /\ n \notin DOMAIN asks /\ n \in Nat
      /\ \A m \in DOMAIN asks : asks'[m] = asks[m] /\ m \in Nat /\ m < n
      /\ answered' = answered
  BY DEF Ask, Inv, TypeOK
<1>2. CASE Arrives(Frame("request", n)) /\ UNCHANGED unheard
  <2>1. /\ DOMAIN line' = DOMAIN line \cup {Len(line) + 1} /\ Len(line) \in Nat
        /\ \A i \in DOMAIN line : line'[i] = line[i] /\ i \in Nat /\ i <= Len(line)
        /\ line'[Len(line) + 1] = Frame("request", n)
    BY <1>2 DEF Arrives, Inv, TypeOK
  <2>2. Frame("request", n).kind = "request" /\ Frame("request", n).ask = n  BY DEF Frame
  <2>3. LineOK'  BY <1>1, <2>1, <2>2 DEF LineOK, Inv, WireInv
  <2>4. RequestsComeFirst'
    <3> SUFFICES ASSUME NEW i \in DOMAIN line', NEW j \in DOMAIN line', i < j,
                        line'[i].kind = "response", line'[j].kind = "request"
                 PROVE  line'[i].ask # line'[j].ask
      BY DEF RequestsComeFirst
    <3>1. i \in DOMAIN line  BY <2>1, <2>2
    <3>2. CASE j \in DOMAIN line  BY <3>1, <3>2, <2>1 DEF RequestsComeFirst, Inv, WireInv
    <3>3. CASE j = Len(line) + 1
      BY <1>1, <2>1, <2>2, <3>1, <3>3 DEF LineOK, Inv, WireInv
    <3> QED  BY <2>1, <3>2, <3>3
  <2>5. LaterRequestsFollow'
    <3> SUFFICES ASSUME NEW i \in DOMAIN line', line'[i].kind = "request",
                        NEW m \in DOMAIN asks', m > line'[i].ask
                 PROVE  m \in unheard' \/ Waits(m, i)'
      BY DEF LaterRequestsFollow
    <3>1. i \in DOMAIN line  BY <1>1, <2>1, <2>2
    <3>2. CASE m = n
      <4>1. Len(line) + 1 > i /\ line'[Len(line) + 1] = Frame("request", m)  BY <2>1, <3>1, <3>2
      <4> QED  BY <2>1, <4>1 DEF Waits
    <3>3. CASE m \in DOMAIN asks
      <4>1. m \in unheard \/ Waits(m, i)
        BY <2>1, <3>1, <3>3 DEF LaterRequestsFollow, Inv, WireInv
      <4> QED  BY <1>2, <2>1, <4>1 DEF Waits
    <3> QED  BY <1>1, <3>2, <3>3
  <2> QED  BY <2>3, <2>4, <2>5 DEF WireInv
<1>3. CASE line' = line /\ unheard' = unheard \cup {n}
  <2>1. LineOK'  BY <1>1, <1>3 DEF LineOK, Inv, WireInv
  <2>2. RequestsComeFirst'  BY <1>3 DEF RequestsComeFirst, Inv, WireInv
  <2>3. LaterRequestsFollow'
    <3> SUFFICES ASSUME NEW i \in DOMAIN line, line[i].kind = "request",
                        NEW m \in DOMAIN asks', m > line[i].ask
                 PROVE  m \in unheard' \/ Waits(m, i)'
      BY <1>3 DEF LaterRequestsFollow
    <3>1. CASE m = n  BY <1>3, <3>1
    <3>2. CASE m \in DOMAIN asks
      BY <1>3, <3>2 DEF LaterRequestsFollow, Inv, WireInv, Waits
    <3> QED  BY <1>1, <3>1, <3>2
  <2> QED  BY <2>1, <2>2, <2>3 DEF WireInv
<1> QED  BY <1>2, <1>3 DEF Ask

LEMMA AskKeepsCapture ==
  ASSUME Inv, NEW q \in Queries, Ask(q)
  PROVE  CaptureInv'
<1> DEFINE n == Len(asks) + 1
<1>1. /\ DOMAIN asks' = DOMAIN asks \cup {n} /\ n \notin DOMAIN asks /\ n \in Nat
      /\ \A m \in DOMAIN asks : asks'[m] = asks[m] /\ m \in Nat /\ m < n
      /\ pending' = pending /\ pairs' = pairs /\ late' = late
  BY DEF Ask, Inv, TypeOK, capture
<1>2. unheard \subseteq unheard'  BY DEF Ask
<1>3. Frame("request", n) \in Frames /\ Frame("request", n).kind = "request"
  BY RtuAssumption DEF Frame, Frames, Ask, Inv, TypeOK
<1>4. line' = line \/ line' = Append(line, Frame("request", n))  BY DEF Ask, Arrives
<1>5. /\ Len(line) \in Nat
      /\ \A i \in DOMAIN line :
           i \in DOMAIN line' /\ line'[i] = line[i] /\ i \in Nat /\ i <= Len(line)
      /\ \A i \in DOMAIN line' :
           i \in DOMAIN line \/ (i = Len(line) + 1 /\ line'[i] = Frame("request", n))
  BY <1>3, <1>4, LongerLine DEF Inv
<1>6. PendingOK'  BY <1>1 DEF PendingOK, Inv, CaptureInv
<1>7. PairsOK'  BY <1>1 DEF PairsOK, Inv, CaptureInv
<1>8. PairsAreRight'  BY <1>1, <1>2 DEF PairsAreRight, PairsOK, Inv, CaptureInv
<1>9. LaterRequestsWait'
  <2> SUFFICES ASSUME NEW k \in Keys, k[2] \in RegisterCodes, pending[k] # 0,
                      NEW m \in DOMAIN asks', m > pending[k], Key(asks'[m]) = k
               PROVE  m \in unheard' \/ Waits(m, 0)'
    BY <1>1 DEF LaterRequestsWait, Key
  <2>1. CASE m = n /\ Arrives(Frame("request", n))
    <3>1. /\ Len(line) + 1 \in DOMAIN line' /\ Len(line) + 1 > 0
          /\ line'[Len(line) + 1] = Frame("request", m)
      BY <2>1 DEF Arrives, Inv, TypeOK
    <3> QED  BY <3>1 DEF Waits
  <2>2. CASE m = n /\ ~Arrives(Frame("request", n))  BY <2>2 DEF Ask
  <2>3. CASE m \in DOMAIN asks
    <3>1. m \in unheard \/ Waits(m, 0)
      BY <1>1, <2>3 DEF LaterRequestsWait, Inv, CaptureInv, Key
    <3> QED  BY <1>2, <1>5, <3>1 DEF Waits
  <2> QED  BY <1>1, <2>1, <2>2, <2>3
<1>10. AnswersInTime'
  <2> SUFFICES ASSUME NEW i \in DOMAIN line', line'[i].kind = "response", line'[i].ask \notin late
               PROVE  /\ \A j \in DOMAIN line' :
                           /\ j < i /\ line'[j].kind = "request"
                           /\ Key(asks'[line'[j].ask]) = Key(asks'[line'[i].ask])
                           => line'[j].ask <= line'[i].ask
                      /\ asks'[line'[i].ask].code \in RegisterCodes =>
                           pending[Key(asks'[line'[i].ask])] <= line'[i].ask
    BY <1>1 DEF AnswersInTime, Key
  <2>1. i \in DOMAIN line /\ line'[i] = line[i]
    BY <1>3, <1>5
  <2>2. \A j \in DOMAIN line' : j < i => j \in DOMAIN line /\ line'[j] = line[j]
    BY <1>5, <2>1
  <2>3. \A j \in DOMAIN line : asks'[line[j].ask] = asks[line[j].ask]
    BY <1>1 DEF LineOK, Inv, WireInv
  <2>4. \A j \in DOMAIN line' :
          /\ j < i /\ line'[j].kind = "request"
          /\ Key(asks'[line'[j].ask]) = Key(asks'[line'[i].ask])
          => line'[j].ask <= line'[i].ask
    <3>1. \A j \in DOMAIN line :
            /\ j < i /\ line[j].kind = "request"
            /\ Key(asks[line[j].ask]) = Key(asks[line[i].ask])
            => line[j].ask <= line[i].ask
      BY <2>1 DEF AnswersInTime, Inv, CaptureInv
    <3>2. \A j \in DOMAIN line :
            /\ j < i /\ line[j].kind = "request"
            /\ Key(asks'[line[j].ask]) = Key(asks'[line[i].ask])
            => line[j].ask <= line[i].ask
      BY <2>1, <2>3, <3>1 DEF Key
    <3> QED  BY <2>1, <2>2, <3>2
  <2>5. asks[line[i].ask].code \in RegisterCodes => pending[Key(asks[line[i].ask])] <= line[i].ask
    BY <2>1 DEF AnswersInTime, Inv, CaptureInv
  <2> QED  BY <2>1, <2>3, <2>4, <2>5
<1> QED  BY <1>6, <1>7, <1>8, <1>9, <1>10 DEF CaptureInv

-----------------------------------------------------------------------------
(* An answer                                                               *)
LEMMA AnswerKeepsAll ==
  ASSUME Inv, NEW n \in DOMAIN asks, Answer(n)
  PROVE  Inv'
<1>1. /\ n \notin answered /\ n \in 1 .. MaxAsks /\ answered' = answered \cup {n}
      /\ asks' = asks /\ unheard' = unheard /\ pending' = pending /\ pairs' = pairs
      /\ late \subseteq late' /\ late' \subseteq late \cup {n}
  BY RtuAssumption DEF Answer, capture, Inv, TypeOK
<1>2. /\ Frame("response", n) \in Frames
      /\ Frame("response", n).kind = "response" /\ Frame("response", n).ask = n
  BY <1>1 DEF Frame, Frames
<1>3. line' = line \/ line' = Append(line, Frame("response", n))  BY DEF Answer, Arrives
<1>4. /\ line' \in Seq(Frames) /\ Len(line) \in Nat
      /\ \A i \in DOMAIN line :
           i \in DOMAIN line' /\ line'[i] = line[i] /\ i \in Nat /\ i <= Len(line)
      /\ \A i \in DOMAIN line' :
           i \in DOMAIN line \/ (i = Len(line) + 1 /\ line'[i] = Frame("response", n))
  BY <1>2, <1>3, LongerLine DEF Inv
<1>5. TypeOK'
  <2>1. answered' \subseteq 1 .. MaxAsks /\ late' \subseteq answered'  BY <1>1 DEF Inv, TypeOK
  <2> QED  BY <1>1, <1>4, <2>1 DEF Inv, TypeOK, Answer, capture
<1>6. LineOK'  BY <1>1, <1>2, <1>4 DEF LineOK, Inv, WireInv
<1>7. RequestsComeFirst'
  <2> SUFFICES ASSUME NEW i \in DOMAIN line', NEW j \in DOMAIN line', i < j,
                      line'[i].kind = "response", line'[j].kind = "request"
               PROVE  line'[i].ask # line'[j].ask
    BY DEF RequestsComeFirst
  <2>1. j \in DOMAIN line  BY <1>2, <1>4
  <2>2. i \in DOMAIN line  BY <1>4, <2>1
  <2> QED  BY <1>4, <2>1, <2>2 DEF RequestsComeFirst, Inv, WireInv
<1>8. \A m, from : Waits(m, from) => Waits(m, from)'  BY <1>4 DEF Waits
<1>9. LaterRequestsFollow'
  <2> SUFFICES ASSUME NEW i \in DOMAIN line', line'[i].kind = "request",
                      NEW m \in DOMAIN asks, m > line'[i].ask
               PROVE  m \in unheard \/ Waits(m, i)'
    BY <1>1 DEF LaterRequestsFollow
  <2>1. i \in DOMAIN line /\ line'[i] = line[i]  BY <1>2, <1>4
  <2> QED  BY <1>8, <2>1 DEF LaterRequestsFollow, Inv, WireInv
<1>10. PendingOK' /\ PairsOK'  BY <1>1 DEF PendingOK, PairsOK, Inv, CaptureInv
<1>11. LaterRequestsWait'  BY <1>1, <1>8 DEF LaterRequestsWait, Inv, CaptureInv
<1>12. PairsAreRight'  BY <1>1 DEF PairsAreRight, Inv, CaptureInv
<1>13. AnswersInTime'
  <2> SUFFICES ASSUME NEW i \in DOMAIN line', line'[i].kind = "response", line'[i].ask \notin late'
               PROVE  /\ \A j \in DOMAIN line' :
                           /\ j < i /\ line'[j].kind = "request"
                           /\ Key(asks[line'[j].ask]) = Key(asks[line'[i].ask])
                           => line'[j].ask <= line'[i].ask
                      /\ asks[line'[i].ask].code \in RegisterCodes =>
                           pending[Key(asks[line'[i].ask])] <= line'[i].ask
    BY <1>1 DEF AnswersInTime
  <2>1. \A j \in DOMAIN line' : j < i => j \in DOMAIN line /\ line'[j] = line[j]
    BY <1>4
  <2>2. CASE i \in DOMAIN line /\ line'[i] = line[i]
    BY <1>1, <2>1, <2>2 DEF AnswersInTime, Inv, CaptureInv
  <2>3. CASE line'[i] = Frame("response", n)
    <3>1. n \notin late'  BY <1>2, <2>3
    <3>2. \A m \in DOMAIN asks : Key(asks[m]) = Key(asks[n]) => m <= n
      BY <3>1 DEF Answer, Inv, TypeOK
    <3>3. \A j \in DOMAIN line' : j < i => line'[j].ask \in DOMAIN asks
      BY <2>1 DEF LineOK, Inv, WireInv
    <3>4. Key(asks[n]) \in Keys  BY DEF Keys, Inv, TypeOK
    <3>5. pending[Key(asks[n])] <= n
      <4>1. CASE pending[Key(asks[n])] = 0  BY <1>1, <4>1
      <4>2. CASE pending[Key(asks[n])] # 0
        BY <3>2, <3>4, <4>2 DEF PendingOK, Inv, CaptureInv
      <4> QED  BY <4>1, <4>2
    <3> QED  BY <1>2, <2>3, <3>2, <3>3, <3>5
  <2> QED  BY <1>4, <2>2, <2>3
<1> QED
  BY <1>5, <1>6, <1>7, <1>9, <1>10, <1>11, <1>12, <1>13 DEF Inv, WireInv, CaptureInv

-----------------------------------------------------------------------------
(* A quiet step                                                            *)
LEMMA QuietKeepsAll ==
  ASSUME Inv, Quiet, TypeOK'
  PROVE  Inv'
<1>1. /\ asks' = asks /\ answered' = answered /\ late' = late
      /\ pending' = pending \/ pending' = NoPending
      /\ pairs' = pairs \/ pairs' = <<>>
  BY DEF Quiet, wire
<1>2. PICK d \in Nat :
        /\ unheard \subseteq unheard' /\ Len(line') = Len(line) - d
        /\ \A i \in DOMAIN line' : i + d \in DOMAIN line /\ line'[i] = line[i + d]
        /\ \A i \in DOMAIN line : i <= d /\ line[i].kind = "request" => line[i].ask \in unheard'
  BY DroppedFrames DEF Inv, WireInv, Quiet
<1>3. DOMAIN line \subseteq Nat /\ DOMAIN line' \subseteq Nat  BY DEF Inv, TypeOK
<1>4. LineOK'  BY <1>1, <1>2 DEF LineOK, Inv, WireInv
<1>5. RequestsComeFirst'
  <2> SUFFICES ASSUME NEW i \in DOMAIN line', NEW j \in DOMAIN line', i < j,
                      line'[i].kind = "response", line'[j].kind = "request"
               PROVE  line'[i].ask # line'[j].ask
    BY DEF RequestsComeFirst
  <2>1. i + d < j + d  BY <1>3
  <2> QED  BY <1>2, <2>1 DEF RequestsComeFirst, Inv, WireInv
<1>6. ASSUME NEW m \in Nat, NEW from \in Nat, Waits(m, from + d) \/ (from = 0 /\ Waits(m, 0))
      PROVE  m \in unheard' \/ Waits(m, from)'
  <2>1. PICK j \in DOMAIN line : /\ j > from /\ line[j] = Frame("request", m)
                                 /\ j > from + d \/ from = 0
    BY <1>3, <1>6 DEF Waits
  <2>2. line[j].kind = "request" /\ line[j].ask = m  BY <2>1 DEF Frame
  <2>3. CASE j <= d  BY <1>2, <2>2, <2>3
  <2>4. CASE j > d
    <3>1. j - d \in DOMAIN line' /\ j - d > from
      BY <1>2, <1>3, <2>1, <2>4 DEF Inv, TypeOK
    <3>2. line'[j - d] = line[j]  BY <1>2, <1>3, <3>1
    <3> QED  BY <2>1, <3>1, <3>2 DEF Waits
  <2> QED  BY <1>3, <2>3, <2>4
<1>7. LaterRequestsFollow'
  <2> SUFFICES ASSUME NEW i \in DOMAIN line', line'[i].kind = "request",
                      NEW m \in DOMAIN asks, m > line'[i].ask
               PROVE  m \in unheard' \/ Waits(m, i)'
    BY <1>1 DEF LaterRequestsFollow
  <2>1. m \in unheard \/ Waits(m, i + d)
    BY <1>2 DEF LaterRequestsFollow, Inv, WireInv
  <2>2. m \in Nat /\ i \in Nat  BY <1>3 DEF Inv, TypeOK
  <2> QED  BY <1>2, <1>6, <2>1, <2>2
<1>8. PendingOK'
  BY <1>1 DEF PendingOK, NoPending, Inv, CaptureInv
<1>9. PairsOK'  BY <1>1 DEF PairsOK, Inv, CaptureInv
<1>10. PairsAreRight'  BY <1>1, <1>2 DEF PairsAreRight, Inv, CaptureInv
<1>11. LaterRequestsWait'
  <2> SUFFICES ASSUME NEW k \in Keys, k[2] \in RegisterCodes, pending'[k] # 0,
                      NEW m \in DOMAIN asks, m > pending'[k], Key(asks[m]) = k
               PROVE  m \in unheard' \/ Waits(m, 0)'
    BY <1>1 DEF LaterRequestsWait
  <2>1. pending'[k] = pending[k]  BY <1>1 DEF NoPending
  <2>2. m \in unheard \/ Waits(m, 0)  BY <2>1 DEF LaterRequestsWait, Inv, CaptureInv
  <2>3. m \in Nat  BY DEF Inv, TypeOK
  <2> QED  BY <1>2, <1>6, <2>2, <2>3
<1>12. AnswersInTime'
  <2> SUFFICES ASSUME NEW i \in DOMAIN line', line'[i].kind = "response", line'[i].ask \notin late
               PROVE  /\ \A j \in DOMAIN line' :
                           /\ j < i /\ line'[j].kind = "request"
                           /\ Key(asks[line'[j].ask]) = Key(asks[line'[i].ask])
                           => line'[j].ask <= line'[i].ask
                      /\ asks[line'[i].ask].code \in RegisterCodes =>
                           pending'[Key(asks[line'[i].ask])] <= line'[i].ask
    BY <1>1 DEF AnswersInTime
  <2>1. i + d \in DOMAIN line /\ line'[i] = line[i + d]  BY <1>2
  <2>2. \A j \in DOMAIN line' : j < i => j + d < i + d /\ j + d \in DOMAIN line /\ line'[j] = line[j + d]
    BY <1>2, <1>3
  <2>3. asks[line[i + d].ask] \in Queries /\ line[i + d].ask \in Nat
    BY <2>1 DEF LineOK, Inv, WireInv, TypeOK
  <2>4. Key(asks[line[i + d].ask]) \in Keys  BY <2>3 DEF Keys
  <2>5. asks[line[i + d].ask].code \in RegisterCodes =>
          pending[Key(asks[line[i + d].ask])] <= line[i + d].ask
    BY <2>1 DEF AnswersInTime, Inv, CaptureInv
  <2>6. asks[line[i + d].ask].code \in RegisterCodes =>
          pending'[Key(asks[line[i + d].ask])] <= line[i + d].ask
    BY <1>1, <2>3, <2>4, <2>5 DEF NoPending
  <2>7. \A j \in DOMAIN line' :
          /\ j < i /\ line'[j].kind = "request"
          /\ Key(asks[line'[j].ask]) = Key(asks[line'[i].ask])
          => line'[j].ask <= line'[i].ask
    BY <2>1, <2>2 DEF AnswersInTime, Inv, CaptureInv
  <2> QED  BY <2>1, <2>6, <2>7
<1> QED
  BY <1>4, <1>5, <1>7, <1>8, <1>9, <1>10, <1>11, <1>12 DEF Inv, WireInv, CaptureInv

-----------------------------------------------------------------------------
(* A frame heard.  It is the head of the line, a read of its key, and what *)
(* is behind it keeps its order.                                           *)
LEMMA HeardFrame ==
  ASSUME Inv, Hear
  PROVE  /\ Head(line) = line[1] /\ 1 \in DOMAIN line /\ line[1] \in Frames
         /\ line[1].ask \in DOMAIN asks /\ asks[line[1].ask] \in Queries
         /\ Key(asks[line[1].ask]) \in Keys
         /\ line' \in Seq(Frames)
         /\ \A i \in DOMAIN line' : i \in Nat /\ i + 1 \in DOMAIN line /\ line'[i] = line[i + 1]
         /\ \A i \in DOMAIN line : i = 1 \/ (i - 1 \in DOMAIN line' /\ line[i] = line'[i - 1])
<1>1. line \in Seq(Frames) /\ line # <<>> /\ line' = Tail(line)  BY DEF Inv, TypeOK, Hear
<1>2. Head(line) = line[1] /\ 1 \in DOMAIN line /\ line[1] \in Frames /\ line' \in Seq(Frames)
  BY <1>1
<1>3. /\ \A i \in DOMAIN line' : i \in Nat /\ i + 1 \in DOMAIN line /\ line'[i] = line[i + 1]
      /\ \A i \in DOMAIN line : i = 1 \/ (i - 1 \in DOMAIN line' /\ line[i] = line'[i - 1])
  BY <1>1
<1>4. line[1].ask \in DOMAIN asks  BY <1>2 DEF LineOK, Inv, WireInv
<1>5. asks[line[1].ask] \in Queries  BY <1>4 DEF Inv, TypeOK
<1> QED  BY <1>2, <1>3, <1>4, <1>5 DEF Keys

LEMMA HearKeepsTypes ==
  ASSUME Inv, Hear
  PROVE  TypeOK'
<1> DEFINE key == Key(asks[line[1].ask])
<1>1. /\ Head(line) = line[1] /\ line[1] \in Frames /\ key \in Keys
      /\ line[1].ask \in 1 .. MaxAsks /\ line' \in Seq(Frames)
  BY HeardFrame DEF Frames
<1>2. pending' \in [Keys -> 0 .. MaxAsks]
  <2>1. pending \in [Keys -> 0 .. MaxAsks]  BY DEF Inv, TypeOK
  <2>2. pending' = [pending EXCEPT ![key] = IF IsReadRequest(line[1]) THEN line[1].ask ELSE 0]
    BY <1>1 DEF Hear, Pair
  <2> QED  BY <1>1, <2>1, <2>2, RtuAssumption
<1>3. pairs' \in Seq([request : 1 .. MaxAsks, response : 1 .. MaxAsks])
  <2>1. CASE pairs' = pairs  BY <2>1 DEF Inv, TypeOK
  <2>2. CASE /\ pending[key] # 0
             /\ pairs' = Append(pairs, [request |-> pending[key], response |-> line[1].ask])
    <3>1. pending[key] \in 1 .. MaxAsks  BY <1>1, <2>2, RtuAssumption DEF Inv, TypeOK
    <3> QED  BY <1>1, <2>2, <3>1 DEF Inv, TypeOK
  <2> QED  BY <1>1, <2>1, <2>2 DEF Hear, Pair
<1>4. heard' \subseteq Frames  BY <1>1 DEF Hear, Inv, TypeOK
<1> QED  BY <1>1, <1>2, <1>3, <1>4 DEF Hear, Inv, TypeOK, wire

(* Its pair joins an answer to the request that waits: its own, or one     *)
(* whose own request was missed, or it is late.                            *)
LEMMA HearKeepsPairs ==
  ASSUME Inv, Hear
  PROVE  PairsOK' /\ PairsAreRight'
<1> DEFINE n == line[1].ask
           key == Key(asks[n])
           pair == [request |-> pending[key], response |-> n]
<1>1. /\ Head(line) = line[1] /\ 1 \in DOMAIN line /\ line[1] \in Frames
      /\ n \in DOMAIN asks /\ n \in Nat /\ key \in Keys /\ key[2] = asks[n].code
  BY HeardFrame DEF Inv, TypeOK, Key
<1>2. asks' = asks /\ unheard' = unheard /\ late' = late  BY DEF Hear, wire
<1>3. CASE pairs' = pairs
  BY <1>2, <1>3 DEF PairsOK, PairsAreRight, Inv, CaptureInv
<1>4. CASE IsReadResponse(line[1]) /\ pending[key] # 0 /\ pairs' = Append(pairs, pair)
  <2>1. pending[key] \in DOMAIN asks /\ Key(asks[pending[key]]) = key /\ pending[key] \in Nat
    BY <1>1, <1>4 DEF PendingOK, Inv, CaptureInv, TypeOK
  <2>2. /\ DOMAIN pairs' = DOMAIN pairs \cup {Len(pairs) + 1}
        /\ \A i \in DOMAIN pairs : pairs'[i] = pairs[i]
        /\ pairs'[Len(pairs) + 1] = pair
    BY <1>4 DEF Inv, TypeOK
  <2>3. PairsOK'
    BY <1>1, <1>2, <2>1, <2>2 DEF PairsOK, Inv, CaptureInv
  <2>4. line[1].kind = "response"
    BY <1>1, <1>4 DEF IsReadResponse, IsReadRequest, Frames
  <2>5. ASSUME asks[n].code \in RegisterCodes, n \notin late
        PROVE  pending[key] = n \/ n \in unheard
    <3>1. pending[key] <= n  BY <1>1, <2>4, <2>5 DEF AnswersInTime, Inv, CaptureInv
    <3>2. ~Waits(n, 0)
      <4> SUFFICES ASSUME NEW j \in DOMAIN line, line[j] = Frame("request", n)
                   PROVE  FALSE
        BY DEF Waits
      <4>1. line[j].kind = "request" /\ line[j].ask = n  BY DEF Frame
      <4>2. j = 1 \/ 1 < j  BY DEF Inv, TypeOK
      <4> QED  BY <1>1, <2>4, <4>1, <4>2 DEF RequestsComeFirst, Inv, WireInv
    <3>3. n > pending[key] => n \in unheard
      BY <1>1, <1>4, <2>5, <3>2 DEF LaterRequestsWait, Inv, CaptureInv
    <3> QED  BY <1>1, <2>1, <3>1, <3>3
  <2>6. PairsAreRight'
    BY <1>2, <2>2, <2>5 DEF PairsAreRight, Inv, CaptureInv
  <2> QED  BY <2>3, <2>6
<1> QED  BY <1>1, <1>3, <1>4 DEF Hear, Pair

LEMMA HearKeepsWire ==
  ASSUME Inv, Hear
  PROVE  WireInv'
<1>1. asks' = asks /\ unheard' = unheard /\ late' = late /\ answered' = answered
  BY DEF Hear, wire
<1>2. \A i \in DOMAIN line' : i \in Nat /\ i + 1 \in DOMAIN line /\ line'[i] = line[i + 1]
  BY HeardFrame
<1>3. LineOK'  BY <1>1, <1>2 DEF LineOK, Inv, WireInv
<1>4. RequestsComeFirst'  
  <2> SUFFICES ASSUME NEW i \in DOMAIN line', NEW j \in DOMAIN line', i < j,
                      line'[i].kind = "response", line'[j].kind = "request"
               PROVE  line'[i].ask # line'[j].ask
    BY DEF RequestsComeFirst
  <2>1. i + 1 < j + 1  BY <1>2
  <2> QED  BY <1>2, <2>1 DEF RequestsComeFirst, Inv, WireInv
<1>5. LaterRequestsFollow'
  <2> SUFFICES ASSUME NEW i \in DOMAIN line', line'[i].kind = "request",
                      NEW m \in DOMAIN asks, m > line'[i].ask
               PROVE  m \in unheard \/ Waits(m, i)'
    BY <1>1 DEF LaterRequestsFollow
  <2>1. m \in unheard \/ Waits(m, i + 1)
    BY <1>2 DEF LaterRequestsFollow, Inv, WireInv
  <2>2. ASSUME Waits(m, i + 1)  PROVE  Waits(m, i)'
    <3>1. PICK j \in DOMAIN line : j > i + 1 /\ line[j] = Frame("request", m)
      BY <2>2 DEF Waits
    <3>2. j - 1 \in DOMAIN line' /\ line[j] = line'[j - 1]
      BY <1>2, <3>1, HeardFrame DEF Inv, TypeOK
    <3>3. j - 1 > i  BY <1>2, <3>1 DEF Inv, TypeOK
    <3> QED  BY <3>1, <3>2, <3>3 DEF Waits
  <2> QED  BY <2>1, <2>2
<1> QED  BY <1>3, <1>4, <1>5 DEF WireInv

(* Two data bytes for each register: an answer is not taken for a request. *)
LEMMA RegistersAreNoRequest ==
  ASSUME NEW frame, asks[frame.ask] \in Queries, asks[frame.ask].code \in RegisterCodes,
         IsReadRequest(frame)
  PROVE  frame.kind = "request"
<1>1. asks[frame.ask].quantity \in Nat  BY RtuAssumption
<1>2. DataBytes(asks[frame.ask]) = 2 * asks[frame.ask].quantity  BY DEF DataBytes
<1>3. DataBytes(asks[frame.ask]) # 3  BY <1>1, <1>2
<1> QED  BY <1>3 DEF IsReadRequest

LEMMA HearKeepsPending ==
  ASSUME Inv, Hear
  PROVE  PendingOK' /\ LaterRequestsWait' /\ AnswersInTime'
<1> DEFINE n == line[1].ask
           key == Key(asks[n])
<1>1. /\ Head(line) = line[1] /\ 1 \in DOMAIN line /\ line[1] \in Frames
      /\ n \in DOMAIN asks /\ n \in Nat /\ asks[n] \in Queries
      /\ key \in Keys /\ key[2] = asks[n].code
      /\ \A i \in DOMAIN line' : i \in Nat /\ i + 1 \in DOMAIN line /\ line'[i] = line[i + 1]
      /\ \A i \in DOMAIN line : i = 1 \/ (i - 1 \in DOMAIN line' /\ line[i] = line'[i - 1])
  BY HeardFrame DEF Inv, TypeOK, Key
<1>2. asks' = asks /\ unheard' = unheard /\ late' = late  BY DEF Hear, wire
<1>3. pending' = [pending EXCEPT ![key] = IF IsReadRequest(line[1]) THEN n ELSE 0]
  BY <1>1 DEF Hear, Pair
<1>4. /\ \A k \in Keys : k # key => pending'[k] = pending[k]
      /\ pending'[key] = 0 \/ (pending'[key] = n /\ IsReadRequest(line[1]))
  BY <1>1, <1>3 DEF Inv, TypeOK
<1>5. PendingOK'
  <2> SUFFICES ASSUME NEW k \in Keys, pending'[k] # 0
               PROVE  pending'[k] \in DOMAIN asks /\ Key(asks[pending'[k]]) = k
    BY <1>2 DEF PendingOK, Key
  <2>1. CASE k = key  BY <1>1, <1>4, <2>1
  <2>2. CASE k # key  BY <1>4, <2>2 DEF PendingOK, Inv, CaptureInv
  <2> QED  BY <2>1, <2>2
<1>6. ASSUME asks[n].code \in RegisterCodes, pending'[key] # 0
      PROVE  pending'[key] = n /\ line[1].kind = "request"
  BY <1>1, <1>4, <1>6, RegistersAreNoRequest
<1>7. LaterRequestsWait'
  <2> SUFFICES ASSUME NEW k \in Keys, k[2] \in RegisterCodes, pending'[k] # 0,
                      NEW m \in DOMAIN asks, m > pending'[k], Key(asks[m]) = k
               PROVE  m \in unheard \/ Waits(m, 0)'
    BY <1>2 DEF LaterRequestsWait, Key
  <2>1. ASSUME Waits(m, 1)  PROVE  Waits(m, 0)'
    <3>1. PICK j \in DOMAIN line : j > 1 /\ line[j] = Frame("request", m)  BY <2>1 DEF Waits
    <3>2. j - 1 \in DOMAIN line' /\ line[j] = line'[j - 1] /\ j - 1 > 0
      BY <1>1, <3>1 DEF Inv, TypeOK
    <3> QED  BY <3>1, <3>2 DEF Waits
  <2>2. CASE k = key
    <3>1. m > n /\ line[1].kind = "request"  BY <1>1, <1>6, <2>2
    <3>2. m \in unheard \/ Waits(m, 1)
      BY <1>1, <3>1 DEF LaterRequestsFollow, Inv, WireInv
    <3> QED  BY <2>1, <3>2
  <2>3. CASE k # key
    <3>1. m \in unheard \/ Waits(m, 0)
      BY <1>4, <2>3 DEF LaterRequestsWait, Inv, CaptureInv
    <3>2. ASSUME NEW j \in DOMAIN line, j > 0, line[j] = Frame("request", m)  PROVE  j > 1
      <4>1. line[j].ask = m  BY <3>2 DEF Frame
      <4>2. j # 1  BY <2>3, <4>1
      <4> QED  BY <3>2, <4>2 DEF Inv, TypeOK
    <3>3. Waits(m, 0) => Waits(m, 1)  BY <3>2 DEF Waits
    <3> QED  BY <2>1, <3>1, <3>3
  <2> QED  BY <2>2, <2>3
<1>8. AnswersInTime'
  <2> SUFFICES ASSUME NEW i \in DOMAIN line', line'[i].kind = "response", line'[i].ask \notin late
               PROVE  /\ \A j \in DOMAIN line' :
                           /\ j < i /\ line'[j].kind = "request"
                           /\ Key(asks[line'[j].ask]) = Key(asks[line'[i].ask])
                           => line'[j].ask <= line'[i].ask
                      /\ asks[line'[i].ask].code \in RegisterCodes =>
                           pending'[Key(asks[line'[i].ask])] <= line'[i].ask
    BY <1>2 DEF AnswersInTime, Key
  <2> DEFINE m == line[i + 1].ask
  <2>1. i + 1 \in DOMAIN line /\ line'[i] = line[i + 1]  BY <1>1
  <2>2. \A j \in DOMAIN line' :
          j < i => j + 1 < i + 1 /\ j + 1 \in DOMAIN line /\ line'[j] = line[j + 1]
    BY <1>1
  <2>3. \A j \in DOMAIN line' :
          /\ j < i /\ line'[j].kind = "request"
          /\ Key(asks[line'[j].ask]) = Key(asks[line'[i].ask])
          => line'[j].ask <= line'[i].ask
    BY <2>1, <2>2 DEF AnswersInTime, Inv, CaptureInv
  <2>4. m \in DOMAIN asks /\ m \in Nat /\ asks[m] \in Queries
    BY <2>1 DEF LineOK, Inv, WireInv, TypeOK
  <2>5. Key(asks[m]) \in Keys  BY <2>4 DEF Keys
  <2>6. ASSUME asks[m].code \in RegisterCodes  PROVE  pending'[Key(asks[m])] <= m
    <3>1. CASE Key(asks[m]) # key
      <4>1. pending[Key(asks[m])] <= m  BY <2>1, <2>6 DEF AnswersInTime, Inv, CaptureInv
      <4> QED  BY <1>4, <2>5, <3>1, <4>1
    <3>2. CASE Key(asks[m]) = key /\ pending'[key] # 0
      <4>1. asks[n].code \in RegisterCodes  BY <2>6, <3>2 DEF Key
      <4>2. pending'[key] = n /\ line[1].kind = "request"  BY <1>6, <3>2, <4>1
      <4>3. 1 < i + 1
        <5>1. line' \in Seq(Frames)  BY HeardFrame
        <5> QED  BY <5>1
      <4>4. n <= m
        BY <1>1, <2>1, <3>2, <4>2, <4>3 DEF AnswersInTime, Inv, CaptureInv
      <4> QED  BY <3>2, <4>2, <4>4
    <3>3. CASE Key(asks[m]) = key /\ pending'[key] = 0  BY <2>4, <3>3
    <3> QED  BY <3>1, <3>2, <3>3
  <2> QED  BY <2>1, <2>3, <2>6
<1> QED  BY <1>5, <1>7, <1>8

-----------------------------------------------------------------------------
LEMMA QuietKeepsTypes ==
  ASSUME Inv, Next, Quiet
  PROVE  TypeOK'
<1> USE DEF capture, wire
<1>1. line' \in Seq(Frames) /\ unheard' \subseteq 1 .. MaxAsks
  BY DroppedFrames DEF Inv, WireInv, Quiet
<1>2. /\ pending' \in [Keys -> 0 .. MaxAsks]
      /\ pairs' \in Seq([request : 1 .. MaxAsks, response : 1 .. MaxAsks])
  <2>1. NoPending \in [Keys -> 0 .. MaxAsks]  BY RtuAssumption DEF NoPending
  <2>2. pending' \in [Keys -> 0 .. MaxAsks]  BY <2>1 DEF Inv, TypeOK, Quiet
  <2> DEFINE PairSet == [request : 1 .. MaxAsks, response : 1 .. MaxAsks]
  <2>3. pairs' \in Seq(PairSet)
    <3>1. pairs \in Seq(PairSet) /\ <<>> \in Seq(PairSet)  BY DEF Inv, TypeOK
    <3>2. pairs' = pairs \/ pairs' = <<>>  BY DEF Quiet
    <3> HIDE DEF PairSet
    <3> QED  BY <3>1, <3>2
  <2> QED  BY <2>2, <2>3
<1>3. /\ asks' \in Seq(Queries) /\ Len(asks') <= MaxAsks
      /\ answered' \subseteq 1 .. MaxAsks /\ late' \subseteq answered'
  BY DEF Inv, TypeOK, Quiet
<1> DEFINE Rest == /\ driver' \in {"closed", "open", "capturing"} /\ probing' \in BOOLEAN
                   /\ heard' \subseteq Frames /\ found' \subseteq {q.unit : q \in Queries}
<1>4. Rest
  <2> USE DEF Inv, TypeOK
  <2>1. CASE \E q \in Queries : Ask(q)  BY <2>1 DEF Ask
  <2>2. CASE \E n \in DOMAIN asks : Answer(n)  BY <2>2 DEF Answer
  <2>3. CASE Connect  BY <2>3 DEF Connect
  <2>4. CASE StartCapture  BY <2>4 DEF StartCapture
  <2>5. CASE Hear
    <3>1. heard' \subseteq Frames  BY <2>5, HearKeepsTypes DEF TypeOK
    <3> QED  BY <2>5, <3>1 DEF Hear
  <2>6. CASE EndCapture  BY <2>6 DEF EndCapture
  <2>7. CASE Disconnect  BY <2>7 DEF Disconnect
  <2>8. CASE StartProbe  BY <2>8 DEF StartProbe
  <2>9. CASE ProbeHears
    <3>1. line[1].ask \in DOMAIN asks /\ Head(line) = line[1]
      BY <2>9 DEF ProbeHears, LineOK, WireInv
    <3>2. asks[Head(line).ask] \in Queries  BY <3>1
    <3> QED  BY <2>9, <3>2 DEF ProbeHears
  <2>10. CASE EndProbe  BY <2>10 DEF EndProbe
  <2> QED  BY <2>1, <2>2, <2>3, <2>4, <2>5, <2>6, <2>7, <2>8, <2>9, <2>10 DEF Next
<1> QED  BY <1>1, <1>2, <1>3, <1>4 DEF TypeOK

LEMMA InitInv == Init => Inv
<1> SUFFICES ASSUME Init PROVE Inv
  OBVIOUS
<1> USE RtuAssumption DEF Init
<1>1. TypeOK
  <2>1. pending \in [Keys -> 0 .. MaxAsks]  BY DEF NoPending
  <2>2. line \in Seq(Frames) /\ asks \in Seq(Queries) /\ Len(asks) <= MaxAsks  OBVIOUS
  <2>3. pairs \in Seq([request : 1 .. MaxAsks, response : 1 .. MaxAsks])  OBVIOUS
  <2> QED  BY <2>1, <2>2, <2>3 DEF TypeOK
<1>2. WireInv  BY DEF WireInv, LineOK, RequestsComeFirst, LaterRequestsFollow
<1>3. CaptureInv
  BY DEF CaptureInv, PendingOK, PairsOK, LaterRequestsWait, AnswersInTime, PairsAreRight, NoPending
<1> QED  BY <1>1, <1>2, <1>3 DEF Inv

LEMMA NextInv == Inv /\ [Next]_vars => Inv'
<1> SUFFICES ASSUME Inv, [Next]_vars PROVE Inv'
  OBVIOUS
<1>1. CASE \E q \in Queries : Ask(q)
  BY <1>1, AskKeepsTypes, AskKeepsWire, AskKeepsCapture DEF Inv
<1>2. CASE \E n \in DOMAIN asks : Answer(n)  BY <1>2, AnswerKeepsAll
<1>3. CASE Hear
  BY <1>3, HearKeepsTypes, HearKeepsWire, HearKeepsPairs, HearKeepsPending DEF Inv, CaptureInv
<1>4. CASE Next /\ Quiet  BY <1>4, QuietKeepsTypes, QuietKeepsAll
<1>5. CASE UNCHANGED vars
  BY <1>5 DEF vars, capture, wire, Inv, TypeOK, WireInv, LineOK, RequestsComeFirst,
              LaterRequestsFollow, Waits, CaptureInv, PendingOK, PairsOK, LaterRequestsWait,
              AnswersInTime, PairsAreRight
<1> QED  BY <1>1, <1>2, <1>3, <1>4, <1>5, StepsAreFew DEF Inv

LEMMA InvHolds == Spec => []Inv
  BY InitInv, NextInv, PTL DEF Spec

-----------------------------------------------------------------------------
(* The variables of bus, driver and probe keep their types, whatever reads *)
(* the master makes and whatever frames are lost.                          *)
THEOREM RtuTypeCorrect == Spec => []TypeOK
<1>1. Inv => TypeOK  BY DEF Inv
<1> QED  BY <1>1, InvHolds, PTL

(* A tag has registers of another address only after a missed request or a *)
(* late answer: what _drain_request_response_pairs pairs is otherwise one  *)
(* read, and the tag's offset in it is that of its address.                *)
THEOREM WrongRegistersOnlyAfterAMiss == Spec => []WrongRegistersNeedAMiss
<1>1. ASSUME Inv  PROVE  WrongRegistersNeedAMiss
  <2> SUFFICES ASSUME NEW tag \in Tags, NEW i \in PairFor(tag),
                      DecodedFrom(tag, i) # tag.address
               PROVE  pairs[i].response \in unheard \cup late
    BY DEF WrongRegistersNeedAMiss
  <2>1. i \in DOMAIN pairs /\ tag.code \in RegisterCodes /\ Key(QueryOf(i))[2] = tag.code
    BY DEF PairFor, Candidates, Covers
  <2>2. pairs[i].request \in DOMAIN asks /\ pairs[i].response \in DOMAIN asks
        /\ Key(asks[pairs[i].request]) = Key(asks[pairs[i].response])
    BY <1>1, <2>1 DEF Inv, CaptureInv, PairsOK
  <2>3. asks[pairs[i].response].code \in RegisterCodes
    BY <2>1, <2>2 DEF QueryOf, Key
  <2>4. pairs[i].request # pairs[i].response
    <3> SUFFICES ASSUME pairs[i].request = pairs[i].response
                 PROVE  DecodedFrom(tag, i) = tag.address
      OBVIOUS
    <3>1. asks[pairs[i].request].start \in Nat /\ tag.address \in Nat
      <4>1. asks[pairs[i].request] \in Queries  BY <1>1, <2>2 DEF Inv, TypeOK
      <4> QED  BY <4>1, RtuAssumption
    <3> QED  BY <3>1 DEF DecodedFrom, Offset, QueryOf
  <2> QED  BY <1>1, <2>1, <2>3, <2>4 DEF Inv, CaptureInv, PairsAreRight
<1> QED  BY <1>1, InvHolds, PTL

-----------------------------------------------------------------------------
(* What a capture finds for a read that it has heard as a whole            *)

(* What may be said if frame f came before frame g.                        *)
InOrder(f, g) ==
  /\ g.kind = "request" => f.ask < g.ask
  /\ g.kind = "response" /\ g.ask \notin late /\ Key(asks[f.ask]) = Key(asks[g.ask]) =>
       f.ask <= g.ask /\ (f.kind = "response" => f.ask # g.ask)

FramesInOrder ==
  \A j \in DOMAIN line :
    /\ \A f \in heard : InOrder(f, line[j])
    /\ \A i \in DOMAIN line : i < j => InOrder(line[i], line[j])

HeardOK == \A f \in heard : f.ask \in DOMAIN asks /\ (f.kind = "response" => f.ask \in answered)

PairsHeard == \A i \in DOMAIN pairs : Frame("response", pairs[i].response) \in heard

PairsInOrder ==
  \A i, j \in DOMAIN pairs :
    /\ i < j /\ Key(asks[pairs[i].response]) = Key(asks[pairs[j].response])
    /\ pairs[j].response \notin late
    => pairs[i].response < pairs[j].response

(* The answer of read n may still come in time, or is on the line.         *)
OnItsWay(n) ==
  /\ n \notin late
  /\ \/ n \notin answered /\ \A m \in DOMAIN asks : m > n => Key(asks[m]) # Key(asks[n])
     \/ \E j \in DOMAIN line : line[j] = Frame("response", n)

HeardInTime == \A f \in heard : f.ask \notin late

Requests(n) == asks[n].code \in RegisterCodes /\ Frame("request", n) \in heard

(* A request that was heard waits for its answer.                          *)
RequestWaits ==
  driver = "capturing" /\ HeardInTime =>
    \A n \in DOMAIN asks : Requests(n) /\ OnItsWay(n) => pending[Key(asks[n])] = n

(* A read that was heard as a whole has its pair.                          *)
WholePaired ==
  HeardInTime =>
    \A n \in DOMAIN asks : Requests(n) /\ Frame("response", n) \in heard =>
      \E i \in DOMAIN pairs : pairs[i] = [request |-> n, response |-> n]

OrderInv == HeardOK /\ FramesInOrder /\ PairsHeard /\ PairsInOrder /\ RequestWaits /\ WholePaired

-----------------------------------------------------------------------------
(* A step that makes no read, hears no frame, and either keeps the capture *)
(* or empties it.                                                          *)
QuietCapture ==
  /\ Dropped /\ UNCHANGED wire
  /\ \/ heard' = heard /\ pairs' = pairs
     \/ heard' = {} /\ pairs' = <<>>
  /\ driver' = "capturing" /\ heard' # {} => driver = "capturing" /\ pending' = pending

LEMMA CaptureStepsAreFew ==
  ASSUME TypeOK, [Next]_vars
  PROVE  \/ \E q \in Queries : Ask(q)
         \/ \E n \in DOMAIN asks : Answer(n)
         \/ Hear
         \/ QuietCapture
<1> USE DEF QuietCapture, Dropped, wire, capture
<1>1. CASE UNCHANGED vars  BY <1>1 DEF vars
<1>2. CASE Connect  BY <1>2 DEF Connect
<1>3. CASE StartCapture  BY <1>3 DEF StartCapture
<1>4. CASE EndCapture  BY <1>4 DEF EndCapture
<1>5. CASE Disconnect  BY <1>5 DEF Disconnect
<1>6. CASE StartProbe  BY <1>6 DEF StartProbe
<1>7. CASE ProbeHears  BY <1>7 DEF ProbeHears
<1>8. CASE EndProbe  BY <1>8 DEF EndProbe
<1> QED
  BY <1>1, <1>2, <1>3, <1>4, <1>5, <1>6, <1>7, <1>8 DEF Next

LEMMA AskKeepsOrder ==
  ASSUME Inv, OrderInv, NEW q \in Queries, Ask(q)
  PROVE  OrderInv'
<1> DEFINE n == Len(asks) + 1
           frame == Frame("request", n)
<1>1. /\ DOMAIN asks' = DOMAIN asks \cup {n} /\ n \notin DOMAIN asks /\ n \in Nat
      /\ \A m \in DOMAIN asks : asks'[m] = asks[m] /\ m \in Nat /\ m < n
      /\ pending' = pending /\ pairs' = pairs /\ heard' = heard /\ driver' = driver
      /\ late' = late /\ answered' = answered
  BY DEF Ask, Inv, TypeOK, capture
<1>2. frame \in Frames /\ frame.kind = "request" /\ frame.ask = n
  BY RtuAssumption DEF Frame, Frames, Ask, Inv, TypeOK
<1>3. line' = line \/ line' = Append(line, frame)  BY DEF Ask, Arrives
<1>4. /\ \A i \in DOMAIN line :
           i \in DOMAIN line' /\ line'[i] = line[i] /\ i \in Nat /\ i <= Len(line)
      /\ \A i \in DOMAIN line' : i \in DOMAIN line \/ (i = Len(line) + 1 /\ line'[i] = frame)
      /\ Len(line) \in Nat
  BY <1>2, <1>3, LongerLine DEF Inv
<1>5. \A i \in DOMAIN line : line[i].ask \in DOMAIN asks  BY DEF LineOK, Inv, WireInv
<1>6. \A f \in heard : f.ask \in DOMAIN asks  BY DEF HeardOK, OrderInv
<1>9. HeardOK'  BY <1>1 DEF HeardOK, OrderInv
<1>10. FramesInOrder'
  <2> SUFFICES ASSUME NEW j \in DOMAIN line'
               PROVE  /\ \A f \in heard : InOrder(f, line[j])'
                      /\ \A i \in DOMAIN line' : i < j => InOrder(line[i], line[j])'
    BY <1>1 DEF FramesInOrder
  <2>1. CASE j \in DOMAIN line
    <3>1. \A i \in DOMAIN line' : i < j => i \in DOMAIN line  BY <1>4, <2>1
    <3>2. \A i \in DOMAIN line : i < j => InOrder(line[i], line[j])
      BY <2>1 DEF FramesInOrder, OrderInv
    <3>3. \A f \in heard : InOrder(f, line[j])
      BY <2>1 DEF FramesInOrder, OrderInv
    <3>4. line'[j] = line[j] /\ line[j].ask \in DOMAIN asks  BY <1>4, <1>5, <2>1
    <3>5. \A f : f.ask \in DOMAIN asks /\ InOrder(f, line[j]) => InOrder(f, line[j])'
      BY <1>1, <3>4 DEF InOrder, Key
    <3>6. \A i \in DOMAIN line : i < j => InOrder(line[i], line[j])'
      BY <1>1, <1>4, <1>5, <3>2, <3>4 DEF InOrder, Key
    <3> QED  BY <1>6, <3>1, <3>3, <3>5, <3>6
  <2>2. CASE j = Len(line) + 1 /\ line'[j] = frame
    <3>1. \A i \in DOMAIN line' : i < j => i \in DOMAIN line /\ line'[i] = line[i]
      BY <1>4, <2>2
    <3>2. \A i \in DOMAIN line' : i < j => line'[i].ask < n  BY <1>1, <1>5, <3>1
    <3>3. \A f \in heard : f.ask < n  BY <1>1, <1>6
    <3> QED  BY <1>2, <2>2, <3>2, <3>3 DEF InOrder
  <2> QED  BY <1>4, <2>1, <2>2
<1>11. PairsHeard' /\ PairsInOrder'
  <2>1. \A i \in DOMAIN pairs : pairs[i].response \in DOMAIN asks
    BY DEF PairsOK, Inv, CaptureInv
  <2> QED  BY <1>1, <2>1 DEF PairsHeard, PairsInOrder, OrderInv, Key
<1>12. \A m : Frame("request", m) \in heard => m \in DOMAIN asks
  BY <1>6 DEF Frame
<1>13. RequestWaits'
  <2> SUFFICES ASSUME driver = "capturing", HeardInTime,
                      NEW m \in DOMAIN asks, Requests(m), OnItsWay(m)'
               PROVE  pending[Key(asks[m])] = m
    BY <1>1, <1>12 DEF RequestWaits, HeardInTime, Requests, Key
  <2>1. OnItsWay(m)
    <3>1. ASSUME NEW j \in DOMAIN line', line'[j] = Frame("response", m)
          PROVE  j \in DOMAIN line /\ line[j] = Frame("response", m)
      BY <1>2, <1>4, <3>1 DEF Frame
    <3> QED  BY <1>1, <3>1 DEF OnItsWay, Key
  <2> QED  BY <2>1 DEF RequestWaits, OrderInv
<1>14. WholePaired'
  BY <1>1, <1>12 DEF WholePaired, OrderInv, HeardInTime, Requests
<1> QED  BY <1>9, <1>10, <1>11, <1>13, <1>14 DEF OrderInv

LEMMA AnswerKeepsOrder ==
  ASSUME Inv, OrderInv, NEW n \in DOMAIN asks, Answer(n)
  PROVE  OrderInv'
<1> DEFINE frame == Frame("response", n)
<1>1. /\ n \notin answered /\ n \in 1 .. MaxAsks /\ answered' = answered \cup {n}
      /\ asks' = asks /\ pending' = pending /\ pairs' = pairs /\ heard' = heard
      /\ driver' = driver /\ late \subseteq late'
      /\ DOMAIN asks \subseteq Nat
  BY RtuAssumption DEF Answer, capture, Inv, TypeOK
<1>2. frame \in Frames /\ frame.kind = "response" /\ frame.ask = n
  BY <1>1 DEF Frame, Frames
<1>3. line' = line \/ line' = Append(line, frame)  BY DEF Answer, Arrives
<1>4. /\ \A i \in DOMAIN line :
           i \in DOMAIN line' /\ line'[i] = line[i] /\ i \in Nat /\ i <= Len(line)
      /\ \A i \in DOMAIN line' : i \in DOMAIN line \/ (i = Len(line) + 1 /\ line'[i] = frame)
      /\ Len(line) \in Nat
  BY <1>2, <1>3, LongerLine DEF Inv
<1>5. n \notin late' => \A m \in DOMAIN asks : Key(asks[m]) = Key(asks[n]) => m <= n
  BY <1>1 DEF Answer
<1>6. ASSUME NEW f, f.ask \in DOMAIN asks, f.kind = "response" => f.ask \in answered
      PROVE  InOrder(f, frame)'
  BY <1>1, <1>2, <1>5, <1>6 DEF InOrder
<1>7. HeardOK'  BY <1>1 DEF HeardOK, OrderInv
<1>8. \A f \in heard : f.ask \in DOMAIN asks /\ (f.kind = "response" => f.ask \in answered)
  BY DEF HeardOK, OrderInv
<1>9. \A i \in DOMAIN line :
        line[i].ask \in DOMAIN asks /\ (line[i].kind = "response" => line[i].ask \in answered)
  BY DEF LineOK, Inv, WireInv
<1>10. FramesInOrder'
  <2> SUFFICES ASSUME NEW j \in DOMAIN line'
               PROVE  /\ \A f \in heard : InOrder(f, line[j])'
                      /\ \A i \in DOMAIN line' : i < j => InOrder(line[i], line[j])'
    BY <1>1 DEF FramesInOrder
  <2>1. CASE j \in DOMAIN line
    <3>1. \A i \in DOMAIN line' : i < j => i \in DOMAIN line /\ line'[i] = line[i]
      BY <1>4, <2>1
    <3>2. \A i \in DOMAIN line : i < j => InOrder(line[i], line[j])
      BY <2>1 DEF FramesInOrder, OrderInv
    <3>3. \A f \in heard : InOrder(f, line[j])
      BY <2>1 DEF FramesInOrder, OrderInv
    <3>4. line'[j] = line[j]  BY <1>4, <2>1
    <3> QED  BY <1>1, <3>1, <3>2, <3>3, <3>4 DEF InOrder
  <2>2. CASE j = Len(line) + 1 /\ line'[j] = frame
    <3>1. \A i \in DOMAIN line' : i < j => i \in DOMAIN line /\ line'[i] = line[i]
      BY <1>4, <2>2
    <3>2. \A i \in DOMAIN line' : i < j => InOrder(line[i], line[j])'
      BY <1>1, <1>2, <1>5, <1>9, <2>2, <3>1 DEF InOrder
    <3>3. \A f \in heard : InOrder(f, line[j])'
      BY <1>1, <1>2, <1>5, <1>8, <2>2 DEF InOrder
    <3> QED  BY <3>2, <3>3
  <2> QED  BY <1>4, <2>1, <2>2
<1>11. PairsHeard' /\ PairsInOrder'  BY <1>1 DEF PairsHeard, PairsInOrder, OrderInv
<1>12. HeardInTime' => HeardInTime  BY <1>1 DEF HeardInTime
<1>13. RequestWaits'
  <2> SUFFICES ASSUME driver = "capturing", HeardInTime,
                      NEW m \in DOMAIN asks, Requests(m), OnItsWay(m)'
               PROVE  pending[Key(asks[m])] = m
    BY <1>1, <1>12 DEF RequestWaits, Requests
  <2>1. OnItsWay(m)
    <3>1. ASSUME NEW j \in DOMAIN line', line'[j] = Frame("response", m)
          PROVE  m = n \/ (j \in DOMAIN line /\ line[j] = Frame("response", m))
      BY <1>2, <1>4, <3>1 DEF Frame
    <3>2. CASE m = n /\ m \notin late'
      BY <1>1, <1>5, <3>2 DEF OnItsWay
    <3> QED  BY <1>1, <3>1, <3>2 DEF OnItsWay
  <2> QED  BY <2>1 DEF RequestWaits, OrderInv
<1>14. WholePaired'
  BY <1>1, <1>12 DEF WholePaired, OrderInv, Requests
<1> QED  BY <1>7, <1>10, <1>11, <1>13, <1>14 DEF OrderInv

LEMMA QuietKeepsOrder ==
  ASSUME Inv, OrderInv, QuietCapture
  PROVE  OrderInv'
<1>1. /\ asks' = asks /\ answered' = answered /\ late' = late
      /\ heard' \subseteq heard
      /\ (heard' = heard /\ pairs' = pairs) \/ (heard' = {} /\ pairs' = <<>>)
  BY DEF QuietCapture, wire
<1>2. PICK d \in Nat :
        \A i \in DOMAIN line' : i + d \in DOMAIN line /\ line'[i] = line[i + d]
  BY DroppedFrames DEF Inv, WireInv, QuietCapture
<1>3. line' \in Seq(Frames)  BY DroppedFrames DEF Inv, WireInv, QuietCapture
<1>4. DOMAIN line' \subseteq Nat  BY <1>3
<1>5. HeardOK'  BY <1>1 DEF HeardOK, OrderInv
<1>6. FramesInOrder'
  <2>1. \A i, j \in DOMAIN line' : i < j => i + d < j + d  BY <1>4
  <2> QED  BY <1>1, <1>2, <2>1 DEF FramesInOrder, OrderInv, InOrder
<1>7. PairsHeard' /\ PairsInOrder'  BY <1>1 DEF PairsHeard, PairsInOrder, OrderInv
<1>8. RequestWaits'
  <2> SUFFICES ASSUME driver' = "capturing", HeardInTime',
                      NEW m \in DOMAIN asks, Requests(m)', OnItsWay(m)'
               PROVE  pending'[Key(asks[m])] = m
    BY <1>1 DEF RequestWaits
  <2>1. driver = "capturing" /\ pending' = pending /\ heard' = heard
    BY <1>1 DEF QuietCapture, Requests
  <2>2. OnItsWay(m)  BY <1>1, <1>2 DEF OnItsWay
  <2> QED  BY <1>1, <2>1, <2>2 DEF RequestWaits, OrderInv, HeardInTime, Requests
<1>9. WholePaired'
  BY <1>1 DEF WholePaired, OrderInv, HeardInTime, Requests
<1> QED  BY <1>5, <1>6, <1>7, <1>8, <1>9 DEF OrderInv

(* A frame heard comes behind those of the capture and before the line.    *)
LEMMA HearKeepsFrames ==
  ASSUME Inv, OrderInv, Hear
  PROVE  /\ HeardOK' /\ FramesInOrder' /\ PairsHeard' /\ PairsInOrder'
         /\ \A i \in DOMAIN pairs : i \in DOMAIN pairs' /\ pairs'[i] = pairs[i]
<1> DEFINE n == line[1].ask
           key == Key(asks[n])
           pair == [request |-> pending[key], response |-> n]
<1>1. /\ Head(line) = line[1] /\ 1 \in DOMAIN line /\ line[1] \in Frames /\ n \in DOMAIN asks
      /\ \A i \in DOMAIN line' : i \in Nat /\ i + 1 \in DOMAIN line /\ line'[i] = line[i + 1]
  BY HeardFrame
<1>2. asks' = asks /\ late' = late /\ answered' = answered  BY DEF Hear, wire
<1>3. heard' = heard \cup {line[1]}  BY <1>1 DEF Hear
<1>4. line[1].kind = "response" => n \in answered  BY <1>1 DEF LineOK, Inv, WireInv
<1>5. HeardOK'  BY <1>1, <1>2, <1>3, <1>4 DEF HeardOK, OrderInv
<1>6. FramesInOrder'
  <2> SUFFICES ASSUME NEW j \in DOMAIN line'
               PROVE  /\ \A f \in heard \cup {line[1]} : InOrder(f, line[j])'
                      /\ \A i \in DOMAIN line' : i < j => InOrder(line[i], line[j])'
    BY <1>3 DEF FramesInOrder
  <2>1. j + 1 \in DOMAIN line /\ line'[j] = line[j + 1]  BY <1>1
  <2>2. \A i \in DOMAIN line' : i < j => i + 1 < j + 1  BY <1>1
  <2>3. 1 < j + 1
    <3>1. line' \in Seq(Frames)  BY HeardFrame
    <3> QED  BY <3>1
  <2>4. \A f \in heard : InOrder(f, line[j + 1])  BY <2>1 DEF FramesInOrder, OrderInv
  <2>5. InOrder(line[1], line[j + 1])  BY <1>1, <2>1, <2>3 DEF FramesInOrder, OrderInv
  <2>6. \A i \in DOMAIN line' : i < j => InOrder(line[i + 1], line[j + 1])
    BY <1>1, <2>1, <2>2 DEF FramesInOrder, OrderInv
  <2> QED  BY <1>1, <1>2, <2>1, <2>4, <2>5, <2>6 DEF InOrder
<1>7. CASE pairs' = pairs
  BY <1>2, <1>3, <1>5, <1>6, <1>7 DEF PairsHeard, PairsInOrder, OrderInv
<1>8. CASE IsReadResponse(line[1]) /\ pairs' = Append(pairs, pair)
  <2>1. /\ DOMAIN pairs' = DOMAIN pairs \cup {Len(pairs) + 1}
        /\ \A i \in DOMAIN pairs : pairs'[i] = pairs[i] /\ i <= Len(pairs) /\ i \in Nat
        /\ pairs'[Len(pairs) + 1] = pair /\ Len(pairs) \in Nat
    BY <1>8 DEF Inv, TypeOK
  <2>2. line[1] = Frame("response", n) /\ line[1].kind = "response"
    <3>1. line[1].kind = "response"
      BY <1>1, <1>8 DEF IsReadResponse, IsReadRequest, Frames
    <3> QED  BY <1>1, <3>1 DEF Frames, Frame
  <2>3. PairsHeard'  BY <1>3, <2>1, <2>2 DEF PairsHeard, OrderInv
  <2>4. ASSUME NEW i \in DOMAIN pairs, Key(asks[pairs[i].response]) = key, n \notin late
        PROVE  pairs[i].response < n
    <3>1. Frame("response", pairs[i].response) \in heard  BY DEF PairsHeard, OrderInv
    <3>2. InOrder(Frame("response", pairs[i].response), line[1])
      BY <1>1, <3>1 DEF FramesInOrder, OrderInv
    <3>3. pairs[i].response \in DOMAIN asks  BY DEF PairsOK, Inv, CaptureInv
    <3> QED  BY <1>1, <2>2, <2>4, <3>2, <3>3 DEF InOrder, Frame, Inv, TypeOK
  <2>5. PairsInOrder'
    <3> SUFFICES ASSUME NEW i \in DOMAIN pairs', NEW j \in DOMAIN pairs', i < j,
                        Key(asks[pairs'[i].response]) = Key(asks[pairs'[j].response]),
                        pairs'[j].response \notin late
                 PROVE  pairs'[i].response < pairs'[j].response
      BY <1>2 DEF PairsInOrder, Key
    <3>1. i \in DOMAIN pairs  BY <2>1
    <3>2. CASE j \in DOMAIN pairs  BY <2>1, <3>1, <3>2 DEF PairsInOrder, OrderInv
    <3>3. CASE j = Len(pairs) + 1  BY <2>1, <2>4, <3>1, <3>3
    <3> QED  BY <2>1, <3>2, <3>3
  <2> QED  BY <1>5, <1>6, <2>1, <2>3, <2>5
<1> QED  BY <1>1, <1>7, <1>8 DEF Hear, Pair

(* It does not take the place of a request whose answer is on its way, and *)
(* the answer of a request that waits makes their pair.                    *)
LEMMA HearKeepsRequests ==
  ASSUME Inv, OrderInv, Hear
  PROVE  RequestWaits' /\ WholePaired'
<1> DEFINE m == line[1].ask
           key == Key(asks[m])
<1>1. /\ Head(line) = line[1] /\ 1 \in DOMAIN line /\ line[1] \in Frames
      /\ m \in DOMAIN asks /\ m \in Nat /\ asks[m] \in Queries /\ key \in Keys
      /\ \A i \in DOMAIN line' : i \in Nat /\ i + 1 \in DOMAIN line /\ line'[i] = line[i + 1]
  BY HeardFrame DEF Inv, TypeOK
<1>2. asks' = asks /\ late' = late /\ answered' = answered /\ driver = "capturing"
  BY DEF Hear, wire
<1>3. heard' = heard \cup {line[1]}  BY <1>1 DEF Hear
<1>4. line[1] = Frame(line[1].kind, m) /\ line[1].kind \in {"request", "response"}
  BY <1>1 DEF Frames, Frame
<1>5. line[1].kind = "response" => m \in answered  BY <1>1 DEF LineOK, Inv, WireInv
<1>6. HeardInTime' => HeardInTime /\ m \notin late  BY <1>2, <1>3 DEF HeardInTime
<1>7. pending' = [pending EXCEPT ![key] = IF IsReadRequest(line[1]) THEN m ELSE 0]
  BY <1>1 DEF Hear, Pair
<1>8. \A k \in Keys : pending'[k] = IF k # key THEN pending[k]
                                    ELSE IF IsReadRequest(line[1]) THEN m ELSE 0
  BY <1>1, <1>7 DEF Inv, TypeOK
<1>9. \A n \in DOMAIN asks : n \in Nat /\ Key(asks[n]) \in Keys
  BY DEF Inv, TypeOK, Keys
<1>10. ASSUME NEW n \in DOMAIN asks, Frame("request", n) \in heard
       PROVE  /\ line[1].kind = "request" => n < m
              /\ line[1].kind = "response" /\ m \notin late /\ Key(asks[n]) = key => n <= m
  <2>1. InOrder(Frame("request", n), line[1])
    BY <1>1, <1>10 DEF FramesInOrder, OrderInv
  <2> QED  BY <2>1 DEF InOrder, Frame
<1>11. ASSUME NEW n \in DOMAIN asks, NEW j \in DOMAIN line', line'[j] = Frame("response", n),
              n \notin late, Key(asks[n]) = key
       PROVE  m <= n /\ (line[1].kind = "response" => m # n)
  <2>1. j + 1 \in DOMAIN line /\ line[j + 1] = Frame("response", n)  BY <1>1, <1>11
  <2>2. 1 < j + 1
    <3>1. line' \in Seq(Frames)  BY HeardFrame
    <3> QED  BY <3>1
  <2>3. InOrder(line[1], line[j + 1])  BY <1>1, <2>1, <2>2 DEF FramesInOrder, OrderInv
  <2> QED  BY <1>11, <2>1, <2>3 DEF InOrder, Frame
<1>12. RequestWaits'
  <2> SUFFICES ASSUME HeardInTime', NEW n \in DOMAIN asks, Requests(n)', OnItsWay(n)'
               PROVE  pending'[Key(asks[n])] = n
    BY <1>2 DEF RequestWaits
  <2>1. CASE Frame("request", n) = line[1]
    <3>1. n = m /\ IsReadRequest(line[1])  BY <2>1 DEF Frame, IsReadRequest
    <3> QED  BY <1>1, <1>8, <3>1
  <2>2. CASE Frame("request", n) \in heard
    <3>1. Requests(n)  BY <1>2, <2>2 DEF Requests
    <3>2. OnItsWay(n)  BY <1>1, <1>2 DEF OnItsWay
    <3>3. pending[Key(asks[n])] = n
      BY <1>2, <1>6, <3>1, <3>2 DEF RequestWaits, OrderInv
    <3>4. Key(asks[n]) # key
      <4> SUFFICES ASSUME Key(asks[n]) = key  PROVE  FALSE
        OBVIOUS
      <4>1. n < m \/ (line[1].kind = "response" /\ n <= m)
        BY <1>4, <1>6, <1>10, <2>2
      <4>2. CASE n \notin answered /\ \A l \in DOMAIN asks : l > n => Key(asks[l]) # Key(asks[n])
        BY <1>1, <1>5, <1>9, <4>1, <4>2
      <4>3. CASE \E j \in DOMAIN line' : line'[j] = Frame("response", n)
        <5>1. n \notin late  BY <1>2 DEF OnItsWay
        <5>2. m <= n /\ (line[1].kind = "response" => m # n)  BY <1>11, <4>3, <5>1
        <5> QED  BY <1>1, <1>9, <4>1, <5>2
      <4> QED  BY <1>2, <4>2, <4>3 DEF OnItsWay
    <3> QED  BY <1>8, <1>9, <3>3, <3>4
  <2> QED  BY <1>3, <2>1, <2>2 DEF Requests
<1>13. WholePaired'
  <2> SUFFICES ASSUME HeardInTime', NEW n \in DOMAIN asks, Requests(n)',
                      Frame("response", n) \in heard'
               PROVE  \E i \in DOMAIN pairs' : pairs'[i] = [request |-> n, response |-> n]
    BY <1>2 DEF WholePaired
  <2>1. CASE Frame("request", n) \in heard /\ Frame("response", n) \in heard
    <3>1. Requests(n)  BY <1>2, <2>1 DEF Requests
    <3>2. PICK i \in DOMAIN pairs : pairs[i] = [request |-> n, response |-> n]
      BY <1>6, <2>1, <3>1 DEF WholePaired, OrderInv
    <3> QED  BY <3>2, HearKeepsFrames
  <2>2. CASE Frame("request", n) \in heard /\ Frame("response", n) = line[1]
    <3>1. n = m /\ line[1].kind = "response"  BY <2>2 DEF Frame
    <3>2. Requests(n) /\ asks[m].code \in RegisterCodes  BY <1>2, <2>2, <3>1 DEF Requests
    <3>3. OnItsWay(n)  BY <1>1, <1>6, <2>2, <3>1 DEF OnItsWay
    <3>4. pending[key] = m
      BY <1>2, <1>6, <3>1, <3>2, <3>3 DEF RequestWaits, OrderInv
    <3>5. IsReadResponse(line[1])
      BY <1>1, <3>1, <3>2, RegistersAreNoRequest DEF IsReadResponse
    <3>6. m # 0  BY <1>1 DEF Frames
    <3>7. pairs' = Append(pairs, [request |-> m, response |-> m])
      BY <1>1, <3>4, <3>5, <3>6 DEF Hear, Pair
    <3>8. Len(pairs) + 1 \in DOMAIN pairs' /\ pairs'[Len(pairs) + 1] = [request |-> m, response |-> m]
      BY <3>7 DEF Inv, TypeOK
    <3> QED  BY <3>1, <3>8
  <2>3. CASE Frame("request", n) = line[1] /\ Frame("response", n) \in heard
    <3>1. InOrder(Frame("response", n), line[1])
      BY <1>1, <2>3 DEF FramesInOrder, OrderInv
    <3> QED  BY <1>9, <2>3, <3>1 DEF InOrder, Frame
  <2>4. Frame("request", n) # Frame("response", n)  BY DEF Frame
  <2> QED  BY <1>3, <2>1, <2>2, <2>3, <2>4 DEF Requests
<1> QED  BY <1>12, <1>13

LEMMA InitOrder == Init => OrderInv
  BY DEF Init, OrderInv, HeardOK, FramesInOrder, PairsHeard, PairsInOrder, RequestWaits,
         WholePaired, Requests

LEMMA OrderHolds == Spec => [](Inv /\ OrderInv)
<1>1. Inv /\ OrderInv /\ [Next]_vars => OrderInv'
  <2> SUFFICES ASSUME Inv, OrderInv, [Next]_vars PROVE OrderInv'
    OBVIOUS
  <2>1. CASE \E q \in Queries : Ask(q)  BY <2>1, AskKeepsOrder
  <2>2. CASE \E n \in DOMAIN asks : Answer(n)  BY <2>2, AnswerKeepsOrder
  <2>3. CASE Hear  BY <2>3, HearKeepsFrames, HearKeepsRequests DEF OrderInv
  <2>4. CASE QuietCapture  BY <2>4, QuietKeepsOrder
  <2> QED  BY <2>1, <2>2, <2>3, <2>4, CaptureStepsAreFew DEF Inv
<1> QED  BY <1>1, InitOrder, InitInv, NextInv, PTL DEF Spec

-----------------------------------------------------------------------------
LEMMA SmallestOf ==
  ASSUME NEW T \in SUBSET Nat, T # {}
  PROVE  \E n \in T : \A m \in T : n <= m
<1>1. PICK n \in T : \A m \in T : <<m, n>> \notin OpToRel(<, Nat)
  BY WFMin, NatLessThanWellFounded
<1>2. ASSUME NEW m \in T  PROVE n <= m
  <2>1. ~(m < n)  BY <1>1 DEF OpToRel
  <2> QED  BY <2>1
<1> QED  BY <1>2

LEMMA LargestOf ==
  ASSUME NEW bound \in Nat, NEW T \in SUBSET (1 .. bound), T # {}
  PROVE  \E n \in T : \A m \in T : m <= n
<1> DEFINE Rest == {r \in Nat : bound - r \in T}
<1>1. Rest \in SUBSET Nat /\ Rest # {}
  <2>1. PICK n \in T : TRUE  OBVIOUS
  <2>2. bound - n \in Nat /\ bound - (bound - n) = n  OBVIOUS
  <2> QED  BY <2>1, <2>2
<1>2. PICK r \in Rest : \A s \in Rest : r <= s
  <2> HIDE DEF Rest
  <2> QED  BY <1>1, SmallestOf
<1>3. bound - r \in T /\ r \in Nat  BY <1>2
<1>4. ASSUME NEW m \in T  PROVE m <= bound - r
  <2>1. bound - m \in Nat /\ bound - (bound - m) = m  OBVIOUS
  <2>2. r <= bound - m  BY <1>2, <2>1
  <2> QED  BY <1>3, <2>1, <2>2
<1> QED  BY <1>3, <1>4

(* A pair is followed by the latest one of its unit, function and start.   *)
LEMMA LatestPair ==
  ASSUME TypeOK, NEW i \in DOMAIN pairs
  PROVE  \E j \in DOMAIN pairs : SameKey(i, j) /\ IsLatest(j) /\ i <= j
<1> DEFINE T == {j \in DOMAIN pairs : SameKey(i, j)}
<1>1. Len(pairs) \in Nat /\ DOMAIN pairs = 1 .. Len(pairs)  BY DEF TypeOK
<1>2. i \in T /\ T \in SUBSET (1 .. Len(pairs))  BY <1>1 DEF SameKey
<1>3. PICK j \in T : \A k \in T : k <= j
  <2> HIDE DEF T
  <2> QED  BY <1>1, <1>2, LargestOf
<1>4. IsLatest(j)
  <2> SUFFICES ASSUME NEW k \in j + 1 .. Len(pairs), SameKey(j, k)  PROVE FALSE
    BY DEF IsLatest
  <2>1. k \in T  BY <1>1, <1>3 DEF SameKey
  <2> QED  BY <1>1, <1>3, <2>1
<1> QED  BY <1>2, <1>3, <1>4

(* Of several candidates, one has a key that came before all the others.   *)
LEMMA SomePair ==
  ASSUME TypeOK, NEW tag, Candidates(tag) # {}
  PROVE  PairFor(tag) # {}
<1> DEFINE T == {k \in DOMAIN pairs : \E i \in Candidates(tag) : SameKey(i, k)}
<1>1. Len(pairs) \in Nat /\ DOMAIN pairs = 1 .. Len(pairs)  BY DEF TypeOK
<1>2. \A i \in Candidates(tag) : i \in DOMAIN pairs /\ IsLatest(i) /\ i \in T
  BY DEF Candidates, SameKey
<1>3. PICK k \in T : \A l \in T : k <= l
  <2>1. T \in SUBSET Nat /\ T # {}  BY <1>1, <1>2
  <2> HIDE DEF T
  <2> QED  BY <2>1, SmallestOf
<1>4. PICK i \in Candidates(tag) : SameKey(i, k)  BY <1>3
<1>5. ASSUME NEW j \in Candidates(tag) \ {i}  PROVE CameBefore(i, j)
  <2>1. k \in 1 .. i  BY <1>1, <1>2, <1>3
  <2>2. ~SameKey(j, i)
    <3>1. /\ i \in DOMAIN pairs /\ j \in DOMAIN pairs
          /\ IsLatest(i) /\ IsLatest(j) /\ i # j
      BY <1>2, <1>4
    <3>2. CASE j < i
      <4>1. i \in j + 1 .. Len(pairs)  BY <1>1, <3>1, <3>2
      <4> QED  BY <3>1, <4>1 DEF IsLatest
    <3>3. CASE i < j
      <4>1. j \in i + 1 .. Len(pairs)  BY <1>1, <3>1, <3>3
      <4> QED  BY <3>1, <4>1 DEF IsLatest, SameKey
    <3> QED  BY <1>1, <3>1, <3>2, <3>3
  <2>3. ASSUME NEW l \in 1 .. k  PROVE ~SameKey(j, l)
    <3>1. CASE l = k  BY <1>4, <2>2, <3>1 DEF SameKey
    <3>2. CASE l # k
      <4>1. l \in DOMAIN pairs /\ l < k  BY <1>1, <1>3, <3>2
      <4>2. l \notin T  BY <1>1, <1>3, <4>1
      <4> QED  BY <4>1, <4>2
    <3> QED  BY <3>1, <3>2
  <2> QED  BY <1>4, <2>1, <2>3 DEF CameBefore
<1> QED  BY <1>4, <1>5 DEF PairFor

(* A capture that hears a read of a tag as a whole, and neither late       *)
(* answers nor such of missed requests, gives the tag its own registers,   *)
(* unless a shorter read of the same start or one that ends within the tag *)
(* takes its place: what read_tags returns for a device it only listens to *)
(* is then never "not observed", and never older than that read.           *)
THEOREM HeardReadsServeTheirTags == Spec => []HeardTagsAreGood
<1>1. ASSUME Inv, OrderInv  PROVE  HeardTagsAreGood
  <2> DEFINE Whole(m) == Frame("request", m) \in heard /\ Frame("response", m) \in heard
             Spoils(q, n, tag) ==
               \/ Key(q) = Key(asks[n]) /\ q.start = asks[n].start /\ ~Covers(q, tag)
               \/ Covers(q, tag) /\ tag.address + tag.count > q.start + q.quantity
             Good(i, n, tag) ==
               /\ HasRegisters(tag, i) /\ DecodedFrom(tag, i) = tag.address
               /\ QueryOf(i).start = asks[n].start => pairs[i].response >= n
  <2> SUFFICES ASSUME NEW tag \in Tags, NEW n \in DOMAIN asks, tag.code \in RegisterCodes,
                      \A frame \in heard : frame.ask \notin late \cup unheard,
                      Whole(n), Covers(asks[n], tag),
                      \A m \in DOMAIN asks : ~Spoils(asks[m], n, tag)
               PROVE  \E i \in PairFor(tag) : Good(i, n, tag)
    BY DEF HeardTagsAreGood
  <2>1. \A i \in DOMAIN pairs :
          /\ pairs[i].request \in DOMAIN asks /\ pairs[i].response \in DOMAIN asks
          /\ Key(asks[pairs[i].request]) = Key(asks[pairs[i].response])
          /\ pairs[i].response \notin late \cup unheard
    <3>1. \A i \in DOMAIN pairs : pairs[i].response \notin late \cup unheard
      BY <1>1 DEF OrderInv, PairsHeard, Frame
    <3> QED  BY <1>1, <3>1 DEF Inv, CaptureInv, PairsOK
  <2>2. ASSUME NEW i \in DOMAIN pairs, QueryOf(i).code \in RegisterCodes
        PROVE  pairs[i].request = pairs[i].response
    <3>1. asks[pairs[i].response].code \in RegisterCodes  BY <2>1, <2>2 DEF QueryOf, Key
    <3> QED  BY <1>1, <2>1, <3>1 DEF Inv, CaptureInv, PairsAreRight
  <2>3. Requests(n) /\ HeardInTime  BY DEF Requests, HeardInTime, Covers, Key
  <2>4. PICK i0 \in DOMAIN pairs : pairs[i0] = [request |-> n, response |-> n]
    BY <1>1, <2>3 DEF OrderInv, WholePaired
  <2>5. Candidates(tag) # {}
    <3>1. PICK j \in DOMAIN pairs : SameKey(i0, j) /\ IsLatest(j)
      BY <1>1, LatestPair DEF Inv
    <3>2. Key(QueryOf(j)) = Key(asks[n]) /\ QueryOf(j).start = asks[n].start
      BY <2>4, <3>1 DEF SameKey, QueryOf
    <3>3. Covers(QueryOf(j), tag)  BY <2>1, <3>2 DEF QueryOf
    <3> QED  BY <3>1, <3>3 DEF Candidates
  <2>6. PICK i \in PairFor(tag) : TRUE  BY <1>1, <2>5, SomePair DEF Inv
  <2>7. i \in DOMAIN pairs /\ IsLatest(i) /\ Covers(QueryOf(i), tag)
    BY DEF PairFor, Candidates
  <2>8. pairs[i].request = pairs[i].response
    <3>1. QueryOf(i).code \in RegisterCodes  BY <2>7 DEF Covers, Key
    <3> QED  BY <2>2, <2>7, <3>1
  <2>9. /\ QueryOf(i).start \in Nat /\ QueryOf(i).quantity \in Nat
        /\ tag.address \in Nat /\ tag.count \in Nat
    <3>1. QueryOf(i) \in Queries  BY <1>1, <2>1, <2>7 DEF QueryOf, Inv, TypeOK
    <3> QED  BY <3>1, RtuAssumption
  <2>10. tag.address + tag.count <= QueryOf(i).start + QueryOf(i).quantity
    BY <2>1, <2>7, <2>9 DEF QueryOf
  <2>11. HasRegisters(tag, i) /\ DecodedFrom(tag, i) = tag.address
    <3>1. asks[pairs[i].response] = QueryOf(i)  BY <2>8 DEF QueryOf
    <3> QED  BY <2>9, <2>10, <3>1 DEF HasRegisters, DecodedFrom, Offset
  <2>12. ASSUME QueryOf(i).start = asks[n].start  PROVE pairs[i].response >= n
    <3>1. Key(QueryOf(i)) = Key(asks[n])  BY <2>7 DEF Covers
    <3>2. SameKey(i, i0)  BY <2>4, <2>12, <3>1 DEF SameKey, QueryOf
    <3>3. i0 <= i /\ i0 \in Nat /\ i \in Nat
      <4>1. Len(pairs) \in Nat /\ DOMAIN pairs = 1 .. Len(pairs)  BY <1>1 DEF Inv, TypeOK
      <4>2. i0 \notin i + 1 .. Len(pairs)  BY <2>7, <3>2 DEF IsLatest
      <4> QED  BY <2>7, <4>1, <4>2
    <3>4. DOMAIN asks \subseteq Nat  BY <1>1 DEF Inv, TypeOK
    <3>5. CASE i0 = i  BY <2>4, <3>4, <3>5
    <3>6. CASE i0 < i
      <4>1. Key(asks[pairs[i0].response]) = Key(asks[pairs[i].response])
        BY <2>1, <2>4, <2>7, <3>1 DEF QueryOf
      <4>2. n < pairs[i].response
        BY <1>1, <2>1, <2>4, <2>7, <3>6, <4>1 DEF OrderInv, PairsInOrder
      <4>3. pairs[i].response \in Nat  BY <2>1, <2>7, <3>4
      <4> QED  BY <3>4, <4>2, <4>3
    <3> QED  BY <3>3, <3>5, <3>6
  <2>13. Good(i, n, tag)  BY <2>11, <2>12
  <2> QED  BY <2>13
<1> QED  BY <1>1, OrderHolds, PTL
==============================================================================

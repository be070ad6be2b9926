-------------------------- MODULE ReceivePathProofs --------------------------
(***************************************************************************)
(* Proofs about ReceivePath, for any length field, allocation unit and     *)
(* message lengths, and for any number of messages and interruptions.      *)
(***************************************************************************)
EXTENDS ReceivePath, TLAPS

(* The message whose first byte is at the head of the buffer. *)
NextMsg == Len(picked) + 1

(* pos and _size are one number, and the allocation covers the capacity.   *)
BufferOk(b) ==
  /\ b.content = "stream"
  /\ b.pos = b.size
  /\ b.size <= b.capacity
  /\ BufUnit <= b.capacity /\ b.capacity <= b.alloc

BufferInv == BufferOk(buf)

(* The messages lie end to end on the stream. *)
StreamInv ==
  /\ \A i \in 1..Len(msgs) : \A j \in 1..Len(msgs) :
        i < j => EndOf(msgs[i]) <= msgs[j].start
  /\ \A i \in 1..Len(msgs) : i > 1 => msgs[i].start = EndOf(msgs[i - 1])
  /\ msgs # <<>> => msgs[1].start = 0

(* What has been picked is the beginning of what was written, and the      *)
(* buffer starts where it ends.                                            *)
FramingInv ==
  /\ Len(picked) <= Len(msgs)
  /\ \A i \in 1..Len(picked) : picked[i] = msgs[i]
  /\ buf.head = IF picked = <<>> THEN 0 ELSE EndOf(msgs[Len(picked)])
  /\ TakenUpTo <= arrived /\ arrived <= Written

(* Less than one recv beyond the end of the next message, and nothing      *)
(* beyond it except while the runway is cutting messages.                  *)
LeftoverInv ==
  NextMsg <= Len(msgs) =>
    /\ buf.size < msgs[NextMsg].len + PtrSize
    /\ runway # "frame" => buf.size < msgs[NextMsg].len

(* Without an event, the kernel holds nothing for this connection. *)
EventInv ==
  /\ runway = "wait" /\ ~ready /\ closedBy = "none" => TakenUpTo = arrived
  /\ peer = "fin" => arrived = Written
  /\ closedBy # "none" => peer # "open"
  /\ closedBy = "normal" => picked = msgs

IInv == TypeOK /\ BufferInv /\ StreamInv /\ FramingInv /\ LeftoverInv /\ EventInv
-----------------------------------------------------------------------------
(* The buffer alone. *)

(* The capacity puts asks for holds the t bytes it must hold. *)
LEMMA GrownFits ==
  ASSUME NEW t \in Nat
  PROVE  Grown(t) \in Nat /\ t < Grown(t) /\ BufUnit <= Grown(t)
<1> DEFINE q == t \div BufUnit
<1>1. q \in Nat /\ t % BufUnit \in 0..(BufUnit - 1) /\ t = BufUnit * q + (t % BufUnit)
  BY BufferAssumption
<1>2. BufUnit * q \in Nat
  BY <1>1, BufferAssumption
<1> QED
  BY <1>1, <1>2, BufferAssumption DEF Grown

(* puts keeps the buffer sound, whatever the number of bytes. *)
LEMMA PutsKeeps ==
  ASSUME NEW b \in Buffer, BufferOk(b), NEW n \in Nat
  PROVE  /\ Puts(b, n) \in Buffer /\ BufferOk(Puts(b, n))
         /\ Puts(b, n).head = b.head /\ Puts(b, n).size = b.size + n
<1> DEFINE t == b.pos + n
<1>1. t \in Nat /\ Grown(t) \in Nat /\ t < Grown(t) /\ BufUnit <= Grown(t)
  BY GrownFits DEF Buffer
<1>2. CASE t > b.capacity
  BY <1>1, <1>2 DEF Puts, Buffer, BufferOk
<1>3. CASE ~(t > b.capacity)
  BY <1>1, <1>3 DEF Puts, Buffer, BufferOk
<1> QED
  BY <1>2, <1>3

(* pick keeps the buffer sound when what follows the message is shorter    *)
(* than the message and than one unit: neither copy can then go wrong.     *)
LEMMA PickKeeps ==
  ASSUME NEW b \in Buffer, BufferOk(b), NEW len \in Nat,
         len <= b.size, b.size - len <= len, b.size - len <= BufUnit
  PROVE  /\ Pick(b, len) \in Buffer /\ BufferOk(Pick(b, len))
         /\ Pick(b, len).head = b.head + len /\ Pick(b, len).size = b.size - len
<1> DEFINE left == b.size - len
<1>1. left \in Nat /\ left <= len /\ left <= BufUnit /\ ~(left > BufUnit)
  BY BufferAssumption DEF Buffer
<1> QED
  BY <1>1, BufferAssumption DEF Pick, Leftover, Buffer, BufferOk
-----------------------------------------------------------------------------
(* Types. *)

(* Both operations on the buffer yield a buffer. *)
LEMMA PutsType ==
  ASSUME NEW b \in Buffer, NEW n \in Nat
  PROVE  Puts(b, n) \in Buffer
<1>1. Grown(b.pos + n) \in Nat /\ b.pos + n \in Nat
  BY GrownFits DEF Buffer
<1> QED
  BY <1>1 DEF Puts, Buffer

LEMMA PickType ==
  ASSUME NEW b \in Buffer, NEW len \in Nat, len <= b.size
  PROVE  Pick(b, len) \in Buffer
BY BufferAssumption DEF Pick, Leftover, Buffer

(* A message's fields, and the length of what has been written. *)
LEMMA MessageFields ==
  /\ \A m \in Message : /\ m.start \in Nat /\ m.len \in Nat /\ EndOf(m) \in Nat
                        /\ LenField <= m.len /\ m.start < EndOf(m)
  /\ msgs \in Seq(Message) => Written \in Nat
<1>1. ASSUME NEW m \in Message
      PROVE  /\ m.start \in Nat /\ m.len \in Nat /\ EndOf(m) \in Nat
             /\ LenField <= m.len /\ m.start < EndOf(m)
  <2>1. m.start \in Nat /\ m.len \in Lengths
    BY DEF Message
  <2>2. m.len \in Nat /\ LenField <= m.len
    BY <2>1, ReceiveAssumption
  <2>3. LenField \in Nat /\ LenField > 0
    BY BufferAssumption
  <2> QED
    BY <2>1, <2>2, <2>3 DEF EndOf
<1>2. ASSUME msgs \in Seq(Message) PROVE Written \in Nat
  <2>1. msgs # <<>> => msgs[Len(msgs)] \in Message
    BY <1>2
  <2> QED
    BY <1>1, <2>1 DEF Written
<1> QED
  BY <1>1, <1>2

(* A step keeps the types. *)
LEMMA TypeStep ==
  ASSUME TypeOK, [Next]_vars
  PROVE  TypeOK'
<1> USE DEF TypeOK
<1>w. Written \in Nat
  BY MessageFields
<1>1. ASSUME NEW len \in Lengths, PeerSend(len) PROVE TypeOK'
  <2>1. [start |-> Written, len |-> len] \in Message
    BY <1>w DEF Message
  <2> QED
    BY <1>1, <2>1 DEF PeerSend
<1>2. ASSUME NEW n \in 1..Written, Arrive(n) PROVE TypeOK'
  BY <1>2, <1>w DEF Arrive
<1>3. ASSUME NEW how \in {"fin", "reset", "failed"}, PeerEnds(how) PROVE TypeOK'
  BY <1>3 DEF PeerEnds
<1>4. CASE Dispatch
  BY <1>4 DEF Dispatch
<1>5. ASSUME NEW n \in 1..RecvLimit, RecvData(n) PROVE TypeOK'
  BY <1>5, PutsType, ReceiveAssumption DEF RecvData, RecvLimit
<1>6. ASSUME NEW len \in Lengths, PickMessage(len) PROVE TypeOK'
  <2>1. len \in Nat /\ len <= buf.size
    BY <1>6, ReceiveAssumption DEF PickMessage, IsEnd, Buffer
  <2>2. [start |-> buf.head, len |-> len] \in Message
    BY DEF Message, Buffer
  <2> QED
    BY <1>6, <2>1, <2>2, PickType DEF PickMessage
<1>7. ASSUME NEW len \in Lengths, NoMoreMessages(len) PROVE TypeOK'
  BY <1>7 DEF NoMoreMessages, EpollModIn, Readable
<1>8. CASE RecvAgain \/ RecvInterrupted
  <2>1. (ready \/ Readable) \in BOOLEAN
    OBVIOUS
  <2>2. ready' \in BOOLEAN
    BY <1>8, <2>1 DEF RecvAgain, RecvInterrupted, EpollModIn
  <2> QED
    BY <1>8, <2>2 DEF RecvAgain, RecvInterrupted
<1>9. CASE RecvEnd \/ RecvReset \/ RecvThrows
  BY <1>9 DEF RecvEnd, RecvReset, RecvThrows, Close
<1>10. CASE UNCHANGED vars
  BY <1>10 DEF vars
<1> QED
  BY <1>1, <1>2, <1>3, <1>4, <1>5, <1>6, <1>7, <1>8, <1>9, <1>10 DEF Next, Runway, Network

(* The variables keep their types. *)
THEOREM TypeCorrect == Spec => []TypeOK
<1>1. Init => TypeOK
  <2>1. EmptyBuffer \in Buffer
    BY BufferAssumption DEF EmptyBuffer, Buffer
  <2>2. <<>> \in Seq(Message)
    OBVIOUS
  <2>3. Init => ready \in BOOLEAN
    BY DEF Init
  <2> QED
    BY <2>1, <2>2, <2>3 DEF Init, TypeOK
<1> QED
  BY <1>1, TypeStep, PTL DEF Spec
-----------------------------------------------------------------------------
(* Framing. *)

(* In every state of the invariant the length field at the head of the     *)
(* buffer is a real one, and no bytes follow the last message written.     *)
LEMMA HeaderTruth ==
  ASSUME IInv
  PROVE  /\ NextMsg \in Nat \ {0}
         /\ NextMsg <= Len(msgs) => /\ msgs[NextMsg] \in Message
                                    /\ msgs[NextMsg].start = buf.head
                                    /\ HeaderValues = {msgs[NextMsg].len}
         /\ NextMsg > Len(msgs) => buf.size = 0
<1> USE DEF IInv, TypeOK, FramingInv, TakenUpTo
<1>1. /\ Len(picked) \in Nat /\ Len(msgs) \in Nat /\ Len(picked) <= Len(msgs)
      /\ buf.head \in Nat /\ buf.size \in Nat
      /\ \A i \in 1..Len(msgs) : msgs[i] \in Message
  BY DEF Buffer
<1>2. ASSUME NextMsg <= Len(msgs)
      PROVE  /\ msgs[NextMsg].start = buf.head
             /\ HeaderValues = {msgs[NextMsg].len}
  <2>1. msgs[NextMsg].start = buf.head
    <3>1. CASE picked = <<>>
      BY <1>1, <1>2, <3>1 DEF StreamInv, NextMsg
    <3>2. CASE picked # <<>>
      <4>1. NextMsg > 1 /\ NextMsg \in 1..Len(msgs) /\ NextMsg - 1 = Len(picked)
        BY <1>1, <1>2, <3>2 DEF NextMsg
      <4> QED
        BY <4>1, <3>2 DEF StreamInv
    <3> QED
      BY <3>1, <3>2
  <2>2. ASSUME NEW i \in 1..Len(msgs), msgs[i].start = buf.head
        PROVE  i = NextMsg
    <3>1. NextMsg \in 1..Len(msgs) /\ msgs[i] \in Message /\ msgs[NextMsg] \in Message
      BY <1>1, <1>2 DEF NextMsg
    <3> DEFINE n == NextMsg
    <3>2. /\ msgs[i].start \in Nat /\ EndOf(msgs[i]) \in Nat /\ msgs[i].start < EndOf(msgs[i])
          /\ msgs[n].start \in Nat /\ EndOf(msgs[n]) \in Nat /\ msgs[n].start < EndOf(msgs[n])
      BY <3>1, MessageFields
    <3>3. msgs[i].start = msgs[n].start
      BY <2>1, <2>2
    <3>4. /\ i < n => EndOf(msgs[i]) <= msgs[n].start
          /\ n < i => EndOf(msgs[n]) <= msgs[i].start
      BY <3>1 DEF StreamInv
    <3>5. ~(i < n) /\ ~(n < i)
      BY <3>2, <3>3, <3>4
    <3>6. n \in Int /\ i \in Int
      BY <3>1
    <3> HIDE DEF n
    <3>7. i = n
      BY <3>5, <3>6
    <3> QED
      BY <3>7 DEF n
  <2>3. {i \in 1..Len(msgs) : msgs[i].start = buf.head} = {NextMsg}
    BY <1>1, <1>2, <2>1, <2>2 DEF NextMsg
  <2> QED
    BY <2>1, <2>3 DEF HeaderValues, BufferInv, BufferOk
<1>3. ASSUME NextMsg > Len(msgs) PROVE buf.size = 0
  <2>1. Len(picked) = Len(msgs)
    BY <1>1, <1>3 DEF NextMsg
  <2>2. buf.head = Written
    BY <1>1, <2>1 DEF Written
  <2> QED
    BY <1>1, <2>2, MessageFields
<1> QED
  BY <1>1, <1>2, <1>3 DEF NextMsg

(* The peer's actions append to the stream or deliver more of it. *)
LEMMA NetworkStep ==
  ASSUME IInv, Network
  PROVE  BufferInv' /\ StreamInv' /\ FramingInv' /\ LeftoverInv' /\ EventInv'
<1> USE DEF IInv, TypeOK
<1>w. /\ Written \in Nat /\ Len(msgs) \in Nat /\ Len(picked) \in Nat
      /\ \A i \in 1..Len(msgs) : msgs[i] \in Message
      /\ buf.head \in Nat /\ buf.size \in Nat
  BY MessageFields DEF Buffer
<1>1. ASSUME NEW len \in Lengths, PeerSend(len)
      PROVE  BufferInv' /\ StreamInv' /\ FramingInv' /\ LeftoverInv' /\ EventInv'
  <2> DEFINE m == [start |-> Written, len |-> len]
  <2>1. /\ m \in Message /\ m.start = Written /\ EndOf(m) \in Nat /\ Written < EndOf(m)
        /\ m.len = len /\ len \in Nat /\ LenField <= len
    <3> HIDE DEF IInv, TypeOK
    <3>1. m \in Message /\ m.start = Written /\ m.len = len
      BY <1>w DEF Message
    <3> HIDE DEF m
    <3> QED
      BY <3>1, MessageFields
  <2> HIDE DEF m
  <2>2. /\ msgs' = Append(msgs, m) /\ Len(msgs') = Len(msgs) + 1 /\ msgs'[Len(msgs) + 1] = m
        /\ \A i \in 1..Len(msgs) : msgs'[i] = msgs[i]
        /\ UNCHANGED <<arrived, peer, ready, buf, picked, runway, closedBy, intr>>
    <3>1. /\ msgs' = Append(msgs, m)
          /\ UNCHANGED <<arrived, peer, ready, buf, picked, runway, closedBy, intr>>
      BY <1>1 DEF PeerSend, m
    <3>2. msgs \in Seq(Message)
      OBVIOUS
    <3> HIDE DEF IInv, TypeOK
    <3> QED
      BY <2>1, <3>1, <3>2
  <2>3. Written' = EndOf(m)
    BY <2>2, <1>w DEF Written
  <2>4. \A i \in 1..Len(msgs) : EndOf(msgs[i]) <= Written
    <3> SUFFICES ASSUME NEW i \in 1..Len(msgs) PROVE EndOf(msgs[i]) <= Written
      OBVIOUS
    <3> DEFINE last == Len(msgs)
    <3>1. last \in 1..Len(msgs) /\ msgs[i] \in Message /\ msgs[last] \in Message
      BY <1>w
    <3>2. Written = EndOf(msgs[last])
      BY <1>w DEF Written
    <3>3. /\ EndOf(msgs[i]) \in Nat /\ EndOf(msgs[last]) \in Nat /\ msgs[last].start \in Nat
          /\ msgs[last].start < EndOf(msgs[last])
      BY <3>1, MessageFields
    <3>4. CASE i < last
      BY <3>1, <3>2, <3>3, <3>4 DEF StreamInv
    <3>5. CASE i = last
      BY <3>2, <3>3, <3>5
    <3> QED
      BY <3>1, <3>4, <3>5
  <2>5. StreamInv'
    <3>1. ASSUME NEW i \in 1..Len(msgs'), NEW j \in 1..Len(msgs'), i < j
          PROVE  EndOf(msgs'[i]) <= msgs'[j].start
      <4>1. CASE j \in 1..Len(msgs)
        BY <3>1, <4>1, <2>2, <1>w DEF StreamInv
      <4>2. CASE j = Len(msgs) + 1
        BY <3>1, <4>2, <2>1, <2>2, <2>4, <1>w
      <4> QED
        BY <4>1, <4>2, <2>2, <1>w
    <3>2. ASSUME NEW i \in 1..Len(msgs'), i > 1
          PROVE  msgs'[i].start = EndOf(msgs'[i - 1])
      <4>1. CASE i \in 1..Len(msgs)
        BY <3>2, <4>1, <2>2, <1>w DEF StreamInv
      <4>2. CASE i = Len(msgs) + 1
        <5>1. Len(msgs) \in 1..Len(msgs) /\ i - 1 = Len(msgs) /\ msgs # <<>>
          BY <3>2, <4>2, <1>w
        <5>2. msgs'[i - 1] = msgs[Len(msgs)] /\ msgs'[i] = m
          BY <5>1, <4>2, <2>2
        <5> QED
          BY <5>1, <5>2, <2>1 DEF Written
      <4>3. i \in 1..Len(msgs) \/ i = Len(msgs) + 1
        BY <2>2, <1>w
      <4> QED
        BY <4>1, <4>2, <4>3
    <3>3. msgs'[1].start = 0
      <4>1. CASE msgs = <<>>
        BY <4>1, <2>1, <2>2 DEF Written
      <4>2. CASE msgs # <<>>
        BY <4>2, <2>2, <1>w DEF StreamInv
      <4> QED
        BY <4>1, <4>2
    <3> QED
      BY <3>1, <3>2, <3>3 DEF StreamInv
  <2>6. FramingInv'
    <3>1. picked # <<>> => Len(picked) \in 1..Len(msgs)
      BY <1>w DEF FramingInv
    <3> QED
      BY <2>1, <2>2, <2>3, <3>1, <1>w DEF FramingInv, TakenUpTo
  <2>7. LeftoverInv'
    <3>1. CASE NextMsg <= Len(msgs)
      BY <3>1, <2>2, <1>w, HeaderTruth DEF LeftoverInv, NextMsg
    <3>2. CASE NextMsg > Len(msgs)
      <4>1. NextMsg = Len(msgs) + 1 /\ buf.size = 0
        BY <3>2, <1>w, HeaderTruth DEF NextMsg, FramingInv
      <4> QED
        BY <4>1, <2>1, <2>2, <1>w, ReceiveAssumption, BufferAssumption DEF LeftoverInv, NextMsg
    <3> QED
      BY <3>1, <3>2, <1>w DEF NextMsg
  <2>8. EventInv'
    BY <1>1, <2>2 DEF EventInv, PeerSend, TakenUpTo
  <2> QED
    BY <2>2, <2>5, <2>6, <2>7, <2>8 DEF BufferInv
<1>2. ASSUME NEW n \in 1..Written, Arrive(n)
      PROVE  BufferInv' /\ StreamInv' /\ FramingInv' /\ LeftoverInv' /\ EventInv'
  <2>1. BufferInv' /\ StreamInv' /\ LeftoverInv'
    BY <1>2 DEF Arrive, BufferInv, StreamInv, LeftoverInv, NextMsg
  <2>2. FramingInv'
    <3>1. Written' = Written /\ TakenUpTo' = TakenUpTo /\ arrived \in Nat
      BY <1>2 DEF Arrive, Written, TakenUpTo
    <3> QED
      BY <1>2, <1>w, <3>1 DEF Arrive, FramingInv, TakenUpTo
  <2>3. EventInv'
    BY <1>2, <1>w DEF Arrive, EventInv
  <2> QED
    BY <2>1, <2>2, <2>3
<1>3. ASSUME NEW how \in {"fin", "reset", "failed"}, PeerEnds(how)
      PROVE  BufferInv' /\ StreamInv' /\ FramingInv' /\ LeftoverInv' /\ EventInv'
  <2>1. Written' = Written /\ TakenUpTo' = TakenUpTo
    BY <1>3 DEF PeerEnds, Written, TakenUpTo
  <2> QED
    BY <1>3, <2>1 DEF PeerEnds, BufferInv, StreamInv, LeftoverInv, NextMsg, FramingInv, EventInv
<1> QED
  BY <1>1, <1>2, <1>3 DEF Network

(* The runway's steps that read from the kernel or cut messages. *)
LEMMA RunwayStep ==
  ASSUME IInv, Runway
  PROVE  BufferInv' /\ StreamInv' /\ FramingInv' /\ LeftoverInv' /\ EventInv'
<1> USE DEF IInv, TypeOK
<1>w. /\ Written \in Nat /\ Len(msgs) \in Nat /\ Len(picked) \in Nat /\ arrived \in Nat
      /\ \A i \in 1..Len(msgs) : msgs[i] \in Message
      /\ buf.head \in Nat /\ buf.size \in Nat /\ buf.pos \in Nat
      /\ PtrSize \in Nat /\ LenField \in Nat \ {0} /\ PtrSize <= LenField
  BY MessageFields, ReceiveAssumption, BufferAssumption DEF Buffer
<1>same. ASSUME UNCHANGED <<msgs, arrived, buf, picked>>, runway # "frame" \/ LeftoverInv'
         PROVE  BufferInv' /\ StreamInv' /\ FramingInv' /\ LeftoverInv'
  BY <1>same DEF BufferInv, StreamInv, FramingInv, LeftoverInv, NextMsg, TakenUpTo, Written
<1>event. ASSUME UNCHANGED <<msgs, arrived, peer, picked, closedBy>>,
                 runway' = "wait" /\ ~ready' /\ closedBy = "none" => TakenUpTo' = arrived
          PROVE  EventInv'
  BY <1>event DEF EventInv, Written
<1>1. CASE Dispatch
  <2>1. runway' = "wait" => TakenUpTo' = arrived
    <3>1. ~Readable => TakenUpTo = arrived
      BY <1>w DEF Readable, FramingInv, TakenUpTo
    <3> QED
      BY <1>1, <3>1 DEF Dispatch, TakenUpTo
  <2>2. EventInv'
    BY <1>1, <2>1, <1>event DEF Dispatch
  <2> QED
    BY <1>1, <1>same, <2>2 DEF Dispatch
<1>2. ASSUME NEW n \in 1..RecvLimit, RecvData(n)
      PROVE  BufferInv' /\ StreamInv' /\ FramingInv' /\ LeftoverInv' /\ EventInv'
  <2>1. n \in Nat /\ n <= PtrSize /\ runway = "recv" /\ runway' = "frame"
        /\ buf' = Puts(buf, n) /\ TakenUpTo + n <= arrived
        /\ UNCHANGED <<msgs, arrived, peer, ready, picked, closedBy>>
    BY <1>2, <1>w DEF RecvData, RecvLimit
  <2>2. BufferOk(buf') /\ buf'.head = buf.head /\ buf'.size = buf.size + n
    BY <2>1, PutsKeeps DEF BufferInv
  <2>3. FramingInv'
    BY <2>1, <2>2, <1>w DEF FramingInv, TakenUpTo, Written
  <2>4. LeftoverInv'
    <3>1. ASSUME NextMsg <= Len(msgs) PROVE buf'.size < msgs[NextMsg].len + PtrSize
      <4>1. msgs[NextMsg] \in Message
        BY <3>1, HeaderTruth
      <4>2. msgs[NextMsg].len \in Nat /\ buf.size < msgs[NextMsg].len
        BY <3>1, <4>1, <2>1, MessageFields DEF LeftoverInv
      <4> QED
        BY <4>2, <2>1, <2>2, <1>w
    <3> QED
      BY <3>1, <2>1 DEF LeftoverInv, NextMsg
  <2>5. StreamInv'
    BY <2>1 DEF StreamInv
  <2>6. EventInv'
    BY <2>1, <1>event
  <2> QED
    BY <2>2, <2>3, <2>4, <2>5, <2>6 DEF BufferInv
<1>3. ASSUME NEW len \in Lengths, PickMessage(len)
      PROVE  BufferInv' /\ StreamInv' /\ FramingInv' /\ LeftoverInv' /\ EventInv'
  <2>1. /\ len \in HeaderValues /\ runway = "frame" /\ buf.pos >= LenField /\ buf.size >= len
        /\ picked' = Append(picked, [start |-> buf.head, len |-> len])
        /\ buf' = Pick(buf, len)
        /\ UNCHANGED <<msgs, arrived, peer, ready, runway, closedBy>>
    BY <1>3 DEF PickMessage, IsEnd
  <2>2. /\ NextMsg <= Len(msgs) /\ len = msgs[NextMsg].len /\ msgs[NextMsg] \in Message
        /\ msgs[NextMsg].start = buf.head
        /\ len \in Nat /\ LenField <= len
    <3>1. NextMsg <= Len(msgs)
      BY <2>1, <1>w, HeaderTruth DEF BufferInv, BufferOk, NextMsg
    <3> QED
      BY <3>1, <2>1, HeaderTruth, MessageFields
  <2>3. buf.size - len < PtrSize
    BY <2>2, <1>w DEF LeftoverInv
  <2>4. BufferOk(buf') /\ buf'.head = buf.head + len /\ buf'.size = buf.size - len
    <3>1. buf.size - len <= len /\ buf.size - len <= BufUnit /\ len <= buf.size
      <4> DEFINE rest == buf.size - len
      <4>1. rest < PtrSize /\ rest \in Int
        BY <2>2, <2>3, <1>w
      <4>2. PtrSize <= LenField /\ LenField <= len /\ LenField <= BufUnit
        BY <2>2, <1>w, BufferAssumption
      <4>3. PtrSize \in Int /\ LenField \in Int /\ len \in Int /\ BufUnit \in Int
        BY <2>2, <1>w, BufferAssumption
      <4>4. len <= buf.size
        BY <2>1
      <4> HIDE DEF rest
      <4>5. rest <= len /\ rest <= BufUnit
        BY <4>1, <4>2, <4>3
      <4> QED
        BY <4>4, <4>5 DEF rest
    <3> QED
      BY <3>1, <2>1, <2>2, PickKeeps DEF BufferInv
  <2>5. /\ picked' # <<>> /\ Len(picked') = NextMsg /\ NextMsg \in 1..Len(msgs)
        /\ picked'[NextMsg] = [start |-> buf.head, len |-> len]
        /\ \A i \in 1..Len(picked) : picked'[i] = picked[i]
    BY <2>1, <2>2, <1>w DEF NextMsg
  <2>6. msgs[NextMsg] = [start |-> buf.head, len |-> len] /\ EndOf(msgs[NextMsg]) = buf.head + len
    BY <2>2 DEF Message, EndOf
  <2>7. FramingInv'
    <3>1. \A i \in 1..Len(picked') : picked'[i] = msgs[i]
      BY <2>5, <2>6, <1>w DEF FramingInv, NextMsg
    <3>2. TakenUpTo' = TakenUpTo
      BY <2>4, <2>2, <1>w DEF TakenUpTo
    <3> QED
      BY <3>1, <3>2, <2>1, <2>4, <2>5, <2>6 DEF FramingInv, Written
  <2>8. LeftoverInv'
    <3>1. ASSUME NextMsg' <= Len(msgs) PROVE buf'.size < msgs[NextMsg'].len + PtrSize
      <4>1. NextMsg' \in 1..Len(msgs) /\ msgs[NextMsg'] \in Message
        BY <3>1, <2>5, <1>w DEF NextMsg
      <4> DEFINE next == msgs[NextMsg'].len
      <4>2. next \in Nat
        BY <4>1, MessageFields
      <4> HIDE DEF next
      <4>3. buf'.size \in Int /\ buf'.size < PtrSize
        BY <2>2, <2>3, <2>4, <1>w
      <4>4. buf'.size < next + PtrSize
        BY <4>2, <4>3, <1>w
      <4> QED
        BY <4>4 DEF next
    <3> QED
      BY <3>1, <2>1 DEF LeftoverInv
  <2>9. EventInv'
    <3>1. closedBy # "normal"
      BY <2>2, <1>w DEF EventInv, NextMsg
    <3> QED
      BY <2>1, <3>1 DEF EventInv, Written
  <2> QED
    BY <2>1, <2>4, <2>7, <2>8, <2>9 DEF BufferInv, StreamInv
<1>4. ASSUME NEW len \in Lengths, NoMoreMessages(len)
      PROVE  BufferInv' /\ StreamInv' /\ FramingInv' /\ LeftoverInv' /\ EventInv'
  <2>1. ASSUME NextMsg <= Len(msgs) PROVE buf.size < msgs[NextMsg].len
    <3>1. msgs[NextMsg].len \in Nat /\ LenField <= msgs[NextMsg].len /\ len = msgs[NextMsg].len
      BY <1>4, <2>1, HeaderTruth, MessageFields DEF NoMoreMessages
    <3> QED
      BY <1>4, <3>1, <1>w DEF NoMoreMessages, IsEnd, BufferInv, BufferOk
  <2>2. LeftoverInv'
    BY <1>4, <2>1 DEF NoMoreMessages, LeftoverInv, NextMsg
  <2>3. EventInv'
    BY <1>4, <1>event DEF NoMoreMessages
  <2> QED
    BY <1>4, <1>same, <2>2, <2>3 DEF NoMoreMessages
<1>5. CASE RecvAgain
  <2>1. EventInv'
    BY <1>5, <1>event DEF RecvAgain, TakenUpTo
  <2> QED
    BY <1>5, <1>same, <2>1 DEF RecvAgain
<1>6. CASE RecvInterrupted
  <2>1. ~ready' => TakenUpTo = arrived
    <3>1. ~ready' => ~Readable
      BY <1>6 DEF RecvInterrupted, EpollModIn
    <3> QED
      BY <3>1, <1>w DEF Readable, FramingInv, TakenUpTo
  <2>2. EventInv'
    <3>1. TakenUpTo' = TakenUpTo /\ UNCHANGED <<msgs, arrived, peer, picked, closedBy>>
      BY <1>6 DEF RecvInterrupted, TakenUpTo
    <3> QED
      BY <2>1, <3>1, <1>event
  <2> QED
    BY <1>6, <1>same, <2>2 DEF RecvInterrupted
<1>7. CASE RecvEnd
  <2>1. picked = msgs
    <3>1. TakenUpTo = Written /\ runway # "frame"
      BY <1>7 DEF RecvEnd, EventInv
    <3>2. ~(NextMsg <= Len(msgs))
      <4> SUFFICES ASSUME NextMsg <= Len(msgs) PROVE FALSE
        OBVIOUS
      <4>1. /\ msgs[NextMsg] \in Message /\ msgs[NextMsg].start = buf.head
            /\ buf.size < msgs[NextMsg].len
        BY <3>1, HeaderTruth DEF LeftoverInv
      <4>2. EndOf(msgs[NextMsg]) <= Written
        <5>1. NextMsg \in 1..Len(msgs) /\ Len(msgs) \in 1..Len(msgs) /\ msgs # <<>>
          BY <1>w DEF NextMsg
        <5>2. NextMsg < Len(msgs) => EndOf(msgs[NextMsg]) <= msgs[Len(msgs)].start
          BY <5>1 DEF StreamInv
        <5>3. /\ msgs[Len(msgs)].start \in Nat /\ EndOf(msgs[NextMsg]) \in Nat
              /\ msgs[Len(msgs)].start < Written /\ Written = EndOf(msgs[Len(msgs)])
          BY <5>1, <1>w, MessageFields DEF Written
        <5> QED
          BY <5>1, <5>2, <5>3, <1>w
      <4> QED
        BY <4>1, <4>2, <3>1, <1>w, MessageFields DEF TakenUpTo, EndOf
    <3>3. Len(picked) = Len(msgs)
      BY <3>2, <1>w DEF NextMsg, FramingInv
    <3> QED
      BY <3>3 DEF FramingInv
  <2>2. EventInv'
    BY <1>7, <2>1 DEF RecvEnd, Close, EventInv, Written
  <2> QED
    BY <1>7, <1>same, <2>2 DEF RecvEnd, Close
<1>8. CASE RecvReset \/ RecvThrows
  <2>1. EventInv'
    BY <1>8 DEF RecvReset, RecvThrows, Close, EventInv, Written
  <2> QED
    BY <1>8, <1>same, <2>1 DEF RecvReset, RecvThrows, Close
<1> QED
  BY <1>1, <1>2, <1>3, <1>4, <1>5, <1>6, <1>7, <1>8 DEF Runway
-----------------------------------------------------------------------------
(* What holds of every behaviour. *)

(* IInv is inductive.  Framing alone is not: that a picked message begins  *)
(* with a real length field rests on the leftover being short, which rests *)
(* on one recv never taking more bytes than a length field has.            *)
THEOREM Invariance == Spec => []IInv
<1>1. Init => IInv
  <2> SUFFICES ASSUME Init PROVE IInv
    OBVIOUS
  <2>1. TypeOK
    <3>1. EmptyBuffer \in Buffer /\ <<>> \in Seq(Message)
      BY BufferAssumption DEF EmptyBuffer, Buffer
    <3>2. ready \in BOOLEAN
      BY DEF Init
    <3> QED
      BY <3>1, <3>2 DEF Init, TypeOK
  <2>2. BufferInv /\ StreamInv /\ FramingInv
    BY BufferAssumption DEF Init, EmptyBuffer, BufferInv, BufferOk, StreamInv, FramingInv,
                            TakenUpTo, Written
  <2>3. LeftoverInv /\ EventInv
    BY DEF Init, EmptyBuffer, LeftoverInv, NextMsg, EventInv, TakenUpTo
  <2> QED
    BY <2>1, <2>2, <2>3 DEF IInv
<1>2. IInv /\ [Next]_vars => IInv'
  <2> SUFFICES ASSUME IInv, [Next]_vars PROVE IInv'
    OBVIOUS
  <2>1. TypeOK'
    BY TypeStep DEF IInv
  <2>2. CASE Network
    BY <2>1, <2>2, NetworkStep DEF IInv
  <2>3. CASE Runway
    BY <2>1, <2>3, RunwayStep DEF IInv
  <2>4. CASE UNCHANGED vars
    BY <2>1, <2>4 DEF vars, IInv, BufferInv, StreamInv, FramingInv, LeftoverInv, EventInv,
                      NextMsg, TakenUpTo, Written
  <2> QED
    BY <2>2, <2>3, <2>4 DEF Next
<1> QED
  BY <1>1, <1>2, PTL DEF Spec

(* No copy of the buffer overlaps itself or leaves its allocation.         *)
THEOREM BufferStaysIntact == Spec => []BufferIntact
<1>1. IInv => BufferIntact
  BY DEF IInv, BufferInv, BufferOk, BufferIntact
<1> QED
  BY <1>1, Invariance, PTL

(* A connection closed as normal has delivered everything.                 *)
THEOREM NormalCloseIsComplete == Spec => []NormalCloseLosesNothing
<1>1. IInv => NormalCloseLosesNothing
  BY DEF IInv, EventInv, NormalCloseLosesNothing
<1> QED
  BY <1>1, Invariance, PTL

(* Nothing that has arrived whole is left behind without an event.         *)
THEOREM NothingLeftBehind == Spec => []QuietMeansDelivered
<1>1. IInv => QuietMeansDelivered
  <2> SUFFICES ASSUME IInv, runway = "wait", ~ready, closedBy = "none",
                      NEW i \in 1..Len(msgs), EndOf(msgs[i]) <= arrived, ~(i <= Len(picked))
               PROVE  FALSE
    BY DEF QuietMeansDelivered
  <2>1. /\ NextMsg \in 1..Len(msgs) /\ NextMsg <= i
        /\ msgs[i] \in Message /\ msgs[NextMsg] \in Message
    BY DEF IInv, TypeOK, NextMsg
  <2>2. arrived = buf.head + buf.size /\ buf.head \in Nat /\ buf.size \in Nat
    BY DEF IInv, TypeOK, EventInv, TakenUpTo, Buffer
  <2>3. buf.size < msgs[NextMsg].len /\ msgs[NextMsg].start = buf.head
    BY <2>1, HeaderTruth DEF IInv, LeftoverInv
  <2>4. EndOf(msgs[NextMsg]) <= EndOf(msgs[i])
    <3>1. CASE NextMsg = i
      BY <3>1, <2>1, MessageFields
    <3>2. CASE NextMsg < i
      BY <3>2, <2>1, MessageFields DEF IInv, StreamInv
    <3> QED
      BY <3>1, <3>2, <2>1
  <2>5. /\ EndOf(msgs[NextMsg]) = buf.head + msgs[NextMsg].len /\ msgs[NextMsg].len \in Nat
        /\ EndOf(msgs[i]) \in Nat
    BY <2>1, <2>3, MessageFields DEF EndOf
  <2>6. EndOf(msgs[i]) <= buf.head + buf.size
    BY <2>2
  <2> HIDE DEF NextMsg
  <2> QED
    BY <2>2, <2>3, <2>4, <2>5, <2>6
<1> QED
  BY <1>1, Invariance, PTL

(* The receive path implements the abstract message channel.               *)
THEOREM ReceiveRefinesChannel == Spec => DeliversInOrder
<1>1. Init => Channel!Init
  BY DEF Init, Channel!Init
<1>2. IInv /\ [Next]_vars => [Channel!Next]_<<msgs, picked>>
  <2> SUFFICES ASSUME IInv, [Next]_vars, ~UNCHANGED <<msgs, picked>>
               PROVE  Channel!Next
    BY DEF vars
  <2>1. /\ msgs \in Seq(Message) /\ picked \in Seq(Message)
        /\ Len(msgs) \in Nat /\ Len(picked) \in Nat
    BY DEF IInv, TypeOK
  <2>2. ASSUME NEW len \in Lengths, PeerSend(len) PROVE Channel!Send
    <3> DEFINE m == [start |-> Written, len |-> len]
    <3>1. msgs' = Append(msgs, m) /\ UNCHANGED picked /\ m \in Message
      BY <2>1, <2>2, MessageFields DEF PeerSend, Message
    <3> HIDE DEF m
    <3>2. Len(msgs') = Len(msgs) + 1 /\ SubSeq(msgs', 1, Len(msgs)) = msgs
      BY <2>1, <3>1
    <3> QED
      BY <3>1, <3>2 DEF Channel!Send
  <2>3. ASSUME NEW len \in Lengths, PickMessage(len) PROVE Channel!Deliver
    <3>1. NextMsg <= Len(msgs)
      BY <2>3, HeaderTruth, BufferAssumption, <2>1
      DEF PickMessage, IsEnd, IInv, BufferInv, BufferOk, NextMsg, TypeOK, Buffer
    <3>2. msgs[NextMsg] = [start |-> buf.head, len |-> len]
      BY <2>3, <3>1, HeaderTruth DEF PickMessage, Message
    <3> QED
      BY <2>1, <2>3, <3>1, <3>2 DEF PickMessage, NextMsg, Channel!Deliver
  <2>4. CASE Network
    BY <2>2, <2>4 DEF Network, Arrive, PeerEnds, Channel!Next
  <2>5. CASE Runway
    BY <2>3, <2>5 DEF Runway, Dispatch, RecvData, NoMoreMessages, RecvAgain, RecvInterrupted,
                      RecvEnd, RecvReset, RecvThrows, Close, Channel!Next
  <2> QED
    BY <2>4, <2>5 DEF Next, vars
<1> QED
  BY <1>1, <1>2, Invariance, PTL DEF Spec, Channel!Spec, DeliversInOrder
=============================================================================

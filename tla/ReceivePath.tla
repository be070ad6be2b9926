----------------------------- MODULE ReceivePath -----------------------------
(***************************************************************************)
(* How a connection cuts the byte stream of its peer into messages: the    *)
(* kernel's receive buffer, the edge-triggered readiness event, the runway *)
(* thread in Connection::acceptRecive, and the BufferStream it fills.      *)
(*                                                                         *)
(* Bytes are numbered from 0 in stream order.  A message is where it       *)
(* starts and how long it is; the peer's length field says the truth.      *)
(***************************************************************************)
EXTENDS BufferStream, Sequences

CONSTANTS
  Lengths,     (* the lengths of the messages the peer may send            *)
  PtrSize,     (* sizeof(buf) where buf is a void pointer                  *)
  BufferSize,  (* BUFFER_SIZE, what acceptRecive asks recv for             *)
  MaxMsgs,     (* bound: messages the peer sends                           *)
  MaxIntr      (* bound: recv calls a signal interrupts                    *)

ASSUME ReceiveAssumption ==
  /\ Lengths \subseteq Nat
  /\ \A len \in Lengths : LenField <= len
  /\ PtrSize \in Nat \ {0}
  /\ PtrSize <= LenField
  /\ BufferSize \in Nat \ {0}
  /\ MaxMsgs \in Nat
  /\ MaxIntr \in Nat

VARIABLES
  msgs,      (* the messages the peer has written, in order                *)
  arrived,   (* bytes that have reached this host                          *)
  peer,      (* "open", or how the peer's side ended                       *)
  ready,     (* epoll holds an event for this descriptor                   *)
  buf,       (* Connection::inStream                                       *)
  picked,    (* the messages handed to a handler thread, in order          *)
  runway,    (* where the runway thread is                                 *)
  closedBy,  (* the CloseType the connection was closed with, or "none"    *)
  intr       (* recv calls interrupted so far                              *)

vars == <<msgs, arrived, peer, ready, buf, picked, runway, closedBy, intr>>

Message == [start: Nat, len: Lengths]
EndOf(m) == m.start + m.len
Written == IF msgs = <<>> THEN 0 ELSE EndOf(msgs[Len(msgs)])

(* Every byte before this one has been taken out of the kernel by recv. *)
TakenUpTo == buf.head + buf.size

(* What poll reports as EPOLLIN. *)
Readable == arrived > TakenUpTo \/ peer # "open"

(* Mutation: recv honours the length it is given. *)
RecvLimitAsked == BufferSize

(* Socket::recv passes sizeof(buf) to ::recv, not the len it was given. *)
RecvLimit == PtrSize

(* What the first LenField bytes of the buffer say, read as a length: the  *)
(* truth when they are the first bytes of a message, anything otherwise.   *)
HeaderValues ==
  LET starting == {i \in 1..Len(msgs) : msgs[i].start = buf.head}
  IN IF buf.content = "stream" /\ starting # {} THEN {msgs[i].len : i \in starting} ELSE Lengths
-----------------------------------------------------------------------------
(* The peer and the network. *)

PeerSend(len) ==
  /\ peer = "open" /\ Len(msgs) < MaxMsgs
  /\ msgs' = Append(msgs, [start |-> Written, len |-> len])
  /\ UNCHANGED <<arrived, peer, ready, buf, picked, runway, closedBy, intr>>

Arrive(n) ==
  /\ peer = "open" /\ arrived + n <= Written
  /\ arrived' = arrived + n
  /\ ready' = TRUE
  /\ UNCHANGED <<msgs, peer, buf, picked, runway, closedBy, intr>>

(* A FIN comes after the data; a reset or a timeout can come at any time. *)
PeerEnds(how) ==
  /\ peer = "open"
  /\ how = "fin" => arrived = Written
  /\ peer' = how
  /\ ready' = TRUE
  /\ UNCHANGED <<msgs, arrived, buf, picked, runway, closedBy, intr>>
-----------------------------------------------------------------------------
(* The runway thread. *)

(* Connection::close, from the loop of acceptRecive. *)
Close(closeType) ==
  /\ closedBy' = closeType
  /\ runway' = "wait" /\ ready' = FALSE
  /\ UNCHANGED <<msgs, arrived, peer, buf, picked, intr>>

(* Mutation: __acceptEvent looks at the hang-up flags before EPOLLIN. *)
DispatchHangupFirst ==
  /\ runway = "wait" /\ closedBy = "none" /\ ready
  /\ IF peer = "fin"
     THEN Close("normal")
     ELSE /\ ready' = FALSE
          /\ runway' = IF Readable THEN "recv" ELSE "wait"
          /\ UNCHANGED <<msgs, arrived, peer, buf, picked, closedBy, intr>>

(* epoll->wait and __acceptEvent: EPOLLIN is looked at first. *)
Dispatch ==
  /\ runway = "wait" /\ closedBy = "none" /\ ready
  /\ ready' = FALSE
  /\ runway' = IF Readable THEN "recv" ELSE "wait"
  /\ UNCHANGED <<msgs, arrived, peer, buf, picked, closedBy, intr>>

RecvData(n) ==
  /\ runway = "recv" /\ n <= RecvLimit /\ TakenUpTo + n <= arrived
  /\ buf' = Puts(buf, n)
  /\ runway' = "frame"
  /\ UNCHANGED <<msgs, arrived, peer, ready, picked, closedBy, intr>>

(* while (isEnd()): pick the message and start a handler thread on it. *)
PickMessage(len) ==
  /\ runway = "frame" /\ len \in HeaderValues /\ IsEnd(buf, len)
  /\ picked' = Append(picked, [start |-> buf.head, len |-> len])
  /\ buf' = Pick(buf, len)
  /\ UNCHANGED <<msgs, arrived, peer, ready, runway, closedBy, intr>>

(* Mutation: the descriptor is not re-armed. *)
EpollNotRearmed == UNCHANGED ready

(* epoll_mod_in queues a fresh event if the descriptor is readable now. *)
EpollModIn == ready' = (ready \/ Readable)

(* No whole message left: re-arm and go round the loop. *)
NoMoreMessages(len) ==
  /\ runway = "frame" /\ len \in HeaderValues /\ ~IsEnd(buf, len)
  /\ EpollModIn
  /\ runway' = "recv"
  /\ UNCHANGED <<msgs, arrived, peer, buf, picked, closedBy, intr>>

(* recv returns -1 with EAGAIN: the kernel has no more bytes. *)
RecvAgain ==
  /\ runway = "recv" /\ TakenUpTo = arrived /\ peer = "open"
  /\ EpollModIn
  /\ runway' = "wait"
  /\ UNCHANGED <<msgs, arrived, peer, buf, picked, closedBy, intr>>

(* recv returns -1 with EINTR: the loop ends although bytes may be waiting. *)
RecvInterrupted ==
  /\ runway = "recv" /\ intr < MaxIntr
  /\ intr' = intr + 1
  /\ EpollModIn
  /\ runway' = "wait"
  /\ UNCHANGED <<msgs, arrived, peer, buf, picked, closedBy>>

(* recv returns 0 once the stream is read to its end. *)
RecvEnd ==
  /\ runway = "recv" /\ peer = "fin" /\ TakenUpTo = arrived
  /\ Close("normal")

RecvReset == runway = "recv" /\ peer = "reset" /\ Close("err_recv")

(* Any other errno: Socket::recv throws, acceptRecive closes and rethrows. *)
RecvThrows == runway = "recv" /\ peer = "failed" /\ Close("unknown")
-----------------------------------------------------------------------------
Init ==
  /\ msgs = <<>> /\ arrived = 0 /\ peer = "open"
  /\ ready = FALSE /\ buf = EmptyBuffer /\ picked = <<>>
  /\ runway = "wait" /\ closedBy = "none" /\ intr = 0

Runway ==
  \/ Dispatch
  \/ \E n \in 1..RecvLimit : RecvData(n)
  \/ \E len \in Lengths : PickMessage(len) \/ NoMoreMessages(len)
  \/ RecvAgain \/ RecvInterrupted
  \/ RecvEnd \/ RecvReset \/ RecvThrows

Network ==
  \/ \E len \in Lengths : PeerSend(len)
  \/ \E n \in 1..Written : Arrive(n)
  \/ \E how \in {"fin", "reset", "failed"} : PeerEnds(how)

Next == Runway \/ Network

Spec == Init /\ [][Next]_vars

(* The runway thread never stops stepping: it polls every second and its   *)
(* descriptor loop has no blocking call.  Nothing is asked of the peer.    *)
FairSpec == Spec /\ WF_vars(Runway)
-----------------------------------------------------------------------------
(* Every variable has its type; the sizes never go below zero, as the      *)
(* unsigned fields of BufferStream must not.                               *)
TypeOK ==
  /\ msgs \in Seq(Message) /\ picked \in Seq(Message)
  /\ arrived \in Nat /\ intr \in Nat
  /\ peer \in {"open", "fin", "reset", "failed"}
  /\ ready \in BOOLEAN
  /\ buf \in Buffer
  /\ runway \in {"wait", "recv", "frame"}
  /\ closedBy \in {"none", "normal", "err_recv", "unknown"}

(* The memcpy in pick never overlaps itself, its realloc never copies more *)
(* than it allocated, and puts never writes past the true allocation,      *)
(* although pick records a capacity that may not be the allocation's.      *)
BufferIntact == buf.content = "stream"

(* acceptRecive hands over the peer's messages whole, in order, once.      *)
Channel == INSTANCE MessageChannel
             WITH sent <- msgs, delivered <- picked
DeliversInOrder == Channel!Spec

(* With edge-triggered events nothing may be left behind: when the runway  *)
(* waits and epoll holds no event for the connection, every message whose  *)
(* bytes have all arrived has been picked, an interrupted recv or not.     *)
QuietMeansDelivered ==
  runway = "wait" /\ ~ready /\ closedBy = "none"
    => \A i \in 1..Len(msgs) : EndOf(msgs[i]) <= arrived => i <= Len(picked)

(* A connection closed as normal has delivered all its peer wrote.         *)
NormalCloseLosesNothing == closedBy = "normal" => picked = msgs

(* Every message that arrives whole is handed to a handler in the end,     *)
(* unless the connection breaks.                                           *)
ArrivedIsPicked ==
  \A i \in 1..MaxMsgs :
    (i <= Len(msgs) /\ EndOf(msgs[i]) <= arrived)
      ~> (i <= Len(picked) \/ closedBy \in {"err_recv", "unknown"})
=============================================================================

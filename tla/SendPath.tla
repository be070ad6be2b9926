------------------------------ MODULE SendPath ------------------------------
(***************************************************************************)
(* How the bullets of a connection reach the socket (leopard/src           *)
(* Connection.cpp, Bullet.cpp and Runway.cpp).  Handler threads push a     *)
(* bullet and call Connection::send; the runway thread calls it when epoll *)
(* reports EPOLLOUT.  Connection::mut lets one of them drain the queue,    *)
(* but the flag wr that says whether the socket takes more is also written *)
(* by the runway without it.                                               *)
(*                                                                         *)
(* Bytes are numbered in the order in which their bullets were pushed.     *)
(* The queue is the channel that module Queue implements, for the one      *)
(* consumer that Connection::mut admits.                                   *)
(***************************************************************************)
EXTENDS Integers, Sequences

CONSTANTS
  Senders,    (* handler and client threads                                *)
  Runway,     (* the runway's thread                                       *)
  Lengths,    (* the lengths of outgoing messages                          *)
  SndBuf,     (* bytes the kernel's send buffer holds                      *)
  MaxPushes   (* bound: bullets pushed                                     *)

ASSUME SendAssumption ==
  /\ Runway \notin Senders
  /\ Lengths \subseteq Nat \ {0}
  /\ SndBuf \in Nat \ {0}
  /\ MaxPushes \in Nat

VARIABLES
  bullets,    (* Connection::bullets                                       *)
  wr,         (* Connection::wr                                            *)
  closed,     (* Connection::closed                                        *)
  alive,      (* the Connection object has not been deleted                *)
  mut,        (* the threads that hold Connection::mut, at most one        *)
  pc,         (* where each thread is                                      *)
  outcome,    (* what ::send did for a thread, until that is stored        *)
  space,      (* free bytes in the kernel's send buffer                    *)
  nospace,    (* SOCK_NOSPACE: tell epoll when there is room again         *)
  outEvent,   (* epoll holds an EPOLLOUT event for the connection          *)
  peer,       (* "open", or "gone" when the peer has reset or hung up      *)
  stream,     (* history: the pieces of the byte stream, in order, that    *)
              (* the kernel accepted or that were deleted unsent           *)
  overwrote,  (* history: the bullets whose sender had the runway write wr *)
              (* between its own write and its test                        *)
  pushes      (* bullets pushed so far                                     *)

vars == <<bullets, wr, closed, alive, mut, pc, outcome, space, nospace, outEvent, peer, stream,
          overwrote, pushes>>
kernel == <<space, nospace, outEvent, peer>>

Threads == Senders \cup {Runway}

(* What outputStream holds, where it starts on the stream, and Bullet::pos. *)
Bullet == [start: Nat, len: Nat, pos: Nat]
Leftover(b) == b.len - b.pos

(* A piece of bullet number of: sent, or deleted with the bullet. *)
Piece == [of: Nat, from: Nat, to: Nat, sent: BOOLEAN]

Handed == IF stream = <<>> THEN 0 ELSE stream[Len(stream)].to
Queued == IF bullets = <<>> THEN Handed
          ELSE bullets[Len(bullets)].start + bullets[Len(bullets)].len

(* The number of the bullet at the front. *)
Front == pushes - Len(bullets) + 1
Torn == {stream[i].of : i \in {j \in 1..Len(stream) : ~stream[j].sent}}

Goto(t, from, to) == pc[t] = from /\ pc' = [pc EXCEPT ![t] = to]
-----------------------------------------------------------------------------
(* Connection::push, then on to Connection::send. *)
Push(t, len) ==
  /\ alive /\ pushes < MaxPushes
  /\ Goto(t, "idle", "send")
  /\ bullets' = Append(bullets, [start |-> Queued, len |-> len, pos |-> 0])
  /\ pushes' = pushes + 1
  /\ UNCHANGED <<wr, closed, alive, mut, outcome, stream, overwrote, kernel>>

(* Mutation: a sender that finds the mutex taken goes away. *)
SendBusy(t) ==
  /\ alive
  /\ IF mut = {} /\ wr
     THEN Goto(t, "send", "loop") /\ mut' = {t}
     ELSE Goto(t, "send", "idle") /\ UNCHANGED mut
  /\ UNCHANGED <<bullets, wr, closed, alive, outcome, stream, overwrote, pushes, kernel>>

(* Lock mut; give up at once if the socket takes nothing. *)
SendEnter(t) ==
  /\ alive /\ mut = {}
  /\ IF wr
     THEN Goto(t, "send", "loop") /\ mut' = {t}
     ELSE Goto(t, "send", "idle") /\ UNCHANGED mut
  /\ UNCHANGED <<bullets, wr, closed, alive, outcome, stream, overwrote, pushes, kernel>>

(* Leave the loop: nothing more to send, or the connection is closed.  The *)
(* test comes before the mutex is released.                                *)
SendLeave(t) ==
  /\ alive
  /\ bullets = <<>> \/ closed
  /\ Goto(t, "loop", "unlock")
  /\ UNCHANGED <<bullets, wr, closed, alive, mut, outcome, stream, overwrote, pushes, kernel>>

SendUnlock(t) ==
  /\ alive
  /\ Goto(t, "unlock", "idle")
  /\ mut' = mut \ {t}
  /\ UNCHANGED <<bullets, wr, closed, alive, outcome, stream, overwrote, pushes, kernel>>

(* Mutation: what was sent of a bullet is sent again. *)
StayPut(b, n) == b

(* Mutation: the position runs one byte ahead. *)
MoveOnPast(b, n) == [b EXCEPT !.pos = @ + n + 1]

(* moveon *)
MoveOn(b, n) == [b EXCEPT !.pos = @ + n]

(* Bullet::send: the kernel takes what it has room for.  A short count     *)
(* moves the bullet on; EAGAIN and errors leave it where it is.            *)
BulletSend(t) ==
  LET b == Head(bullets)
      n == IF peer = "gone" THEN 0 ELSE IF space < Leftover(b) THEN space ELSE Leftover(b)
  IN /\ alive /\ bullets # <<>> /\ ~closed
     /\ Goto(t, "loop", "sent")
     /\ outcome' = [outcome EXCEPT ![t] = IF n = Leftover(b) THEN "all" ELSE "part"]
     /\ bullets' = [bullets EXCEPT ![1] = MoveOn(b, n)]
     /\ stream' = IF n = 0 THEN stream
                  ELSE Append(stream, [of |-> Front, from |-> b.start + b.pos,
                                       to |-> b.start + b.pos + n, sent |-> TRUE])
     /\ space' = space - n
     /\ nospace' = (nospace \/ (n < Leftover(b) /\ peer = "open"))
     /\ UNCHANGED <<wr, closed, alive, mut, outEvent, peer, overwrote, pushes>>

(* wr = bullet->send(socket): the result is stored, ... *)
StoreWr(t) ==
  /\ alive
  /\ wr' = (outcome[t] = "all")
  /\ outcome' = [outcome EXCEPT ![t] = "all"]
  /\ Goto(t, "sent", "test")
  /\ UNCHANGED <<bullets, closed, alive, mut, stream, overwrote, pushes, kernel>>

(* ... and wr is read again: pop the bullet, be it finished or not, and go *)
(* on, or give up with the bullet still at the front.                      *)
TestWr(t) ==
  LET b == Head(bullets)
  IN /\ alive
     /\ IF wr
        THEN /\ Goto(t, "test", "loop")
             /\ bullets' = Tail(bullets)
             /\ stream' = IF Leftover(b) = 0 THEN stream
                          ELSE Append(stream, [of |-> Front, from |-> b.start + b.pos,
                                               to |-> b.start + b.len, sent |-> FALSE])
        ELSE Goto(t, "test", "unlock") /\ UNCHANGED <<bullets, stream>>
     /\ UNCHANGED <<wr, closed, alive, mut, outcome, overwrote, pushes, kernel>>

Send(t) ==
  SendEnter(t) \/ BulletSend(t) \/ StoreWr(t) \/ TestWr(t) \/ SendLeave(t) \/ SendUnlock(t)
-----------------------------------------------------------------------------
(* The runway thread. *)

(* acceptSend, for an event with EPOLLOUT and without EPOLLIN:             *)
(* writable(true), without the mutex, and then send.                       *)
AcceptSend ==
  /\ alive /\ outEvent /\ peer = "open"
  /\ Goto(Runway, "idle", "send")
  /\ outEvent' = FALSE
  /\ wr' = TRUE
  /\ overwrote' = IF ~wr /\ (\E t \in Threads : pc[t] = "test")
                  THEN overwrote \cup {Front} ELSE overwrote
  /\ UNCHANGED <<bullets, closed, alive, mut, outcome, stream, pushes, space, nospace, peer>>

(* Mutation: acceptRecive ends without epoll_mod_in. *)
AcceptReciveUnarmed ==
  /\ alive /\ pc[Runway] = "idle" /\ peer = "open"
  /\ outEvent' = FALSE
  /\ UNCHANGED <<bullets, wr, closed, alive, mut, pc, outcome, stream, overwrote, pushes, space, nospace,
                 peer>>

(* acceptRecive, as far as sending goes: an event with EPOLLIN is treated  *)
(* as that alone, its EPOLLOUT is dropped, but epoll_mod_in polls anew: it *)
(* queues an EPOLLOUT if there is room, and asks for one if there is not.  *)
AcceptRecive ==
  /\ alive /\ pc[Runway] = "idle" /\ peer = "open"
  /\ outEvent' = (space > 0)
  /\ nospace' = (nospace \/ space = 0)
  /\ UNCHANGED <<bullets, wr, closed, alive, mut, pc, outcome, stream, overwrote, pushes, space, peer>>

(* close, when the peer is gone: the flag first, the object afterwards.    *)
(* What other threads do with a deleted Connection is not modelled.        *)
CloseFlag ==
  /\ alive /\ peer = "gone"
  /\ Goto(Runway, "idle", "close")
  /\ closed' = TRUE
  /\ UNCHANGED <<bullets, wr, alive, mut, outcome, stream, overwrote, pushes, kernel>>

CloseDelete ==
  /\ alive
  /\ Goto(Runway, "close", "idle")
  /\ alive' = FALSE
  /\ UNCHANGED <<bullets, wr, closed, mut, outcome, stream, overwrote, pushes, kernel>>
-----------------------------------------------------------------------------
(* The kernel and the peer. *)

(* The peer takes n bytes; whoever was told there was no room is woken. *)
Drain(n) ==
  /\ peer = "open" /\ space + n <= SndBuf
  /\ space' = space + n
  /\ outEvent' = (outEvent \/ nospace)
  /\ nospace' = FALSE
  /\ UNCHANGED <<bullets, wr, closed, alive, mut, pc, outcome, stream, overwrote, pushes, peer>>

PeerGone ==
  /\ peer = "open" /\ peer' = "gone"
  /\ UNCHANGED <<bullets, wr, closed, alive, mut, pc, outcome, stream, overwrote, pushes, space, nospace,
                 outEvent>>
-----------------------------------------------------------------------------
Init ==
  /\ bullets = <<>> /\ wr = TRUE /\ closed = FALSE /\ alive = TRUE /\ mut = {}
  /\ pc = [t \in Threads |-> "idle"] /\ outcome = [t \in Threads |-> "all"]
  /\ space = SndBuf /\ nospace = FALSE /\ outEvent = TRUE /\ peer = "open"
  /\ stream = <<>> /\ overwrote = {} /\ pushes = 0

SenderStep(t) == (\E len \in Lengths : Push(t, len)) \/ Send(t)
RunwayStep == Send(Runway) \/ AcceptSend \/ CloseFlag \/ CloseDelete

Next ==
  \/ \E t \in Senders : SenderStep(t)
  \/ RunwayStep \/ AcceptRecive
  \/ \E n \in 1..SndBuf : Drain(n)
  \/ PeerGone

Spec == Init /\ [][Next]_vars

(* No thread stops inside send, and the runway thread polls for ever.  The *)
(* peer reads as long as it is there.                                      *)
FairSpec ==
  /\ Spec
  /\ \A t \in Senders : WF_vars(Send(t))
  /\ WF_vars(Send(Runway)) /\ WF_vars(AcceptSend) /\ WF_vars(CloseFlag) /\ WF_vars(CloseDelete)
  /\ WF_vars(\E n \in 1..SndBuf : Drain(n))

(* The peer also keeps writing. *)
TwoWaySpec == FairSpec /\ WF_vars(AcceptRecive)
-----------------------------------------------------------------------------
(* Every variable has its type; free space and offsets stay in range.      *)
TypeOK ==
  /\ bullets \in Seq(Bullet)
  /\ \A i \in 1..Len(bullets) : bullets[i].pos <= bullets[i].len
  /\ wr \in BOOLEAN /\ closed \in BOOLEAN /\ alive \in BOOLEAN
  /\ mut \subseteq Threads
  /\ pc \in [Threads -> {"idle", "send", "loop", "sent", "test", "unlock", "close"}]
  /\ outcome \in [Threads -> {"all", "part"}]
  /\ space \in 0..SndBuf /\ nospace \in BOOLEAN /\ outEvent \in BOOLEAN
  /\ peer \in {"open", "gone"}
  /\ stream \in Seq(Piece) /\ overwrote \subseteq Nat
  /\ pushes \in Nat

(* The bytes pushed go to the kernel in the order of the pushes, whichever *)
(* thread sends them, and none twice: each piece starts where the last one *)
(* ended.  Bytes are missing only at the end of a bullet, and only when the*)
(* runway wrote wr between its sender's writing and testing it.            *)
WireInOrder ==
  /\ stream # <<>> => stream[1].from = 0
  /\ \A i \in 1..Len(stream) - 1 : stream[i + 1].from = stream[i].to
  /\ bullets # <<>> => Head(bullets).start + Head(bullets).pos = Handed
  /\ Torn \subseteq overwrote

(* While the socket is believed to take more, queued bullets always have a *)
(* thread on its way to send them: a sender that finds the mutex taken, or *)
(* the queue empty, leaves nothing behind.                                 *)
WritableIsDrained ==
  wr /\ bullets # <<>> /\ ~closed
    => \E t \in Threads : pc[t] \in {"send", "loop", "sent", "test"}

(* Every bullet pushed is sent whole in the end, if the peer stays, but for*)
(* those whose sender had wr overwritten: under TwoWaySpec.  FairSpec alone*)
(* does not give it, see the run send_stalls.                              *)
PushedIsSent ==
  \A k \in 1..MaxPushes :
    (pushes >= k) ~> \/ pushes - Len(bullets) >= k /\ k \notin Torn
                     \/ k \in overwrote \/ peer = "gone"
=============================================================================

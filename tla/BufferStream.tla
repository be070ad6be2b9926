---------------------------- MODULE BufferStream ----------------------------
(***************************************************************************)
(* The growable byte buffer that collects what a socket delivers           *)
(* (leopard/src/BufferStream.cpp, prot/LeopardStream.cpp).                 *)
(*                                                                         *)
(* A buffer is a record.  Its bytes are consecutive bytes of the peer's    *)
(* stream, so their content is given by head, the stream offset of         *)
(* buffer[0]; content turns to "garbage" when a copy overlaps itself or    *)
(* leaves the allocation.  alloc is the true length of the allocation,     *)
(* which the code itself does not keep: it only has capacity.              *)
(***************************************************************************)
EXTENDS Integers

CONSTANTS
  BufUnit,   (* BUF_UNIT: the allocation unit, 4096 in the code            *)
  LenField   (* sizeof(uint64_t): the length field that opens a message    *)

ASSUME BufferAssumption ==
  /\ LenField \in Nat \ {0}
  /\ BufUnit \in Nat \ {0}
  /\ LenField <= BufUnit

Buffer == [pos: Nat, size: Nat, capacity: Nat, alloc: Nat, head: Nat,
           content: {"stream", "garbage"}]

(* BufferStream(): one unit, nothing in it. *)
EmptyBuffer ==
  [pos |-> 0, size |-> 0, capacity |-> BufUnit, alloc |-> BufUnit, head |-> 0,
   content |-> "stream"]

(* The capacity puts asks for when t bytes do not fit. *)
Grown(t) == BufUnit * (t \div BufUnit) + BufUnit

(* puts: grow if need be, copy n bytes at pos, advance.  realloc copies    *)
(* _size bytes to the new allocation, and puts then writes up to t.        *)
Puts(b, n) ==
  LET t == b.pos + n
      grows == t > b.capacity
      alloc == IF grows THEN Grown(t) ELSE b.alloc
  IN [pos |-> t, size |-> t, head |-> b.head, alloc |-> alloc,
      capacity |-> IF grows THEN Grown(t) ELSE b.capacity,
      content |-> IF b.size <= alloc /\ t <= alloc THEN b.content ELSE "garbage"]

(* Mutation: an off-by-one in the comparison of isEnd. *)
IsEndStrict(b, len) == b.pos >= LenField /\ b.size > len

(* isEnd: is the message at the head, of length len, all there? *)
IsEnd(b, len) == b.pos >= LenField /\ b.size >= len

(* Mutation: the leftover counted one byte short. *)
LeftoverShort(b, len) == b.size - len - 1

Leftover(b, len) == b.size - len

(* Mutation: the bytes that follow the picked message are thrown away. *)
PickForgetsLeftover(b, len) == [EmptyBuffer EXCEPT !.head = b.head + b.size]

(* pick: the len bytes at the head become a message of their own and the   *)
(* bytes after them move to the head, with a memcpy.  The realloc for a    *)
(* long leftover copies the old _size bytes into only left of them.        *)
Pick(b, len) ==
  LET left == Leftover(b, len)
      shrinks == left > BufUnit
  IN [pos |-> left, size |-> left, head |-> b.head + len,
      alloc |-> IF shrinks THEN left ELSE b.alloc,
      capacity |-> IF shrinks THEN left ELSE BufUnit,
      content |-> IF left <= len /\ (shrinks => b.size <= left) THEN b.content ELSE "garbage"]
=============================================================================

--------------------------- MODULE SendPathProofs ---------------------------
(***************************************************************************)
(* Proofs about SendPath, for any threads, message lengths and kernel      *)
(* buffer, and any number of bullets.                                      *)
(***************************************************************************)
EXTENDS SendPath, TLAPS

Draining == {"loop", "sent", "test", "unlock"}
Places == {"idle", "send", "loop", "sent", "test", "unlock", "close"}

(* Who drains holds the mutex, alone; only a closed connection is deleted. *)
MutexInv ==
  /\ \A t \in mut : \A u \in mut : t = u
  /\ \A t \in Threads : pc[t] \in Draining <=> t \in mut
  /\ \A t \in Threads : pc[t] = "close" => closed

(* The queued bullets lie end to end on the stream; only the first may     *)
(* have been begun, and a bullet sent whole ends where its bytes end.  A   *)
(* sender about to test wr has stored FALSE for any other, and still finds *)
(* it, unless it has been overwritten.                                     *)
StreamInv ==
  /\ Len(bullets) <= pushes
  /\ \A i \in 1..Len(bullets) - 1 : bullets[i + 1].start = bullets[i].start + bullets[i].len
  /\ \A i \in 2..Len(bullets) : bullets[i].pos = 0
  /\ \A t \in Threads : pc[t] \in {"sent", "test"} => bullets # <<>>
  /\ \A t \in Threads : pc[t] = "sent" /\ outcome[t] = "all" => bullets[1].pos = bullets[1].len
  /\ \A t \in Threads : pc[t] = "test" /\ wr =>
        bullets[1].pos = bullets[1].len \/ Front \in overwrote

IInv == TypeOK /\ MutexInv /\ StreamInv /\ WireInOrder /\ WritableIsDrained
-----------------------------------------------------------------------------
(* A step of thread t from one place to another moves no other thread.     *)
LEMMA GotoType ==
  ASSUME NEW t \in Threads, NEW from, NEW to \in Places,
         pc \in [Threads -> Places], Goto(t, from, to)
  PROVE  /\ pc[t] = from /\ pc'[t] = to
         /\ pc' \in [Threads -> Places]
         /\ \A u \in Threads : u # t => pc'[u] = pc[u]
BY DEF Goto

(* moveon changes the position of a bullet and nothing else.               *)
LEMMA MoveOnType ==
  ASSUME NEW b \in Bullet, NEW n \in Nat
  PROVE  /\ MoveOn(b, n) \in Bullet
         /\ MoveOn(b, n).start = b.start
         /\ MoveOn(b, n).len = b.len
         /\ MoveOn(b, n).pos = b.pos + n
BY DEF MoveOn, Bullet

(* What the kernel has taken is a number of bytes.                         *)
LEMMA HandedType ==
  ASSUME TypeOK
  PROVE  Handed \in Nat
<1>1. stream \in Seq(Piece)
  BY DEF TypeOK
<1>2. CASE stream # <<>>
  <2>1. Len(stream) \in 1..Len(stream)
    BY <1>1, <1>2
  <2>2. stream[Len(stream)] \in Piece
    BY <1>1, <2>1
  <2> QED BY <1>2, <2>2 DEF Handed, Piece
<1> QED BY <1>2 DEF Handed

(* The end of the queue is where the next bullet starts.                   *)
LEMMA QueuedType ==
  ASSUME TypeOK
  PROVE  Queued \in Nat
<1>1. CASE bullets = <<>>
  BY <1>1, HandedType DEF Queued
<1>2. CASE bullets # <<>>
  <2>1. bullets[Len(bullets)] \in Bullet
    BY <1>2 DEF TypeOK
  <2> QED BY <2>1, <1>2 DEF Queued, Bullet
<1> QED BY <1>1, <1>2
-----------------------------------------------------------------------------
(* The number of the bullet at the front is one.                           *)
LEMMA FrontType ==
  ASSUME IInv
  PROVE  Front \in Nat /\ Len(bullets) \in Nat /\ pushes \in Nat
BY DEF IInv, TypeOK, StreamInv, Front

(* A piece more is one more torn bullet if it was not sent.                *)
LEMMA TornAppend ==
  ASSUME stream \in Seq(Piece), NEW p \in Piece, stream' = Append(stream, p)
  PROVE  Torn' = Torn \cup (IF p.sent THEN {} ELSE {p.of})
<1>1. /\ Len(stream) \in Nat /\ Len(stream') = Len(stream) + 1
      /\ stream'[Len(stream) + 1] = p
      /\ \A i \in 1..Len(stream) : stream'[i] = stream[i]
  OBVIOUS
<1>2. \A i : i \in 1..Len(stream') <=> i \in 1..Len(stream) \/ i = Len(stream) + 1
  BY <1>1
<1>3. Torn = {stream[i].of : i \in {j \in 1..Len(stream) : ~stream[j].sent}}
  BY DEF Torn
<1>4. Torn' = {stream'[i].of : i \in {j \in 1..Len(stream') : ~stream'[j].sent}}
  BY DEF Torn
<1>5. ASSUME NEW x \in Torn PROVE x \in Torn'
  <2>1. PICK i \in 1..Len(stream) : ~stream[i].sent /\ x = stream[i].of
    BY <1>3, <1>5
  <2> QED BY <1>1, <1>2, <1>4, <2>1
<1>6. ~p.sent => p.of \in Torn'
  BY <1>1, <1>2, <1>4
<1>7. ASSUME NEW x \in Torn' PROVE x \in Torn \/ (~p.sent /\ x = p.of)
  <2>1. PICK i \in 1..Len(stream') : ~stream'[i].sent /\ x = stream'[i].of
    BY <1>4, <1>7
  <2> QED BY <1>1, <1>2, <1>3, <2>1
<1> QED BY <1>5, <1>6, <1>7

(* A piece that starts where the stream ends keeps it in order.            *)
LEMMA PieceAppend ==
  ASSUME IInv, NEW p \in Piece, stream' = Append(stream, p),
         p.from = Handed, p.sent \/ p.of \in overwrote, overwrote' = overwrote
  PROVE  /\ stream' \in Seq(Piece) /\ Handed' = p.to
         /\ stream'[1].from = 0
         /\ \A i \in 1..Len(stream') - 1 : stream'[i + 1].from = stream'[i].to
         /\ Torn' \subseteq overwrote'
<1>1. stream \in Seq(Piece)
  BY DEF IInv, TypeOK
<1>2. /\ stream' \in Seq(Piece) /\ Len(stream) \in Nat /\ Len(stream') = Len(stream) + 1
      /\ stream'[Len(stream) + 1] = p /\ stream' # <<>>
      /\ \A i \in 1..Len(stream) : stream'[i] = stream[i]
  BY <1>1
<1>3. Handed' = p.to
  BY <1>2 DEF Handed
<1>4. stream'[1].from = 0
  <2>1. CASE stream = <<>>
    BY <2>1, <1>2 DEF Handed
  <2>2. CASE stream # <<>>
    BY <2>2, <1>1, <1>2 DEF IInv, WireInOrder
  <2> QED BY <2>1, <2>2
<1>5. ASSUME NEW i \in 1..Len(stream') - 1
      PROVE  stream'[i + 1].from = stream'[i].to
  <2>1. CASE i < Len(stream)
    BY <2>1, <1>2 DEF IInv, WireInOrder
  <2>2. CASE i = Len(stream)
    <3>1. stream # <<>> /\ stream'[i] = stream[Len(stream)]
      BY <2>2, <1>1, <1>2
    <3> QED BY <3>1, <2>2, <1>2 DEF Handed
  <2> QED BY <2>1, <2>2, <1>2
<1>6. Torn' \subseteq overwrote'
  BY <1>1, TornAppend DEF IInv, WireInOrder
<1> QED BY <1>2, <1>3, <1>4, <1>5, <1>6

(* Steps that leave the bullets, the stream and the outcomes alone: what   *)
(* is left to show is the places of the threads and who holds the mutex.   *)
LEMMA QuietStep ==
  ASSUME IInv, TypeOK', UNCHANGED <<bullets, stream, outcome, pushes>>,
         overwrote \subseteq overwrote',
         \A t \in Threads : pc'[t] = "sent" => pc[t] = "sent",
         \A t \in Threads : pc'[t] = "test" => pc[t] = "test" /\ (wr' => wr \/ Front \in overwrote')
  PROVE  StreamInv' /\ WireInOrder'
<1>1. Handed' = Handed /\ Torn' = Torn /\ Front' = Front
  BY DEF Handed, Torn, Front
<1>2. StreamInv'
  BY <1>1 DEF IInv, StreamInv
<1> QED BY <1>1, <1>2 DEF IInv, WireInOrder

LEMMA PushStep ==
  ASSUME IInv, NEW t \in Threads, NEW len \in Nat \ {0}, Push(t, len)
  PROVE  IInv'
<1> DEFINE b == [start |-> Queued, len |-> len, pos |-> 0]
<1> USE DEF Places
<1>p. pc \in [Threads -> Places]
  BY DEF IInv, TypeOK
<1>g. Goto(t, "idle", "send")
  BY DEF Push
<1>1. /\ pc[t] = "idle" /\ pc'[t] = "send"
      /\ pc' \in [Threads -> Places]
      /\ \A u \in Threads : u # t => pc'[u] = pc[u]
  BY <1>p, <1>g, GotoType
<1>2. /\ bullets' = Append(bullets, b) /\ b \in Bullet /\ bullets \in Seq(Bullet)
      /\ b.start = Queued /\ b.len = len /\ b.pos = 0
  BY QueuedType DEF Push, IInv, TypeOK, Bullet
<1> HIDE DEF b
<1>3. /\ bullets' \in Seq(Bullet) /\ Len(bullets') = Len(bullets) + 1
      /\ Len(bullets) \in Nat
      /\ bullets'[Len(bullets) + 1] = b
      /\ \A i \in 1..Len(bullets) : bullets'[i] = bullets[i]
  BY <1>2
<1>4. bullets' # <<>> /\ Head(bullets') = bullets'[1]
  BY <1>3
<1>5. /\ UNCHANGED <<wr, closed, alive, mut, outcome, stream, overwrote, space, nospace, outEvent, peer>>
      /\ pushes' = pushes + 1
  BY DEF Push, kernel
<1>6. Handed' = Handed /\ Torn' = Torn /\ Front' = Front
  BY <1>3, <1>5, FrontType DEF Handed, Torn, Front
<1>7. TypeOK'
  <2>1. \A i \in 1..Len(bullets') : bullets'[i].pos <= bullets'[i].len
    BY <1>2, <1>3 DEF IInv, TypeOK
  <2>2. pushes' \in Nat
    BY DEF Push, IInv, TypeOK
  <2> QED BY <2>1, <2>2, <1>1, <1>3, <1>5 DEF IInv, TypeOK
<1>8. MutexInv'
  BY <1>1, <1>5 DEF IInv, MutexInv, Draining
<1>9. StreamInv'
  <2>1. ASSUME NEW i \in 1..Len(bullets') - 1
        PROVE  bullets'[i + 1].start = bullets'[i].start + bullets'[i].len
    <3>1. CASE i < Len(bullets)
      BY <1>3, <3>1 DEF IInv, StreamInv
    <3>2. CASE i = Len(bullets)
      <4>1. bullets # <<>> /\ bullets'[i] = bullets[Len(bullets)]
        BY <1>3, <3>2
      <4> QED BY <4>1, <1>2, <1>3, <3>2 DEF Queued
    <3> QED BY <1>3, <3>1, <3>2
  <2>2. \A i \in 2..Len(bullets') : bullets'[i].pos = 0
    BY <1>2, <1>3 DEF IInv, StreamInv
  <2>3. ASSUME NEW u \in Threads, pc'[u] \in {"sent", "test"}
        PROVE  /\ bullets' # <<>>
               /\ pc'[u] = "sent" /\ outcome'[u] = "all" => bullets'[1].pos = bullets'[1].len
               /\ pc'[u] = "test" /\ wr' => bullets'[1].pos = bullets'[1].len \/ Front' \in overwrote'
    <3>1. pc[u] = pc'[u]
      BY <2>3, <1>1
    <3>2. bullets # <<>> /\ bullets'[1] = bullets[1]
      BY <2>3, <3>1, <1>2, <1>3 DEF IInv, StreamInv
    <3> QED BY <2>3, <3>1, <3>2, <1>4, <1>5, <1>6 DEF IInv, StreamInv
  <2>4. Len(bullets') <= pushes'
    BY <1>3, <1>5, FrontType DEF IInv, StreamInv
  <2> QED BY <2>1, <2>2, <2>3, <2>4 DEF StreamInv
<1>10. WireInOrder'
  <2>1. CASE bullets = <<>>
    <3>1. bullets'[1] = b /\ b.start + b.pos = Handed
      BY <2>1, <1>2, <1>3, HandedType DEF Queued, IInv
    <3> QED BY <3>1, <1>4, <1>5, <1>6 DEF IInv, WireInOrder
  <2>2. CASE bullets # <<>>
    <3>1. Head(bullets') = Head(bullets)
      BY <2>2, <1>2, <1>3, <1>4
    <3> QED BY <3>1, <2>2, <1>5, <1>6 DEF IInv, WireInOrder
  <2> QED BY <2>1, <2>2
<1>11. WritableIsDrained'
  BY <1>1 DEF WritableIsDrained
<1> QED BY <1>7, <1>8, <1>9, <1>10, <1>11 DEF IInv
-----------------------------------------------------------------------------
LEMMA SendEnterStep ==
  ASSUME IInv, NEW t \in Threads, SendEnter(t)
  PROVE  IInv'
<1> USE DEF Places
<1>p. pc \in [Threads -> Places]
  BY DEF IInv, TypeOK
<1>1. UNCHANGED <<bullets, wr, closed, alive, outcome, stream, overwrote, pushes, space, nospace, outEvent, peer>> /\ mut = {}
  BY DEF SendEnter, kernel
<1>2. CASE wr
  <2>1. Goto(t, "send", "loop") /\ mut' = {t}
    BY <1>2 DEF SendEnter
  <2>2. /\ pc[t] = "send" /\ pc'[t] = "loop"
        /\ pc' \in [Threads -> Places]
        /\ \A u \in Threads : u # t => pc'[u] = pc[u]
    BY <1>p, <2>1, GotoType
  <2>3. TypeOK'
    BY <1>1, <2>1, <2>2 DEF IInv, TypeOK
  <2>4. MutexInv'
    BY <1>1, <2>1, <2>2 DEF IInv, MutexInv, Draining
  <2>5. StreamInv' /\ WireInOrder'
    BY <1>1, <2>2, <2>3, QuietStep
  <2>6. WritableIsDrained'
    BY <2>2 DEF WritableIsDrained
  <2> QED BY <2>3, <2>4, <2>5, <2>6 DEF IInv
<1>3. CASE ~wr
  <2>1. Goto(t, "send", "idle") /\ mut' = mut
    BY <1>3 DEF SendEnter
  <2>2. /\ pc[t] = "send" /\ pc'[t] = "idle"
        /\ pc' \in [Threads -> Places]
        /\ \A u \in Threads : u # t => pc'[u] = pc[u]
    BY <1>p, <2>1, GotoType
  <2>3. TypeOK'
    BY <1>1, <2>1, <2>2 DEF IInv, TypeOK
  <2>4. MutexInv'
    BY <1>1, <2>1, <2>2 DEF IInv, MutexInv, Draining
  <2>5. StreamInv' /\ WireInOrder'
    BY <1>1, <2>2, <2>3, QuietStep
  <2>6. WritableIsDrained'
    BY <1>1, <1>3 DEF WritableIsDrained
  <2> QED BY <2>3, <2>4, <2>5, <2>6 DEF IInv
<1> QED BY <1>2, <1>3

LEMMA SendLeaveStep ==
  ASSUME IInv, NEW t \in Threads, SendLeave(t)
  PROVE  IInv'
<1> USE DEF Places
<1>p. pc \in [Threads -> Places]
  BY DEF IInv, TypeOK
<1>1. UNCHANGED <<bullets, wr, closed, alive, mut, outcome, stream, overwrote, pushes, space, nospace, outEvent, peer>>
  BY DEF SendLeave, kernel
<1>g. Goto(t, "loop", "unlock")
  BY DEF SendLeave
<1>2. /\ pc[t] = "loop" /\ pc'[t] = "unlock"
      /\ pc' \in [Threads -> Places]
      /\ \A u \in Threads : u # t => pc'[u] = pc[u]
  BY <1>p, <1>g, GotoType
<1>3. TypeOK'
  BY <1>1, <1>2 DEF IInv, TypeOK
<1>4. MutexInv'
  BY <1>1, <1>2 DEF IInv, MutexInv, Draining
<1>5. StreamInv' /\ WireInOrder'
  BY <1>1, <1>2, <1>3, QuietStep
<1>6. WritableIsDrained'
  BY <1>1 DEF WritableIsDrained, SendLeave
<1> QED BY <1>3, <1>4, <1>5, <1>6 DEF IInv

LEMMA SendUnlockStep ==
  ASSUME IInv, NEW t \in Threads, SendUnlock(t)
  PROVE  IInv'
<1> USE DEF Places
<1>p. pc \in [Threads -> Places]
  BY DEF IInv, TypeOK
<1>1. UNCHANGED <<bullets, wr, closed, alive, outcome, stream, overwrote, pushes, space, nospace, outEvent, peer>>
      /\ mut' = mut \ {t}
  BY DEF SendUnlock, kernel
<1>g. Goto(t, "unlock", "idle")
  BY DEF SendUnlock
<1>2. /\ pc[t] = "unlock" /\ pc'[t] = "idle"
      /\ pc' \in [Threads -> Places]
      /\ \A u \in Threads : u # t => pc'[u] = pc[u]
  BY <1>p, <1>g, GotoType
<1>3. TypeOK'
  BY <1>1, <1>2 DEF IInv, TypeOK
<1>4. MutexInv'
  BY <1>1, <1>2 DEF IInv, MutexInv, Draining
<1>5. StreamInv' /\ WireInOrder'
  BY <1>1, <1>2, <1>3, QuietStep
<1>6. WritableIsDrained'
  BY <1>1, <1>2 DEF WritableIsDrained, IInv
<1> QED BY <1>3, <1>4, <1>5, <1>6 DEF IInv

LEMMA BulletSendStep ==
  ASSUME IInv, NEW t \in Threads, BulletSend(t)
  PROVE  IInv'
<1> USE DEF Places
<1> DEFINE b == Head(bullets)
           n == IF peer = "gone" THEN 0 ELSE IF space < Leftover(b) THEN space ELSE Leftover(b)
           piece == [of |-> Front, from |-> b.start + b.pos, to |-> b.start + b.pos + n, sent |-> TRUE]
<1>0. /\ bullets # <<>> /\ bullets' = [bullets EXCEPT ![1] = MoveOn(b, n)]
      /\ outcome' = [outcome EXCEPT ![t] = IF n = Leftover(b) THEN "all" ELSE "part"]
      /\ stream' = IF n = 0 THEN stream ELSE Append(stream, piece)
      /\ space' = space - n
  BY DEF BulletSend
<1>1. UNCHANGED <<wr, closed, alive, mut, outEvent, peer, overwrote, pushes>>
  BY DEF BulletSend
<1>p. pc \in [Threads -> Places]
  BY DEF IInv, TypeOK
<1>g. Goto(t, "loop", "sent")
  BY DEF BulletSend
<1>2. /\ pc[t] = "loop" /\ pc'[t] = "sent"
      /\ pc' \in [Threads -> Places]
      /\ \A u \in Threads : u # t => pc'[u] = pc[u]
  BY <1>p, <1>g, GotoType
<1>3. /\ bullets \in Seq(Bullet) /\ Len(bullets) \in Nat \ {0} /\ 1 \in 1..Len(bullets)
      /\ b = bullets[1] /\ b \in Bullet
  BY <1>0 DEF IInv, TypeOK
<1>4. b.start \in Nat /\ b.len \in Nat /\ b.pos \in Nat /\ b.pos <= b.len
  BY <1>3 DEF Bullet, IInv, TypeOK
<1>5. SndBuf \in Nat /\ space \in 0..SndBuf
  BY SendAssumption DEF IInv, TypeOK
<1>6. n \in Nat /\ n <= space /\ n <= b.len - b.pos /\ (n = Leftover(b) <=> n = b.len - b.pos)
  BY <1>4, <1>5 DEF Leftover
<1> HIDE DEF n, b
<1>7. /\ MoveOn(b, n) \in Bullet /\ MoveOn(b, n).start = b.start
      /\ MoveOn(b, n).len = b.len /\ MoveOn(b, n).pos = b.pos + n
  BY <1>3, <1>6, MoveOnType
<1>8. /\ bullets' \in Seq(Bullet) /\ Len(bullets') = Len(bullets) /\ bullets' # <<>>
      /\ bullets'[1] = MoveOn(b, n)
      /\ \A i \in 2..Len(bullets) : bullets'[i] = bullets[i]
  BY <1>0, <1>3, <1>7
<1>9. Head(bullets') = bullets'[1]
  BY <1>8
<1>10. b.start + b.pos = Handed
  BY <1>0 DEF IInv, WireInOrder, b
<1>11. stream \in Seq(Piece)
  BY DEF IInv, TypeOK
<1>12. /\ piece \in Piece /\ piece.from = b.start + b.pos /\ piece.to = b.start + b.pos + n
       /\ piece.sent
  BY <1>4, <1>6, FrontType DEF Piece
<1> HIDE DEF piece
<1>13. n # 0 => /\ stream' \in Seq(Piece) /\ Handed' = b.start + b.pos + n
                /\ stream'[1].from = 0
                /\ \A i \in 1..Len(stream') - 1 : stream'[i + 1].from = stream'[i].to
                /\ Torn' \subseteq overwrote'
  BY <1>0, <1>1, <1>10, <1>12, PieceAppend
<1>14. n = 0 => stream' = stream /\ Handed' = Handed /\ Torn' = Torn
  BY <1>0 DEF Handed, Torn
<1>15. TypeOK'
  <2>1. \A i \in 1..Len(bullets') : bullets'[i].pos <= bullets'[i].len
    <3>1. bullets'[1].pos <= bullets'[1].len
      BY <1>4, <1>6, <1>7, <1>8
    <3>2. ASSUME NEW i \in 2..Len(bullets) PROVE bullets'[i].pos <= bullets'[i].len
      <4>1. i \in 1..Len(bullets) /\ bullets'[i] = bullets[i]
        BY <1>3, <1>8
      <4> QED BY <4>1 DEF IInv, TypeOK
    <3> QED BY <3>1, <3>2, <1>8, <1>3
  <2>2. space' \in 0..SndBuf
    BY <1>0, <1>5, <1>6
  <2>3. stream' \in Seq(Piece)
    BY <1>11, <1>13, <1>14
  <2>4. outcome' \in [Threads -> {"all", "part"}]
    BY <1>0 DEF IInv, TypeOK
  <2>5. nospace' \in BOOLEAN
    BY DEF BulletSend, IInv, TypeOK
  <2> QED BY <2>1, <2>2, <2>3, <2>4, <2>5, <1>1, <1>2, <1>8 DEF IInv, TypeOK
<1>16. MutexInv'
  BY <1>1, <1>2 DEF IInv, MutexInv, Draining
<1>17. StreamInv'
  <2>1. ASSUME NEW i \in 1..Len(bullets') - 1
        PROVE  bullets'[i + 1].start = bullets'[i].start + bullets'[i].len
    <3>1. bullets'[i + 1] = bullets[i + 1]
      BY <1>3, <1>8
    <3>2. bullets'[i].start = bullets[i].start /\ bullets'[i].len = bullets[i].len
      BY <1>3, <1>7, <1>8
    <3>3. bullets[i + 1].start = bullets[i].start + bullets[i].len
      BY <1>8 DEF IInv, StreamInv
    <3> QED BY <3>1, <3>2, <3>3
  <2>2. \A i \in 2..Len(bullets') : bullets'[i].pos = 0
    BY <1>8 DEF IInv, StreamInv
  <2>3. ASSUME NEW u \in Threads, pc'[u] \in {"sent", "test"}
        PROVE  u = t /\ bullets' # <<>> /\ (outcome'[u] = "all" => bullets'[1].pos = bullets'[1].len)
    <3>1. u = t
      BY <2>3, <1>2 DEF IInv, MutexInv, Draining
    <3>2. outcome'[t] = "all" => n = b.len - b.pos
      BY <1>0, <1>6 DEF IInv, TypeOK
    <3>3. n = b.len - b.pos => b.pos + n = b.len
      BY <1>4, <1>6
    <3> QED BY <3>1, <3>2, <3>3, <1>7, <1>8
  <2>4. Len(bullets') <= pushes'
    BY <1>1, <1>8 DEF IInv, StreamInv
  <2> QED BY <2>1, <2>2, <2>3, <2>4, <1>2 DEF StreamInv
<1>18. WireInOrder'
  <2>1. Head(bullets').start + Head(bullets').pos = b.start + b.pos + n
    BY <1>4, <1>6, <1>7, <1>8, <1>9
  <2>2. CASE n = 0
    BY <2>1, <2>2, <1>1, <1>4, <1>10, <1>14 DEF IInv, WireInOrder
  <2>3. CASE n # 0
    BY <2>1, <2>3, <1>13 DEF WireInOrder
  <2> QED BY <2>2, <2>3
<1>19. WritableIsDrained'
  BY <1>2 DEF WritableIsDrained
<1> QED BY <1>15, <1>16, <1>17, <1>18, <1>19 DEF IInv

LEMMA StoreWrStep ==
  ASSUME IInv, NEW t \in Threads, StoreWr(t)
  PROVE  IInv'
<1> USE DEF Places
<1>p. pc \in [Threads -> Places]
  BY DEF IInv, TypeOK
<1>1. /\ UNCHANGED <<bullets, closed, alive, mut, stream, overwrote, pushes, space, nospace, outEvent, peer>>
      /\ wr' = (outcome[t] = "all") /\ outcome' = [outcome EXCEPT ![t] = "all"]
      /\ Goto(t, "sent", "test")
  BY DEF StoreWr, kernel
<1>2. /\ pc[t] = "sent" /\ pc'[t] = "test"
      /\ pc' \in [Threads -> Places]
      /\ \A u \in Threads : u # t => pc'[u] = pc[u]
  BY <1>p, <1>1, GotoType
<1>3. Handed' = Handed /\ Torn' = Torn
  BY <1>1 DEF Handed, Torn
<1>4. TypeOK'
  <2>1. outcome' \in [Threads -> {"all", "part"}] /\ wr' \in BOOLEAN
    BY <1>1 DEF IInv, TypeOK
  <2> QED BY <2>1, <1>1, <1>2 DEF IInv, TypeOK
<1>5. MutexInv'
  BY <1>1, <1>2 DEF IInv, MutexInv, Draining
<1>6. StreamInv'
  <2>1. \A u \in Threads : pc'[u] \in {"sent", "test"} => u = t
    BY <1>2 DEF IInv, MutexInv, Draining
  <2>2. bullets # <<>> /\ (wr' => bullets[1].pos = bullets[1].len)
    BY <1>1, <1>2 DEF IInv, StreamInv
  <2> QED BY <2>1, <2>2, <1>1, <1>2 DEF IInv, StreamInv
<1>7. WireInOrder'
  BY <1>1, <1>3 DEF IInv, WireInOrder
<1>8. WritableIsDrained'
  BY <1>2 DEF WritableIsDrained
<1> QED BY <1>4, <1>5, <1>6, <1>7, <1>8 DEF IInv

LEMMA TestWrStep ==
  ASSUME IInv, NEW t \in Threads, TestWr(t)
  PROVE  IInv'
<1> USE DEF Places
<1> DEFINE b == Head(bullets)
           piece == [of |-> Front, from |-> b.start + b.pos, to |-> b.start + b.len, sent |-> FALSE]
<1>p. pc \in [Threads -> Places]
  BY DEF IInv, TypeOK
<1>1. UNCHANGED <<wr, closed, alive, mut, outcome, overwrote, pushes, space, nospace, outEvent, peer>>
  BY DEF TestWr, kernel
<1>2. CASE wr
  <2>1. /\ Goto(t, "test", "loop") /\ bullets' = Tail(bullets)
        /\ stream' = IF Leftover(b) = 0 THEN stream ELSE Append(stream, piece)
    BY <1>2 DEF TestWr
  <2>2. /\ pc[t] = "test" /\ pc'[t] = "loop"
        /\ pc' \in [Threads -> Places]
        /\ \A u \in Threads : u # t => pc'[u] = pc[u]
    BY <1>p, <2>1, GotoType
  <2>3. bullets # <<>> /\ bullets \in Seq(Bullet)
    BY <2>2 DEF IInv, StreamInv, TypeOK
  <2>4. /\ bullets' \in Seq(Bullet) /\ Len(bullets') = Len(bullets) - 1
        /\ Len(bullets) \in Nat \ {0}
        /\ \A i \in 1..Len(bullets) - 1 : bullets'[i] = bullets[i + 1]
    BY <2>1, <2>3
  <2>b. b = bullets[1] /\ b \in Bullet
    BY <2>3, <2>4
  <2>l. b.start \in Nat /\ b.len \in Nat /\ b.pos \in Nat /\ b.start + b.pos = Handed
    BY <2>b, <2>3 DEF Bullet, IInv, WireInOrder
  <2> HIDE DEF b
  <2>f. /\ stream' \in Seq(Piece) /\ Handed' = b.start + b.len /\ Torn' \subseteq overwrote'
        /\ stream' # <<>> => stream'[1].from = 0
        /\ \A i \in 1..Len(stream') - 1 : stream'[i + 1].from = stream'[i].to
    <3>1. CASE Leftover(b) = 0
      <4>1. stream' = stream /\ Handed' = Handed /\ Torn' = Torn
        BY <2>1, <3>1 DEF Handed, Torn
      <4>2. b.start + b.len = Handed
        BY <2>l, <3>1 DEF Leftover
      <4> QED BY <4>1, <4>2, <1>1 DEF IInv, TypeOK, WireInOrder
    <3>2. CASE Leftover(b) # 0
      <4>1. Front \in overwrote
        BY <2>2, <2>b, <2>l, <1>2, <3>2 DEF IInv, StreamInv, Leftover
      <4>2. piece \in Piece /\ piece.of = Front /\ piece.from = b.start + b.pos /\ piece.to = b.start + b.len
        BY <2>l, FrontType DEF Piece
      <4> HIDE DEF piece
      <4>3. stream' = Append(stream, piece)
        BY <2>1, <3>2
      <4> QED BY <4>1, <4>2, <4>3, <2>l, <1>1, PieceAppend
    <3> QED BY <3>1, <3>2
  <2>5. TypeOK'
    <3>1. ASSUME NEW i \in 1..Len(bullets')
          PROVE  bullets'[i].pos <= bullets'[i].len
      <4>1. i + 1 \in 1..Len(bullets) /\ bullets'[i] = bullets[i + 1]
        BY <2>4
      <4> QED BY <4>1 DEF IInv, TypeOK
    <3> QED BY <3>1, <1>1, <2>2, <2>4, <2>f DEF IInv, TypeOK
  <2>6. MutexInv'
    BY <1>1, <2>2 DEF IInv, MutexInv, Draining
  <2>7. StreamInv'
    <3>1. ASSUME NEW i \in 1..Len(bullets') - 1
          PROVE  bullets'[i + 1].start = bullets'[i].start + bullets'[i].len
      <4>1. i + 1 \in 1..Len(bullets) - 1 /\ bullets'[i + 1] = bullets[(i + 1) + 1] /\ bullets'[i] = bullets[i + 1]
        BY <2>4
      <4> QED BY <4>1 DEF IInv, StreamInv
    <3>2. \A i \in 2..Len(bullets') : bullets'[i].pos = 0
      BY <2>4 DEF IInv, StreamInv
    <3>3. \A u \in Threads : pc'[u] \notin {"sent", "test"}
      BY <2>2 DEF IInv, MutexInv, Draining
    <3>4. Len(bullets') <= pushes'
      BY <1>1, <2>4, FrontType DEF IInv, StreamInv
    <3> QED BY <3>1, <3>2, <3>3, <3>4 DEF StreamInv
  <2>8. WireInOrder'
    <3>1. ASSUME bullets' # <<>>
          PROVE  Head(bullets').start + Head(bullets').pos = Handed'
      <4>1. Len(bullets) - 1 >= 1 /\ Head(bullets') = bullets[2]
        BY <3>1, <2>3, <2>4
      <4>2. bullets[2].start = b.start + b.len /\ bullets[2].pos = 0
        BY <4>1, <2>4, <2>b DEF IInv, StreamInv
      <4> QED BY <4>1, <4>2, <2>l, <2>f
    <3> QED BY <3>1, <2>f DEF WireInOrder
  <2>9. WritableIsDrained'
    BY <2>2 DEF WritableIsDrained
  <2> QED BY <2>5, <2>6, <2>7, <2>8, <2>9 DEF IInv
<1>3. CASE ~wr
  <2>1. Goto(t, "test", "unlock") /\ UNCHANGED <<bullets, stream>>
    BY <1>3 DEF TestWr
  <2>2. /\ pc[t] = "test" /\ pc'[t] = "unlock"
        /\ pc' \in [Threads -> Places]
        /\ \A u \in Threads : u # t => pc'[u] = pc[u]
    BY <1>p, <2>1, GotoType
  <2>3. TypeOK'
    BY <1>1, <2>1, <2>2 DEF IInv, TypeOK
  <2>4. MutexInv'
    BY <1>1, <2>2 DEF IInv, MutexInv, Draining
  <2>5. StreamInv' /\ WireInOrder'
    BY <1>1, <2>1, <2>2, <2>3, QuietStep
  <2>6. WritableIsDrained'
    BY <1>1, <1>3 DEF WritableIsDrained
  <2> QED BY <2>3, <2>4, <2>5, <2>6 DEF IInv
<1> QED BY <1>2, <1>3

(* The runway thread's own steps outside send.                             *)
LEMMA RunwayOwnStep ==
  ASSUME IInv, AcceptSend \/ AcceptRecive \/ CloseFlag \/ CloseDelete
  PROVE  IInv'
<1> USE DEF Places
<1>p. pc \in [Threads -> Places] /\ Runway \in Threads
  BY DEF IInv, TypeOK, Threads
<1>1. UNCHANGED <<bullets, mut, outcome, stream, pushes, space, peer>>
  BY DEF AcceptSend, AcceptRecive, CloseFlag, CloseDelete, kernel
<1>2. ASSUME AcceptSend PROVE IInv'
  <2>1. /\ wr' = TRUE /\ outEvent' = FALSE /\ UNCHANGED <<closed, alive, nospace>>
        /\ Goto(Runway, "idle", "send")
        /\ overwrote' = IF ~wr /\ (\E t \in Threads : pc[t] = "test")
                        THEN overwrote \cup {Front} ELSE overwrote
    BY <1>2 DEF AcceptSend
  <2>2. /\ pc[Runway] = "idle" /\ pc'[Runway] = "send"
        /\ pc' \in [Threads -> Places]
        /\ \A u \in Threads : u # Runway => pc'[u] = pc[u]
    BY <1>p, <2>1, GotoType
  <2>3. TypeOK'
    BY <1>1, <2>1, <2>2, FrontType DEF IInv, TypeOK
  <2>4. MutexInv'
    BY <1>1, <2>1, <2>2 DEF IInv, MutexInv, Draining
  <2>5. StreamInv' /\ WireInOrder'
    <3>1. overwrote \subseteq overwrote'
      BY <2>1
    <3>2. \A t \in Threads : pc'[t] = "test" => pc[t] = "test" /\ (wr \/ Front \in overwrote')
      BY <2>1, <2>2
    <3>3. \A t \in Threads : pc'[t] = "sent" => pc[t] = "sent"
      BY <2>2
    <3> QED BY <1>1, <2>3, <3>1, <3>2, <3>3, QuietStep
  <2>6. WritableIsDrained'
    BY <1>p, <2>2 DEF WritableIsDrained
  <2> QED BY <2>3, <2>4, <2>5, <2>6 DEF IInv
<1>3. ASSUME AcceptRecive PROVE IInv'
  <2>1. UNCHANGED <<wr, closed, alive, pc, overwrote>> /\ outEvent' \in BOOLEAN /\ nospace' \in BOOLEAN
    BY <1>3 DEF AcceptRecive, IInv, TypeOK
  <2>2. TypeOK' /\ MutexInv' /\ WritableIsDrained'
    BY <1>1, <2>1 DEF IInv, TypeOK, MutexInv, WritableIsDrained
  <2>3. StreamInv' /\ WireInOrder'
    BY <1>1, <2>1, <2>2, QuietStep
  <2> QED BY <2>2, <2>3 DEF IInv
<1>4. ASSUME CloseFlag PROVE IInv'
  <2>1. closed' = TRUE /\ UNCHANGED <<wr, alive, overwrote, nospace, outEvent>> /\ Goto(Runway, "idle", "close")
    BY <1>4 DEF CloseFlag, kernel
  <2>2. /\ pc[Runway] = "idle" /\ pc'[Runway] = "close"
        /\ pc' \in [Threads -> Places]
        /\ \A u \in Threads : u # Runway => pc'[u] = pc[u]
    BY <1>p, <2>1, GotoType
  <2>3. TypeOK'
    BY <1>1, <2>1, <2>2 DEF IInv, TypeOK
  <2>4. MutexInv'
    BY <1>1, <2>1, <2>2 DEF IInv, MutexInv, Draining
  <2>5. StreamInv' /\ WireInOrder'
    BY <1>1, <2>1, <2>2, <2>3, QuietStep
  <2>6. WritableIsDrained'
    BY <2>1 DEF WritableIsDrained
  <2> QED BY <2>3, <2>4, <2>5, <2>6 DEF IInv
<1>5. ASSUME CloseDelete PROVE IInv'
  <2>1. alive' = FALSE /\ UNCHANGED <<wr, closed, overwrote, nospace, outEvent>> /\ Goto(Runway, "close", "idle")
    BY <1>5 DEF CloseDelete, kernel
  <2>2. /\ pc[Runway] = "close" /\ pc'[Runway] = "idle"
        /\ pc' \in [Threads -> Places]
        /\ \A u \in Threads : u # Runway => pc'[u] = pc[u]
    BY <1>p, <2>1, GotoType
  <2>3. TypeOK'
    BY <1>1, <2>1, <2>2 DEF IInv, TypeOK
  <2>4. MutexInv'
    BY <1>1, <2>1, <2>2 DEF IInv, MutexInv, Draining
  <2>5. StreamInv' /\ WireInOrder'
    BY <1>1, <2>1, <2>2, <2>3, QuietStep
  <2>6. WritableIsDrained'
    BY <1>p, <2>1, <2>2 DEF WritableIsDrained, IInv, MutexInv
  <2> QED BY <2>3, <2>4, <2>5, <2>6 DEF IInv
<1> QED BY <1>2, <1>3, <1>4, <1>5

(* The kernel drains and the peer leaves.                                  *)
LEMMA NetworkStep ==
  ASSUME IInv, PeerGone \/ \E n \in 1..SndBuf : Drain(n)
  PROVE  IInv'
<1>1. UNCHANGED <<bullets, wr, closed, alive, mut, pc, outcome, stream, overwrote, pushes>>
  BY DEF PeerGone, Drain
<1>2. space' \in 0..SndBuf /\ nospace' \in BOOLEAN /\ outEvent' \in BOOLEAN /\ peer' \in {"open", "gone"}
  <2>1. space \in 0..SndBuf /\ SndBuf \in Nat /\ nospace \in BOOLEAN /\ outEvent \in BOOLEAN /\ peer \in {"open", "gone"}
    BY SendAssumption DEF IInv, TypeOK
  <2>2. CASE PeerGone
    BY <2>1, <2>2 DEF PeerGone
  <2>3. ASSUME NEW n \in 1..SndBuf, Drain(n)
        PROVE  /\ space' \in 0..SndBuf /\ nospace' \in BOOLEAN
               /\ outEvent' \in BOOLEAN /\ peer' \in {"open", "gone"}
    <3>1. space' \in 0..SndBuf
      BY <2>1, <2>3 DEF Drain
    <3>2. nospace' \in BOOLEAN
      BY <2>3 DEF Drain
    <3>3. outEvent' \in BOOLEAN
      BY <2>3 DEF Drain
    <3>4. peer' \in {"open", "gone"}
      BY <2>1, <2>3 DEF Drain
    <3> QED BY <3>1, <3>2, <3>3, <3>4
  <2> QED BY <2>2, <2>3
<1>3. TypeOK' /\ MutexInv' /\ WritableIsDrained'
  BY <1>1, <1>2 DEF IInv, TypeOK, MutexInv, WritableIsDrained
<1>4. StreamInv' /\ WireInOrder'
  BY <1>1, <1>3, QuietStep
<1> QED BY <1>3, <1>4 DEF IInv
-----------------------------------------------------------------------------
LEMMA InitIInv == Init => IInv
<1>1. ASSUME Init PROVE TypeOK
  <2>1. bullets \in Seq(Bullet)
    <3>1. <<>> \in Seq(Bullet)
      OBVIOUS
    <3> QED BY <3>1, <1>1 DEF Init
  <2>2. stream \in Seq(Piece)
    <3>1. <<>> \in Seq(Piece)
      OBVIOUS
    <3> QED BY <3>1, <1>1 DEF Init
  <2>3. \A i \in 1..Len(bullets) : bullets[i].pos <= bullets[i].len
    BY <1>1 DEF Init
  <2>4. space \in 0..SndBuf
    BY <1>1, SendAssumption DEF Init
  <2> QED BY <1>1, <2>1, <2>2, <2>3, <2>4 DEF Init, TypeOK
<1>2. ASSUME Init PROVE MutexInv /\ StreamInv /\ WireInOrder /\ WritableIsDrained
  BY <1>2 DEF Init, MutexInv, Draining, StreamInv, WireInOrder, WritableIsDrained, Torn
<1> QED BY <1>1, <1>2 DEF IInv

LEMMA NextIInv == IInv /\ [Next]_vars => IInv'
<1> SUFFICES ASSUME IInv, [Next]_vars PROVE IInv'
  OBVIOUS
<1>1. ASSUME NEW t \in Senders, NEW len \in Lengths, Push(t, len)
      PROVE  IInv'
  BY <1>1, PushStep, SendAssumption DEF Threads
<1>2. ASSUME NEW t \in Threads, Send(t)
      PROVE  IInv'
  BY <1>2, SendEnterStep, BulletSendStep, StoreWrStep, TestWrStep, SendLeaveStep, SendUnlockStep DEF Send
<1>3. CASE AcceptSend \/ AcceptRecive \/ CloseFlag \/ CloseDelete
  BY <1>3, RunwayOwnStep
<1>4. CASE PeerGone \/ \E n \in 1..SndBuf : Drain(n)
  BY <1>4, NetworkStep
<1>5. CASE UNCHANGED vars
  BY <1>5 DEF vars, kernel, IInv, TypeOK, MutexInv, StreamInv, WireInOrder, WritableIsDrained,
              Handed, Torn, Front
<1> QED BY <1>1, <1>2, <1>3, <1>4, <1>5 DEF Next, SenderStep, RunwayStep, Threads

(* The invariant behind the other theorems: the mutex excludes, the queued *)
(* bullets lie end to end on the stream and continue the stream.             *)
THEOREM Invariance == Spec => []IInv
BY InitIInv, NextIInv, PTL DEF Spec

(* Whatever threads call Connection::send, the kernel is handed the bytes  *)
(* of the bullets in the order of the pushes, none repeated, and none left *)
(* out but the rest of a bullet whose sender had wr overwritten between    *)
(* writing and testing it.                                                 *)
THEOREM BytesInOrder == Spec => []WireInOrder
<1>1. IInv => WireInOrder
  BY DEF IInv
<1> QED BY <1>1, Invariance, PTL

(* While wr is set, a queued bullet always has a thread on its way to it.  *)
THEOREM NoneLeftBehind == Spec => []WritableIsDrained
<1>1. IInv => WritableIsDrained
  BY DEF IInv
<1> QED BY <1>1, Invariance, PTL

(* Every variable keeps its type, and no bullet is sent past its end.      *)
THEOREM TypeCorrect == Spec => []TypeOK
<1>1. IInv => TypeOK
  BY DEF IInv
<1> QED BY <1>1, Invariance, PTL
-----------------------------------------------------------------------------
(* A thread drains only while wr is set; and while wr is not, or is about  *)
(* to be cleared, the kernel has room or has been told to report it.       *)
Refused == ~wr \/ \E t \in Threads : pc[t] = "sent" /\ outcome[t] = "part"

NotedInv ==
  /\ \A t \in Threads : pc[t] = "loop" => wr
  /\ peer = "open" /\ Refused => nospace \/ space > 0

(* What Bullet::send reports of the socket, and what it asks of the kernel. *)
LEMMA BulletSendNotes ==
  ASSUME IInv, NEW t \in Threads, BulletSend(t)
  PROVE  /\ outcome'[t] = "part" /\ peer = "open" => nospace'
         /\ pc[t] = "loop" /\ pc'[t] = "sent"
         /\ \A u \in Threads : u # t => pc'[u] = pc[u]
         /\ UNCHANGED <<wr, peer>>
<1> DEFINE b == Head(bullets)
           n == IF peer = "gone" THEN 0 ELSE IF space < Leftover(b) THEN space ELSE Leftover(b)
<1>1. /\ bullets # <<>>
      /\ outcome' = [outcome EXCEPT ![t] = IF n = Leftover(b) THEN "all" ELSE "part"]
      /\ nospace' = (nospace \/ (n < Leftover(b) /\ peer = "open"))
      /\ Goto(t, "loop", "sent")
      /\ UNCHANGED <<wr, peer>>
  BY DEF BulletSend
<1>2. bullets \in Seq(Bullet) /\ 1 \in 1..Len(bullets) /\ b = bullets[1]
  BY <1>1 DEF IInv, TypeOK
<1>t. b \in Bullet /\ b.pos <= b.len
  BY <1>2 DEF IInv, TypeOK
<1>r. /\ SndBuf \in Nat /\ space \in 0..SndBuf /\ outcome \in [Threads -> {"all", "part"}]
      /\ pc \in [Threads -> Places] /\ "sent" \in Places
  BY SendAssumption DEF IInv, TypeOK, Places
<1>3. n \in Nat /\ Leftover(b) \in Nat /\ n <= Leftover(b)
  BY <1>t, <1>r DEF Leftover, Bullet
<1> HIDE DEF n, b
<1>4. pc[t] = "loop" /\ pc'[t] = "sent" /\ \A u \in Threads : u # t => pc'[u] = pc[u]
  BY <1>1, <1>r, GotoType
<1>5. ASSUME outcome'[t] = "part", peer = "open" PROVE nospace'
  <2>1. n # Leftover(b)
    BY <1>1, <1>r, <1>5
  <2>2. n < Leftover(b)
    BY <1>3, <2>1
  <2> QED BY <1>1, <1>5, <2>2, Zenon
<1> QED BY <1>1, <1>4, <1>5

(* Storing what it reported: wr is cleared for a refusal alone.            *)
LEMMA StoreWrDecides ==
  ASSUME IInv, NEW t \in Threads, StoreWr(t)
  PROVE  /\ wr' = (outcome[t] = "all") /\ outcome[t] \in {"all", "part"}
         /\ pc[t] = "sent" /\ pc'[t] = "test" /\ \A u \in Threads : u # t => pc'[u] = pc[u]
         /\ UNCHANGED <<space, nospace, peer>>
<1>1. pc \in [Threads -> Places] /\ "test" \in Places /\ outcome[t] \in {"all", "part"}
  BY DEF IInv, TypeOK, Places
<1>2. UNCHANGED <<space, nospace, peer>> /\ wr' = (outcome[t] = "all") /\ Goto(t, "sent", "test")
  BY DEF StoreWr, kernel
<1>3. pc[t] = "sent" /\ pc'[t] = "test" /\ \A u \in Threads : u # t => pc'[u] = pc[u]
  BY <1>1, <1>2, GotoType
<1> QED BY <1>1, <1>2, <1>3

(* Every other step leaves the outcomes, brings no thread to sent, brings  *)
(* one to loop only with wr set, and clears neither wr nor, but for room,  *)
(* the note that there is none.                                            *)
Apart ==
  /\ UNCHANGED outcome
  /\ \A t \in Threads : pc'[t] = "sent" <=> pc[t] = "sent"
  /\ \A t \in Threads : pc'[t] = "loop" => pc[t] = "loop" \/ wr
  /\ wr => wr'
  /\ \/ UNCHANGED <<space, nospace, peer>>
     \/ space' > 0 \/ nospace' \/ peer' = "gone"

LEMMA StepCases ==
  ASSUME IInv, [Next]_vars
  PROVE  \/ \E t \in Threads : BulletSend(t) \/ StoreWr(t)
         \/ Apart
<1>t. /\ pc \in [Threads -> Places] /\ space \in 0..SndBuf /\ SndBuf \in Nat /\ Runway \in Threads
      /\ wr \in BOOLEAN /\ nospace \in BOOLEAN
  BY SendAssumption DEF IInv, TypeOK, Places, Threads
<1>1. ASSUME NEW t \in Senders, NEW len \in Lengths, Push(t, len)
      PROVE  Apart
  <2>1. UNCHANGED <<outcome, wr, space, nospace, peer>> /\ Goto(t, "idle", "send")
    BY <1>1 DEF Push, kernel
  <2>2. pc[t] = "idle" /\ pc'[t] = "send" /\ \A u \in Threads : u # t => pc'[u] = pc[u]
    BY <1>t, <2>1, GotoType DEF Threads, Places
  <2> QED BY <2>1, <2>2 DEF Apart
<1>2. ASSUME NEW t \in Threads, SendEnter(t) \/ TestWr(t) \/ SendLeave(t) \/ SendUnlock(t)
      PROVE  Apart
  <2>1. UNCHANGED <<outcome, wr, space, nospace, peer>>
    BY <1>2 DEF SendEnter, TestWr, SendLeave, SendUnlock, kernel
  <2>2. PICK from \in {"send", "loop", "test", "unlock"}, to \in {"idle", "loop", "unlock"} :
          Goto(t, from, to) /\ (to = "loop" => wr)
    BY <1>2 DEF SendEnter, TestWr, SendLeave, SendUnlock
  <2>3. to \in Places
    BY DEF Places
  <2>4. pc[t] = from /\ pc'[t] = to /\ \A u \in Threads : u # t => pc'[u] = pc[u]
    BY <1>t, <2>2, <2>3, GotoType
  <2> QED BY <2>1, <2>2, <2>4 DEF Apart
<1>3. CASE AcceptSend \/ CloseFlag \/ CloseDelete
  <2>1. UNCHANGED <<outcome, space, nospace, peer>> /\ (wr => wr')
    BY <1>3 DEF AcceptSend, CloseFlag, CloseDelete, kernel
  <2>2. PICK from \in {"idle", "close"}, to \in {"send", "close", "idle"} : Goto(Runway, from, to)
    BY <1>3 DEF AcceptSend, CloseFlag, CloseDelete
  <2>3. to \in Places
    BY DEF Places
  <2>4. pc[Runway] = from /\ pc'[Runway] = to /\ \A u \in Threads : u # Runway => pc'[u] = pc[u]
    BY <1>t, <2>2, <2>3, GotoType
  <2> QED BY <2>1, <2>4 DEF Apart
<1>4. CASE AcceptRecive
  <2>1. UNCHANGED <<outcome, wr, pc, space, peer>> /\ nospace' = (nospace \/ space = 0)
    BY <1>4 DEF AcceptRecive
  <2> QED BY <1>t, <2>1 DEF Apart
<1>5. ASSUME NEW n \in 1..SndBuf, Drain(n) PROVE Apart
  <2>1. UNCHANGED <<outcome, wr, pc>> /\ space' = space + n
    BY <1>5 DEF Drain
  <2>2. space' > 0
    BY <1>t, <2>1
  <2> QED BY <2>1, <2>2 DEF Apart
<1>6. CASE PeerGone
  BY <1>6 DEF PeerGone, Apart
<1>7. CASE UNCHANGED vars
  BY <1>7 DEF vars, kernel, Apart
<1> QED BY <1>1, <1>2, <1>3, <1>4, <1>5, <1>6, <1>7 DEF Next, SenderStep, RunwayStep, Send, Threads

(* While one drains, no other has just sent. *)
LEMMA DrainsAlone ==
  ASSUME IInv, NEW t \in Threads, pc[t] \in {"loop", "sent"}, NEW u \in Threads, pc[u] = "sent"
  PROVE  u = t
BY DEF IInv, MutexInv, Draining

LEMMA NotedStep == IInv /\ NotedInv /\ [Next]_vars => NotedInv'
<1> SUFFICES ASSUME IInv, NotedInv, [Next]_vars PROVE NotedInv'
  OBVIOUS
<1>1. ASSUME NEW t \in Threads, BulletSend(t) PROVE NotedInv'
  <2>1. /\ outcome'[t] = "part" /\ peer = "open" => nospace'
        /\ pc[t] = "loop" /\ pc'[t] = "sent" /\ \A u \in Threads : u # t => pc'[u] = pc[u]
        /\ UNCHANGED <<wr, peer>>
    BY <1>1, BulletSendNotes
  <2>2. \A u \in Threads : pc'[u] = "loop" => wr'
    BY <2>1 DEF NotedInv
  <2>3. wr'
    BY <2>1 DEF NotedInv
  <2>4. Refused' => outcome'[t] = "part"
    <3>1. \A u \in Threads : pc'[u] = "sent" => u = t
      BY <2>1, DrainsAlone
    <3> QED BY <2>3, <3>1 DEF Refused
  <2> QED BY <2>1, <2>2, <2>4 DEF NotedInv
<1>2. ASSUME NEW t \in Threads, StoreWr(t) PROVE NotedInv'
  <2>1. /\ wr' = (outcome[t] = "all") /\ outcome[t] \in {"all", "part"}
        /\ pc[t] = "sent" /\ pc'[t] = "test" /\ \A u \in Threads : u # t => pc'[u] = pc[u]
        /\ UNCHANGED <<space, nospace, peer>>
    BY <1>2, StoreWrDecides
  <2>2. \A u \in Threads : pc'[u] \notin {"loop", "sent"}
    BY <2>1 DEF IInv, MutexInv, Draining
  <2>3. Refused' => Refused
    BY <2>1, <2>2 DEF Refused
  <2> QED BY <2>1, <2>2, <2>3 DEF NotedInv
<1>3. CASE Apart
  <2>1. \A u \in Threads : pc'[u] = "loop" => wr'
    BY <1>3 DEF Apart, NotedInv
  <2>2. Refused' => Refused
    BY <1>3 DEF Apart, Refused
  <2>3. CASE UNCHANGED <<space, nospace, peer>>
    BY <2>1, <2>2, <2>3 DEF NotedInv
  <2>4. CASE space' > 0 \/ nospace' \/ peer' = "gone"
    BY <2>1, <2>4 DEF NotedInv
  <2> QED BY <1>3, <2>3, <2>4 DEF Apart
<1> QED BY <1>1, <1>2, <1>3, StepCases

(* While the flag says that the socket takes nothing, the kernel has room  *)
(* or will report it: what stalls in send_stalls is a dropped report, and  *)
(* never a full buffer that nobody was told to watch.                      *)
StallHasRoom == peer = "open" /\ ~wr => nospace \/ space > 0

(* Whatever the threads, lengths and buffer, the flag wr of Connection is  *)
(* never FALSE while the buffer is full and EPOLLOUT not asked for: the    *)
(* unlocked writable(TRUE) does not defeat the thread that stores wr.      *)
THEOREM RefusedIsNoted == Spec => []StallHasRoom
<1>1. Init => IInv /\ NotedInv
  BY InitIInv, SendAssumption DEF Init, NotedInv, Refused
<1>2. IInv /\ NotedInv /\ [Next]_vars => (IInv /\ NotedInv)'
  BY NextIInv, NotedStep
<1>3. IInv /\ NotedInv => StallHasRoom
  BY DEF NotedInv, Refused, StallHasRoom
<1> QED BY <1>1, <1>2, <1>3, PTL DEF Spec
=============================================================================

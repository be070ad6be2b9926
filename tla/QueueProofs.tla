----------------------------- MODULE QueueProofs -----------------------------
(***************************************************************************)
(* Proofs about Queue, for any number of pushing threads and of pushes.    *)
(* Nodes are numbered in the order of their allocation, which the mutex    *)
(* makes the order of the list: the list is always an interval of numbers. *)
(***************************************************************************)
EXTENDS Queue, TLAPS

Pushing == {"push", "first", "link", "tail"}
Popping == {"pop", "delete"}

(* The mutex excludes. *)
MutexInv ==
  /\ \A t \in mut : \A u \in mut : t = u
  /\ \A p \in Pushers : pc[p] \in Pushing <=> p \in mut
  /\ pc[Consumer] \in Popping <=> Consumer \in mut
  /\ \A p \in Pushers : pc[p] \in Pushing \cup {"idle"}
  /\ pc[Consumer] \in Popping \cup {"idle", "front"}

(* What has been pushed and popped, and what is on the list. *)
ListInv ==
  /\ \A i \in 1..Len(pushed) : pushed[i] = i
  /\ \A i \in 1..Len(popped) : popped[i] = i
  /\ Len(popped) <= Len(pushed) /\ Len(pushed) <= Len(heap)
  /\ header = IF Len(popped) < Len(pushed) THEN Len(popped) + 1 ELSE Null
  /\ \A i \in 1..Len(heap) : i > Len(popped) =>
        heap[i].next = IF i < Len(pushed) THEN i + 1 ELSE Null
  /\ \A i \in freed : i <= Len(popped)

(* Where each thread is in its operation, and where tail points. *)
StepInv ==
  /\ \A p \in Pushers :
        /\ pc[p] \in {"first", "link"} => node[p] = Len(heap) /\ Len(heap) = Len(pushed) + 1
        /\ pc[p] = "first" => header = Null
        /\ pc[p] = "link" => header # Null
        /\ pc[p] = "tail" => node[p] = Len(pushed) /\ header # Null
  /\ (\A p \in Pushers : pc[p] \notin {"first", "link"}) => Len(heap) = Len(pushed)
  /\ (\A p \in Pushers : pc[p] # "tail") /\ header # Null => tail = Len(pushed)
  /\ \A p \in Pushers : pc[p] = "tail" => size + Len(popped) + 1 = Len(pushed)
  /\ pc[Consumer] = "delete" => size + Len(popped) = Len(pushed) + 1
  /\ (\A p \in Pushers : pc[p] # "tail") /\ pc[Consumer] # "delete"
        => size + Len(popped) = Len(pushed)
  /\ pc[Consumer] \in {"front", "pop"} => header # Null /\ node[Consumer] = header
  /\ pc[Consumer] = "delete" => popped # <<>> /\ node[Consumer] = Len(popped)

IInv == TypeOK /\ MutexInv /\ ListInv /\ StepInv

(* The invariant as each action's proof uses it. *)
LEMMA Facts ==
  ASSUME TypeOK
  PROVE  /\ Len(heap) \in Nat /\ Len(pushed) \in Nat /\ Len(popped) \in Nat
         /\ \A i \in 1..Len(heap) : heap[i].next \in Nat
         /\ \A p \in Pushers : p \in Threads /\ p # Consumer
         /\ Consumer \in Threads
<1>1. /\ \A p \in Pushers : p \in Threads /\ p # Consumer
      /\ Consumer \in Threads
  BY QueueAssumption DEF Threads
<1>2. \A i \in 1..Len(heap) : heap[i] \in Node
  BY DEF TypeOK
<1> QED
  BY <1>1, <1>2 DEF TypeOK, Node

(* Only one thread is ever between its lock and its unlock. *)
LEMMA Alone ==
  ASSUME TypeOK, MutexInv, NEW t \in mut
  PROVE  /\ mut = {t}
         /\ \A p \in Pushers : p # t => pc[p] = "idle"
         /\ Consumer # t => pc[Consumer] \in {"idle", "front"}
BY DEF MutexInv, Pushing, Popping

(* push: the five steps of one thread. *)
LEMMA PushStep ==
  ASSUME IInv, NEW p \in Pushers, Push(p)
  PROVE  IInv'
<1> USE DEF IInv
<1>f. /\ Len(heap) \in Nat /\ Len(pushed) \in Nat /\ Len(popped) \in Nat
      /\ \A i \in 1..Len(heap) : heap[i].next \in Nat
      /\ p \in Threads /\ p # Consumer /\ Consumer \in Threads /\ Consumer \notin Pushers
      /\ pc \in [Threads -> Locations] /\ node \in [Threads -> Nat] /\ Pushers \subseteq Threads
  BY Facts, QueueAssumption DEF TypeOK, Threads
<1>1. CASE PushLock(p)
  <2>1. /\ pc[p] = "idle" /\ pc' = [pc EXCEPT ![p] = "push"] /\ mut = {} /\ mut' = {p}
        /\ UNCHANGED <<heap, freed, header, tail, size, node, pushed, popped>>
    BY <1>1 DEF PushLock, Goto, Lock
  <2>2. TypeOK'
    BY <2>1, <1>f DEF TypeOK, Locations
  <2>3. MutexInv'
    BY <2>1, <1>f DEF MutexInv, Pushing, Popping
  <2>4. ListInv' /\ StepInv'
    BY <2>1, <1>f DEF ListInv, StepInv
  <2> QED
    BY <2>2, <2>3, <2>4
<1>in. ASSUME pc[p] \in Pushing
       PROVE  /\ mut = {p} /\ \A q \in Pushers : q # p => pc[q] = "idle"
              /\ pc[Consumer] \in {"idle", "front"}
  BY <1>in, <1>f, Alone DEF MutexInv
<1>2. CASE PushNew(p)
  <2> DEFINE cell == [next |-> Null, by |-> p]
  <2>1. /\ pc[p] = "push" /\ heap' = Append(heap, cell) /\ node' = [node EXCEPT ![p] = Len(heap')]
        /\ pc' = [pc EXCEPT ![p] = IF header = Null THEN "first" ELSE "link"]
        /\ UNCHANGED <<freed, header, tail, size, mut, pushed, popped>>
    BY <1>2 DEF PushNew, Goto, Keep
  <2>2. /\ cell \in Node /\ cell.next = Null
    BY DEF Null, Node
  <2> HIDE DEF cell
  <2>3. /\ Len(heap') = Len(heap) + 1 /\ heap'[Len(heap) + 1] = cell
        /\ \A i \in 1..Len(heap) : heap'[i] = heap[i]
        /\ heap' \in Seq(Node)
    BY <2>1, <2>2 DEF TypeOK
  <2>4. mut = {p} /\ (\A q \in Pushers : q # p => pc[q] = "idle") /\ pc[Consumer] \in {"idle", "front"}
    BY <2>1, <1>in DEF Pushing
  <2>5. TypeOK'
    BY <2>1, <2>3, <1>f DEF TypeOK, Locations
  <2>6. MutexInv'
    BY <2>1, <2>4, <1>f DEF MutexInv, Pushing, Popping
  <2>7. Len(heap) = Len(pushed)
    BY <2>1, <2>4, <1>f DEF StepInv
  <2>8. ListInv'
    BY <2>1, <2>2, <2>3, <2>7, <1>f DEF ListInv
  <2>9. StepInv'
    BY <2>1, <2>3, <2>4, <2>7, <1>f DEF StepInv
  <2> QED
    BY <2>5, <2>6, <2>8, <2>9
<1>3. CASE PushHeader(p)
  <2>1. /\ pc[p] = "first" /\ pc' = [pc EXCEPT ![p] = "tail"]
        /\ header' = node[p] /\ pushed' = Append(pushed, node[p])
        /\ UNCHANGED <<heap, freed, tail, size, mut, node, popped>>
    BY <1>3 DEF PushHeader, Goto
  <2>2. mut = {p} /\ (\A q \in Pushers : q # p => pc[q] = "idle") /\ pc[Consumer] \in {"idle", "front"}
    BY <2>1, <1>in DEF Pushing
  <2>3. node[p] = Len(pushed) + 1 /\ Len(heap) = Len(pushed) + 1 /\ header = Null
    BY <2>1 DEF StepInv
  <2>4. Len(popped) = Len(pushed)
    BY <2>3, <1>f DEF ListInv, Null
  <2>5. /\ Len(pushed') = Len(pushed) + 1 /\ pushed'[Len(pushed) + 1] = Len(pushed) + 1
        /\ \A i \in 1..Len(pushed) : pushed'[i] = pushed[i]
        /\ pushed' \in Seq(Nat)
    BY <2>1, <2>3, <1>f DEF TypeOK
  <2>6. TypeOK'
    BY <2>1, <2>3, <2>5, <1>f DEF TypeOK, Locations
  <2>7. MutexInv'
    BY <2>1, <2>2, <1>f DEF MutexInv, Pushing, Popping
  <2>8. ListInv'
    BY <2>1, <2>3, <2>4, <2>5, <1>f DEF ListInv
  <2>9. StepInv'
    BY <2>1, <2>2, <2>3, <2>4, <2>5, <1>f DEF StepInv, Null
  <2> QED
    BY <2>6, <2>7, <2>8, <2>9
<1>4. CASE PushLink(p)
  <2>1. /\ pc[p] = "link" /\ pc' = [pc EXCEPT ![p] = "tail"]
        /\ heap' = [heap EXCEPT ![tail].next = node[p]] /\ pushed' = Append(pushed, node[p])
        /\ UNCHANGED <<freed, header, tail, size, mut, node, popped>>
    BY <1>4 DEF PushLink, Goto
  <2>2. mut = {p} /\ (\A q \in Pushers : q # p => pc[q] = "idle") /\ pc[Consumer] \in {"idle", "front"}
    BY <2>1, <1>in DEF Pushing
  <2>3. node[p] = Len(pushed) + 1 /\ Len(heap) = Len(pushed) + 1 /\ header # Null
    BY <2>1 DEF StepInv
  <2>4. tail = Len(pushed) /\ Len(popped) < Len(pushed)
    BY <2>1, <2>2, <2>3, <1>f DEF ListInv, StepInv, Null
  <2>5. /\ Len(pushed') = Len(pushed) + 1 /\ pushed'[Len(pushed) + 1] = Len(pushed) + 1
        /\ \A i \in 1..Len(pushed) : pushed'[i] = pushed[i]
        /\ pushed' \in Seq(Nat)
    BY <2>1, <2>3, <1>f DEF TypeOK
  <2>6. /\ Len(heap') = Len(heap) /\ heap'[tail].next = Len(pushed) + 1
        /\ \A i \in 1..Len(heap) : i # tail => heap'[i] = heap[i]
        /\ heap' \in Seq(Node)
    <3>1. tail \in 1..Len(heap)
      BY <2>3, <2>4, <1>f
    <3>2. heap \in Seq(Node)
      BY DEF TypeOK
    <3>3. heap[tail] \in Node
      BY <3>1, <3>2
    <3> DEFINE linked == [heap[tail] EXCEPT !.next = node[p]]
    <3>4. linked \in Node /\ linked.next = Len(pushed) + 1
      BY <3>3, <2>3, <1>f DEF Node
    <3>5. heap' = [heap EXCEPT ![tail] = linked]
      BY <2>1
    <3> HIDE DEF linked
    <3>6. Len(heap') = Len(heap) /\ heap' \in Seq(Node) /\ heap'[tail] = linked
      BY <3>1, <3>2, <3>4, <3>5
    <3>7. \A i \in 1..Len(heap) : i # tail => heap'[i] = heap[i]
      BY <3>2, <3>5
    <3> QED
      BY <3>4, <3>6, <3>7
  <2>7. TypeOK'
    BY <2>1, <2>5, <2>6, <1>f DEF TypeOK, Locations
  <2>8. MutexInv'
    BY <2>1, <2>2, <1>f DEF MutexInv, Pushing, Popping
  <2>9. ListInv'
    <3>1. \A i \in 1..Len(heap') : i > Len(popped) =>
            heap'[i].next = IF i < Len(pushed') THEN i + 1 ELSE Null
      <4> SUFFICES ASSUME NEW i \in 1..Len(heap'), i > Len(popped)
                   PROVE  heap'[i].next = IF i < Len(pushed') THEN i + 1 ELSE Null
        OBVIOUS
      <4>1. i \in 1..Len(heap) /\ (i = tail \/ i < Len(pushed) \/ i = Len(pushed) + 1)
        BY <2>3, <2>4, <2>6, <1>f
      <4>2. CASE i = tail
        BY <4>2, <2>4, <2>5, <2>6, <1>f
      <4>3. CASE i # tail
        <5>1. heap'[i].next = heap[i].next
          BY <4>1, <4>3, <2>6
        <5>2. heap[i].next = IF i < Len(pushed) THEN i + 1 ELSE Null
          BY <4>1 DEF IInv, ListInv
        <5>3. i < Len(pushed) <=> i < Len(pushed')
          BY <4>1, <4>3, <2>4, <2>5, <1>f
        <5> QED
          BY <5>1, <5>2, <5>3
      <4> QED
        BY <4>2, <4>3
    <3>2. header = Len(popped') + 1 /\ Len(popped') < Len(pushed')
      BY <2>1, <2>4, <2>5, <1>f DEF ListInv
    <3> QED
      BY <2>1, <2>3, <2>5, <2>6, <3>1, <3>2, <1>f DEF ListInv
  <2>10. StepInv'
    BY <2>1, <2>2, <2>3, <2>4, <2>5, <2>6, <1>f DEF StepInv
  <2> QED
    BY <2>7, <2>8, <2>9, <2>10
<1>5. CASE PushDone(p)
  <2>1. /\ pc[p] = "tail" /\ pc' = [pc EXCEPT ![p] = "idle"] /\ tail' = node[p] /\ size' = size + 1
        /\ mut' = mut \ {p}
        /\ UNCHANGED <<heap, freed, header, node, pushed, popped>>
    BY <1>5 DEF PushDone, Goto, Unlock
  <2>2. mut = {p} /\ (\A q \in Pushers : q # p => pc[q] = "idle") /\ pc[Consumer] \in {"idle", "front"}
    BY <2>1, <1>in DEF Pushing
  <2>3. TypeOK'
    BY <2>1, <1>f DEF TypeOK, Locations
  <2>4. MutexInv'
    BY <2>1, <2>2, <1>f DEF MutexInv, Pushing, Popping
  <2>5. ListInv'
    BY <2>1 DEF ListInv
  <2>6. StepInv'
    BY <2>1, <2>2, <1>f DEF StepInv, TypeOK
  <2> QED
    BY <2>3, <2>4, <2>5, <2>6
<1> QED
  BY <1>1, <1>2, <1>3, <1>4, <1>5 DEF Push

(* front and pop: the four steps of the consumer. *)
LEMMA ConsumeStep ==
  ASSUME IInv, Consume
  PROVE  IInv'
<1> USE DEF IInv
<1>f. /\ Len(heap) \in Nat /\ Len(pushed) \in Nat /\ Len(popped) \in Nat
      /\ \A i \in 1..Len(heap) : heap[i].next \in Nat
      /\ Consumer \in Threads /\ Consumer \notin Pushers /\ Pushers \subseteq Threads
      /\ pc \in [Threads -> Locations] /\ node \in [Threads -> Nat]
  BY Facts, QueueAssumption DEF TypeOK, Threads
<1>1. CASE Front
  <2>1. /\ header # Null /\ pc[Consumer] = "idle" /\ pc' = [pc EXCEPT ![Consumer] = "front"]
        /\ node' = [node EXCEPT ![Consumer] = header]
        /\ UNCHANGED <<heap, freed, header, tail, size, mut, pushed, popped>>
    BY <1>1 DEF Front, Goto, Keep
  <2>2. TypeOK'
    BY <2>1, <1>f DEF TypeOK, Locations
  <2>3. MutexInv'
    BY <2>1, <1>f DEF MutexInv, Pushing, Popping
  <2>4. ListInv' /\ StepInv'
    BY <2>1, <1>f DEF ListInv, StepInv
  <2> QED
    BY <2>2, <2>3, <2>4
<1>2. CASE PopLock
  <2>1. /\ header # Null /\ pc[Consumer] = "front" /\ pc' = [pc EXCEPT ![Consumer] = "pop"]
        /\ mut = {} /\ mut' = {Consumer}
        /\ UNCHANGED <<heap, freed, header, tail, size, node, pushed, popped>>
    BY <1>2 DEF PopLock, Goto, Lock
  <2>2. TypeOK'
    BY <2>1, <1>f DEF TypeOK, Locations
  <2>3. MutexInv'
    BY <2>1, <1>f DEF MutexInv, Pushing, Popping
  <2>4. ListInv' /\ StepInv'
    BY <2>1, <1>f DEF ListInv, StepInv
  <2> QED
    BY <2>2, <2>3, <2>4
<1>in. ASSUME pc[Consumer] \in Popping
       PROVE  mut = {Consumer} /\ \A q \in Pushers : pc[q] = "idle"
  BY <1>in, <1>f, Alone DEF MutexInv
<1>3. CASE PopHeader
  <2>1. /\ pc[Consumer] = "pop" /\ pc' = [pc EXCEPT ![Consumer] = "delete"]
        /\ header' = heap[header].next /\ popped' = Append(popped, header)
        /\ UNCHANGED <<heap, freed, tail, size, mut, node, pushed>>
    BY <1>3 DEF PopHeader, Goto
  <2>2. mut = {Consumer} /\ \A q \in Pushers : pc[q] = "idle"
    BY <2>1, <1>in DEF Popping
  <2>3. /\ header = Len(popped) + 1 /\ Len(popped) < Len(pushed) /\ node[Consumer] = header
        /\ Len(heap) = Len(pushed)
    BY <2>1, <2>2, <1>f DEF ListInv, StepInv
  <2>4. /\ Len(popped') = Len(popped) + 1 /\ popped'[Len(popped) + 1] = header
        /\ \A i \in 1..Len(popped) : popped'[i] = popped[i]
        /\ popped' \in Seq(Nat) /\ popped' # <<>>
    BY <2>1, <2>3, <1>f DEF TypeOK
  <2>5. header \in 1..Len(heap) /\ header' = IF header < Len(pushed) THEN header + 1 ELSE Null
    BY <2>1, <2>3, <1>f DEF ListInv
  <2>6. TypeOK'
    BY <2>1, <2>4, <2>5, <1>f DEF TypeOK, Locations
  <2>7. MutexInv'
    BY <2>1, <2>2, <1>f DEF MutexInv, Pushing, Popping
  <2>8. ListInv'
    <3>1. \A i \in freed : i <= Len(popped')
      BY <2>4, <1>f DEF ListInv, TypeOK
    <3>2. /\ \A i \in 1..Len(popped') : popped'[i] = i
          /\ Len(popped') <= Len(pushed)
          /\ header' = IF Len(popped') < Len(pushed) THEN Len(popped') + 1 ELSE Null
      <4>1. ASSUME NEW i \in 1..Len(popped') PROVE popped'[i] = i
        <5>1. i \in 1..Len(popped) \/ i = Len(popped) + 1
          BY <2>4, <1>f
        <5> QED
          BY <5>1, <2>3, <2>4 DEF ListInv
      <4>2. Len(popped') = header
        BY <2>3, <2>4
      <4> QED
        BY <4>1, <4>2, <2>3, <2>5, <1>f
    <3> QED
      BY <2>1, <2>4, <3>1, <3>2, <1>f DEF ListInv
  <2>9. StepInv'
    <3>1. header' # Null => tail = Len(pushed)
      BY <2>1, <2>2, <2>3, <1>f DEF StepInv, Null
    <3>2. size + Len(popped) = Len(pushed)
      BY <2>1, <2>2 DEF StepInv
    <3>3. size + Len(popped') = Len(pushed) + 1
      <4>1. size \in Nat
        BY DEF TypeOK
      <4>2. Len(popped') = Len(popped) + 1
        BY <2>4
      <4>3. Len(pushed) \in Nat /\ Len(popped) \in Nat
        BY <1>f
      <4> QED
        BY <4>1, <4>2, <4>3, <3>2
    <3>4. /\ \A q \in Pushers : pc'[q] = "idle"
          /\ pc'[Consumer] = "delete" /\ node'[Consumer] = Len(popped')
      BY <2>1, <2>2, <2>3, <2>4, <1>f
    <3> QED
      BY <2>1, <2>3, <2>4, <3>1, <3>3, <3>4 DEF StepInv
  <2> QED
    BY <2>6, <2>7, <2>8, <2>9
<1>4. CASE PopDelete
  <2>1. /\ pc[Consumer] = "delete" /\ pc' = [pc EXCEPT ![Consumer] = "idle"]
        /\ freed' = freed \cup {popped[Len(popped)]} /\ size' = size - 1 /\ mut' = mut \ {Consumer}
        /\ UNCHANGED <<heap, header, tail, node, pushed, popped>>
    BY <1>4 DEF PopDelete, Goto, Unlock
  <2>2. mut = {Consumer} /\ \A q \in Pushers : pc[q] = "idle"
    BY <2>1, <1>in DEF Popping
  <2>3. Len(popped) \in 1..Len(popped) /\ popped[Len(popped)] = Len(popped)
    <3>1. Len(popped) # 0
      BY <2>1 DEF StepInv
    <3> QED
      BY <3>1, <1>f DEF ListInv
  <2>4. size \in Nat /\ size + Len(popped) = Len(pushed) + 1 /\ Len(popped) <= Len(pushed)
    BY <2>1 DEF StepInv, ListInv, TypeOK
  <2>5. TypeOK'
    <3>1. size' \in Nat
      BY <2>1, <2>4, <1>f
    <3>2. freed' \subseteq Nat
      BY <2>1, <2>3, <1>f DEF TypeOK
    <3> QED
      BY <2>1, <3>1, <3>2, <1>f DEF TypeOK, Locations
  <2>6. MutexInv'
    BY <2>1, <2>2, <1>f DEF MutexInv, Pushing, Popping
  <2>7. ListInv'
    BY <2>1, <2>3, <1>f DEF ListInv
  <2>8. StepInv'
    BY <2>1, <2>2, <2>4, <1>f DEF StepInv
  <2> QED
    BY <2>5, <2>6, <2>7, <2>8
<1> QED
  BY <1>1, <1>2, <1>3, <1>4 DEF Consume
-----------------------------------------------------------------------------
(* What holds of every behaviour. *)

(* IInv is inductive: the list is the interval of nodes from the header to *)
(* the last one pushed, and who may touch it is whoever holds the mutex.   *)
THEOREM Invariance == Spec => []IInv
<1>1. Init => IInv
  <2> SUFFICES ASSUME Init PROVE IInv
    OBVIOUS
  <2>1. TypeOK
    <3>1. <<>> \in Seq(Nat) /\ <<>> \in Seq(Node)
      OBVIOUS
    <3> QED
      BY <3>1 DEF Init, TypeOK, Null, Locations
  <2>2. MutexInv
    BY DEF Init, MutexInv, Pushing, Popping, Threads
  <2>3. ListInv /\ StepInv
    BY DEF Init, ListInv, StepInv, Null, Threads
  <2> QED
    BY <2>1, <2>2, <2>3 DEF IInv
<1>2. IInv /\ [Next]_vars => IInv'
  <2> SUFFICES ASSUME IInv, [Next]_vars PROVE IInv'
    OBVIOUS
  <2>1. CASE UNCHANGED vars
    BY <2>1 DEF vars, IInv, TypeOK, MutexInv, ListInv, StepInv
  <2> QED
    BY <2>1, PushStep, ConsumeStep DEF Next
<1> QED
  BY <1>1, <1>2, PTL DEF Spec

(* No thread follows a dead pointer, the dangling tail included.           *)
THEOREM NoDeadPointer == Spec => []PointersAlive
<1>1. IInv => PointersAlive
  <2> SUFFICES ASSUME IInv PROVE PointersAlive
    OBVIOUS
  <2>f. /\ Len(heap) \in Nat /\ Len(pushed) \in Nat /\ Len(popped) \in Nat
        /\ freed \subseteq Nat /\ Len(popped) <= Len(pushed) /\ Len(pushed) <= Len(heap)
    BY Facts DEF IInv, ListInv, TypeOK
  <2>1. header # Null => /\ header = Len(popped) + 1
                         /\ Len(popped) < Len(pushed)
    BY <2>f DEF IInv, ListInv
  <2>2. ASSUME NEW p \in Pushers, pc[p] = "link"
        PROVE  tail \in 1..Len(heap) \ freed
    <3>1. p \in mut /\ \A q \in Pushers : pc[q] # "tail"
      BY <2>2, Alone DEF IInv, MutexInv, Pushing
    <3>2. tail = Len(pushed) /\ header # Null
      BY <2>2, <3>1 DEF IInv, StepInv
    <3> QED
      BY <2>1, <2>f, <3>2 DEF IInv, ListInv
  <2>3. ASSUME pc[Consumer] \in {"front", "pop"}
        PROVE  header \in 1..Len(heap) \ freed
    BY <2>1, <2>3, <2>f DEF IInv, StepInv, ListInv
  <2> QED
    BY <2>2, <2>3 DEF PointersAlive
<1> QED
  BY <1>1, Invariance, PTL

(* Every variable of the queue keeps its type. *)
THEOREM TypeCorrect == Spec => []TypeOK
<1>1. IInv => TypeOK
  BY DEF IInv
<1> QED
  BY <1>1, Invariance, PTL

(* What is deleted is what was sent. *)
THEOREM PopsTheFront == Spec => []PopsWhatFrontReturned
<1>1. IInv => PopsWhatFrontReturned
  BY Facts DEF IInv, StepInv, ListInv, PopsWhatFrontReturned, TypeOK
<1> QED
  BY <1>1, Invariance, PTL

(* The unlocked test for emptiness tells the truth. *)
THEOREM EmptyTestIsTrue == Spec => []EmptyIsTrue
<1>1. IInv => EmptyIsTrue
  BY Facts DEF IInv, ListInv, EmptyIsTrue, Null
<1> QED
  BY <1>1, Invariance, PTL

(* The linked list implements the abstract channel. *)
THEOREM QueueRefinesChannel == Spec => FirstInFirstOut
<1>1. Init => Channel!Init
  BY DEF Init, Channel!Init
<1>2. IInv /\ [Next]_vars => [Channel!Next]_<<pushed, popped>>
  <2> SUFFICES ASSUME IInv, [Next]_vars, ~UNCHANGED <<pushed, popped>>
               PROVE  Channel!Next
    BY DEF vars
  <2>1. pushed \in Seq(Nat) /\ popped \in Seq(Nat) /\ node \in [Threads -> Nat]
    BY DEF IInv, TypeOK
  <2>2. ASSUME NEW p \in Pushers, PushHeader(p) \/ PushLink(p) PROVE Channel!Send
    <3>1. pushed' = Append(pushed, node[p]) /\ UNCHANGED popped /\ node[p] \in Nat
      BY <2>1, <2>2, Facts DEF PushHeader, PushLink, IInv
    <3> QED
      BY <2>1, <3>1 DEF Channel!Send
  <2>3. CASE PopHeader
    <3>1. /\ popped' = Append(popped, header) /\ UNCHANGED pushed
          /\ header = Len(popped) + 1 /\ Len(popped) < Len(pushed)
      BY <2>3, Facts DEF PopHeader, Goto, IInv, StepInv, ListInv
    <3>2. pushed[Len(popped) + 1] = header
      BY <2>1, <3>1 DEF IInv, ListInv
    <3> QED
      BY <3>1, <3>2 DEF Channel!Deliver, Channel!Next
  <2> QED
    BY <2>2, <2>3 DEF Next, vars, Push, Consume, PushLock, PushNew, PushDone, Front, PopLock,
                      PopDelete, Channel!Next
<1> QED
  BY <1>1, <1>2, Invariance, PTL DEF Spec, Channel!Spec, FirstInFirstOut
=============================================================================

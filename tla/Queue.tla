-------------------------------- MODULE Queue --------------------------------
(***************************************************************************)
(* The linked list that holds a connection's outgoing bullets              *)
(* (leopard/src/Queue.hpp).  Any thread pushes; one thread at a time, the  *)
(* one that holds the connection's mutex, looks at the front and pops it.  *)
(* push and pop lock the queue's own mutex, empty and front read header    *)
(* without it, and pop's "tail == nullptr" assigns nothing: after the last *)
(* pop tail keeps pointing to a deleted node.                              *)
(***************************************************************************)
EXTENDS Naturals, Sequences

CONSTANTS
  Pushers,   (* the threads that push                                      *)
  Consumer,  (* the thread that drains the queue                           *)
  MaxPushes  (* bound: nodes ever allocated                                *)

ASSUME QueueAssumption ==
  /\ Consumer \notin Pushers
  /\ MaxPushes \in Nat

VARIABLES
  heap,     (* every node ever allocated, in the order of allocation      *)
  freed,    (* the nodes that have been deleted                           *)
  header, tail, size,
  mut,      (* the threads in the critical section, at most one           *)
  pc,
  node,     (* the node a thread holds in a local variable                *)
  pushed,   (* history: the nodes made reachable, in that order           *)
  popped    (* history: the nodes taken off, in that order                *)

vars == <<heap, freed, header, tail, size, mut, pc, node, pushed, popped>>

Null == 0
Node == [next: Nat, by: Pushers]
Threads == Pushers \cup {Consumer}
Goto(t, from, to) == pc[t] = from /\ pc' = [pc EXCEPT ![t] = to]
Keep(t, n) == node' = [node EXCEPT ![t] = n]

(* Mutation: push without the lock_guard. *)
Unguarded(t) == UNCHANGED mut

(* std::lock_guard lock(mut), and its end. *)
Lock(t) == mut = {} /\ mut' = {t}
Unlock(t) == mut' = mut \ {t}
-----------------------------------------------------------------------------
(* push *)

PushLock(p) ==
  /\ Len(heap) < MaxPushes
  /\ Goto(p, "idle", "push")
  /\ Lock(p)
  /\ UNCHANGED <<heap, freed, header, tail, size, node, pushed, popped>>

(* Mutation: emptiness is told by tail, as if pop had reset it. *)
PushNewByTail(p) ==
  /\ Goto(p, "push", IF tail = Null THEN "first" ELSE "link")
  /\ heap' = Append(heap, [next |-> Null, by |-> p])
  /\ Keep(p, Len(heap'))
  /\ UNCHANGED <<freed, header, tail, size, mut, pushed, popped>>

(* The test of header, and the new node. *)
PushNew(p) ==
  /\ Goto(p, "push", IF header = Null THEN "first" ELSE "link")
  /\ heap' = Append(heap, [next |-> Null, by |-> p])
  /\ Keep(p, Len(heap'))
  /\ UNCHANGED <<freed, header, tail, size, mut, pushed, popped>>

(* tail = header = new: header is written first. *)
PushHeader(p) ==
  /\ Goto(p, "first", "tail")
  /\ header' = node[p]
  /\ pushed' = Append(pushed, node[p])
  /\ UNCHANGED <<heap, freed, tail, size, mut, node, popped>>

(* Mutation: the new node is linked after the header. *)
PushLinkAtHeader(p) ==
  /\ Goto(p, "link", "tail")
  /\ heap' = [heap EXCEPT ![header].next = node[p], ![node[p]].next = heap[header].next]
  /\ pushed' = Append(pushed, node[p])
  /\ UNCHANGED <<freed, header, tail, size, mut, node, popped>>

(* tail->next = new *)
PushLink(p) ==
  /\ Goto(p, "link", "tail")
  /\ heap' = [heap EXCEPT ![tail].next = node[p]]
  /\ pushed' = Append(pushed, node[p])
  /\ UNCHANGED <<freed, header, tail, size, mut, node, popped>>

(* Mutation: push forgets to count. *)
PushDoneUncounted(p) ==
  /\ Goto(p, "tail", "idle")
  /\ tail' = node[p]
  /\ Unlock(p)
  /\ UNCHANGED <<heap, freed, header, size, node, pushed, popped>>

(* tail = the new node, by either branch; count it; unlock. *)
PushDone(p) ==
  /\ Goto(p, "tail", "idle")
  /\ tail' = node[p]
  /\ size' = size + 1
  /\ Unlock(p)
  /\ UNCHANGED <<heap, freed, header, node, pushed, popped>>
-----------------------------------------------------------------------------
(* The loop of Connection::send: while (!empty()) { front; ...; pop }      *)

(* empty() is false and front() returns the value of the header node. *)
Front ==
  /\ header # Null
  /\ Goto(Consumer, "idle", "front")
  /\ Keep(Consumer, header)
  /\ UNCHANGED <<heap, freed, header, tail, size, mut, pushed, popped>>

(* pop tests header again before it locks. *)
PopLock ==
  /\ header # Null
  /\ Goto(Consumer, "front", "pop")
  /\ Lock(Consumer)
  /\ UNCHANGED <<heap, freed, header, tail, size, node, pushed, popped>>

(* cur = header; header = header->next; tail stays, even when header is null. *)
PopHeader ==
  /\ Goto(Consumer, "pop", "delete")
  /\ header' = heap[header].next
  /\ popped' = Append(popped, header)
  /\ UNCHANGED <<heap, freed, tail, size, mut, node, pushed>>

(* delete cur; count; unlock. *)
PopDelete ==
  /\ Goto(Consumer, "delete", "idle")
  /\ freed' = freed \cup {popped[Len(popped)]}
  /\ size' = size - 1
  /\ Unlock(Consumer)
  /\ UNCHANGED <<heap, header, tail, node, pushed, popped>>
-----------------------------------------------------------------------------
Init ==
  /\ heap = <<>> /\ freed = {} /\ header = Null /\ tail = Null /\ size = 0
  /\ mut = {} /\ pushed = <<>> /\ popped = <<>>
  /\ pc = [t \in Threads |-> "idle"]
  /\ node = [t \in Threads |-> Null]

Push(p) == PushLock(p) \/ PushNew(p) \/ PushHeader(p) \/ PushLink(p) \/ PushDone(p)
Consume == Front \/ PopLock \/ PopHeader \/ PopDelete

Next == (\E p \in Pushers : Push(p)) \/ Consume

Spec == Init /\ [][Next]_vars
-----------------------------------------------------------------------------
Locations == {"idle", "push", "first", "link", "tail", "front", "pop", "delete"}

(* Every variable has its type. *)
TypeOK ==
  /\ heap \in Seq(Node)
  /\ freed \subseteq Nat
  /\ header \in Nat /\ tail \in Nat /\ size \in Nat
  /\ mut \subseteq Threads
  /\ pc \in [Threads -> Locations]
  /\ node \in [Threads -> Nat]
  /\ pushed \in Seq(Nat) /\ popped \in Seq(Nat)

(* No thread follows a pointer to a deleted node, or a null one: not the   *)
(* header that front reads without the lock, and not the tail that push    *)
(* follows, although pop leaves tail dangling when the queue runs empty.   *)
PointersAlive ==
  /\ \A p \in Pushers : pc[p] = "link" => tail \in 1..Len(heap) \ freed
  /\ pc[Consumer] \in {"front", "pop"} => header \in 1..Len(heap) \ freed

(* The bullet that is popped and deleted is the one front returned and the *)
(* socket has sent, whatever is pushed in the meantime.                    *)
PopsWhatFrontReturned ==
  pc[Consumer] = "delete" => popped[Len(popped)] = node[Consumer]

(* empty() reads header without the lock; when it says so, everything      *)
(* pushed has been popped.                                                 *)
EmptyIsTrue == header = Null => Len(popped) = Len(pushed)

(* The queue is a first-in first-out channel of nodes.                     *)
Channel == INSTANCE MessageChannel WITH sent <- pushed, delivered <- popped
FirstInFirstOut == Channel!Spec
=============================================================================

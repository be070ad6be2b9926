------------------------- MODULE ServerRunwayProofs -------------------------
(***************************************************************************)
(* Proofs about ServerRunway, for any number of clients and messages: what *)
(* the backlog holds, what the counters show, and who may find a           *)
(* connection deleted.                                                     *)
(***************************************************************************)
EXTENDS ServerRunway, FiniteSetTheorems, TLAPS

RunwayPlaces == {"boot", "bound", "listen", "deaf", "next", "new", "add", "recv", "mod_in", "mod_in_out",
                 "send", "close", "count", "delete"}
HandlerPlaces == {"none", "routed", "unrouted", "push", "send", "close", "count", "delete", "done"}
Using == {"recv", "mod_in", "mod_in_out", "send", "close", "count", "delete"}

(* The messages of a client are handled in their order, so that the        *)
(* handlers in use are the first ones.                                     *)
PcInv ==
  /\ pc[Runway] \in RunwayPlaces
  /\ \A h \in Handlers : pc[h] \in HandlerPlaces
  /\ \A c \in Clients : \E k \in 0..MaxMsgs : \A i \in 1..MaxMsgs : pc[<<c, i>>] # "none" <=> i <= k
  /\ pc[Runway] = "bound" => opens >= 1

(* A connection comes from the backlog, is an object as long as its        *)
(* descriptor is open, and is closed once.                                 *)
ConnInv ==
  /\ \A i \in 1..Len(backlog) : conn[backlog[i]] = "none"
  /\ \A i, j \in 1..Len(backlog) : backlog[i] = backlog[j] => i = j
  /\ \A c \in Clients : /\ c \in open => conn[c] \in {"fd", "object"}
                        /\ c \in watched => conn[c] = "object"
                        /\ conn[c] = "fd" => pc[Runway] = "new" /\ cur = c
  /\ pc[Runway] = "new" => conn[cur] = "fd" /\ cur \in open
  /\ pc[Runway] = "add" => conn[cur] = "object" /\ cur \in open /\ \A i \in 1..MaxMsgs : pc[<<cur, i>>] = "none"
  /\ pc[Runway] \in Using => conn[cur] \in {"object", "deleted"}
  /\ \A h \in Handlers : pc[h] # "none" => conn[h[1]] \in {"object", "deleted"}
  /\ \A u \in Threads : pc[u] \in {"count", "delete"} => Target(u) \notin open

(* epoll_wait returns a descriptor once, and the runway has taken the one  *)
(* it is at out of the batch.                                              *)
BatchInv ==
  /\ \A i, j \in 1..Len(batch) : batch[i].of = batch[j].of => i = j
  /\ \A i \in 1..Len(batch) : batch[i].of # Listener => conn[batch[i].of] \in {"object", "deleted"}
  /\ pc[Runway] \in Using => \A i \in 1..Len(batch) : batch[i].of # cur

(* Who has deleted a connection is through with it. *)
DeletedInv ==
  \A c \in Clients : conn[c] = "deleted" =>
    /\ deleter[c] = Runway => /\ ended[c] # "no"
                              /\ \A i \in 1..Len(batch) : batch[i].of # c
                              /\ ~(pc[Runway] \in Using /\ cur = c)
    /\ deleter[c] # Runway => deleter[c] \in Handlers /\ pc[deleter[c]] = "done"

(* The runway only closes an open connection whose peer has ended. *)
EndInv ==
  /\ pc[Runway] = "close" /\ cur \in open => ended[cur] # "no"
  /\ pc[Runway] \in {"count", "delete"} => ended[cur] # "no"

IInv == /\ TypeOK /\ PcInv /\ ConnInv /\ BatchInv /\ DeletedInv /\ EndInv
        /\ BacklogLaw /\ ActiveLaw /\ StaleOnlyThroughOthers

-----------------------------------------------------------------------------
(* The threads. *)

LEMMA ThreadFacts ==
  /\ MaxMsgs \in Nat /\ Listener \notin Clients /\ IsFiniteSet(Clients)
  /\ Runway \in Threads /\ Runway \notin Handlers /\ Handlers \subseteq Threads
  /\ \A u \in Threads : u = Runway \/ u \in Handlers
  /\ \A c \in Clients, i \in 1..MaxMsgs : <<c, i>> \in Handlers /\ <<c, i>> \in Threads
  /\ \A h \in Handlers : h[1] \in Clients /\ h[2] \in 1..MaxMsgs /\ h = <<h[1], h[2]>>
  /\ \A h \in Handlers : h # Runway /\ Target(h) = h[1] /\ Return(h) = "done"
  /\ Target(Runway) = cur /\ Return(Runway) = "next"
<1>1. MaxMsgs \in Nat /\ Listener \notin Clients /\ IsFiniteSet(Clients)
  BY RunwayAssumption
<1>2. \A h \in Handlers : h[1] \in Clients /\ h[2] \in 1..MaxMsgs /\ h = <<h[1], h[2]>>
  BY DEF Handlers
<1>3. Runway \notin Handlers
  BY <1>1, <1>2 DEF Runway
<1> QED
  BY <1>1, <1>2, <1>3 DEF Threads, Handlers, Target, Return

LEMMA ThreadsFinite == IsFiniteSet(Threads) /\ IsFiniteSet(1..MaxMsgs)
<1>1. IsFiniteSet(1..MaxMsgs)
  BY FS_Interval, ThreadFacts
<1>2. IsFiniteSet(Handlers)
  BY <1>1, FS_Product, ThreadFacts DEF Handlers
<1> QED
  BY <1>1, <1>2, FS_AddElement DEF Threads

(* How many threads are at certain places, when one goes on. *)
LEMMA CountMoves ==
  ASSUME pc \in [Threads -> Places], NEW u \in Threads, NEW q, pc' = [pc EXCEPT ![u] = q], NEW S
  PROVE  LET before == Cardinality({v \in Threads : pc[v] \in S})
             after == Cardinality({v \in Threads : pc'[v] \in S})
         IN  /\ before \in Nat /\ after \in Nat
             /\ pc[u] \in S /\ q \notin S => after = before - 1
             /\ pc[u] \notin S /\ q \in S => after = before + 1
             /\ (pc[u] \in S <=> q \in S) => after = before
<1> DEFINE A == {v \in Threads : pc[v] \in S}
           B == {v \in Threads : pc'[v] \in S}
<1>1. \A v \in Threads : pc'[v] = IF v = u THEN q ELSE pc[v]
  OBVIOUS
<1>2. IsFiniteSet(A) /\ IsFiniteSet(B)
  BY ThreadsFinite, FS_Subset
<1>3. Cardinality(A) \in Nat /\ Cardinality(B) \in Nat
  BY <1>2, FS_CardinalityType
<1>4. ASSUME pc[u] \in S, q \notin S
      PROVE  Cardinality(B) = Cardinality(A) - 1
  <2>1. B = A \ {u} /\ u \in A
    BY <1>1, <1>4
  <2> QED
    BY <1>2, <2>1, FS_RemoveElement
<1>5. ASSUME pc[u] \notin S, q \in S
      PROVE  Cardinality(B) = Cardinality(A) + 1
  <2>1. B = A \cup {u} /\ u \notin A
    BY <1>1, <1>5
  <2> QED
    BY <1>2, <2>1, FS_AddElement
<1>6. ASSUME pc[u] \in S <=> q \in S
      PROVE  Cardinality(B) = Cardinality(A)
  <2>1. B = A
    BY <1>1, <1>6
  <2> QED
    BY <2>1
<1> QED
  BY <1>3, <1>4, <1>5, <1>6

(* The first handler not in use is the one Handled says. *)
LEMMA HandledCounts ==
  ASSUME NEW c \in Clients, NEW k \in 0..MaxMsgs, \A i \in 1..MaxMsgs : pc[<<c, i>>] # "none" <=> i <= k
  PROVE  Handled(c) = k
<1>1. MaxMsgs \in Nat
  BY ThreadFacts
<1>2. {i \in 1..MaxMsgs : pc[<<c, i>>] # "none"} = 1..k
  BY <1>1
<1>3. Cardinality(1..k) = k
  BY <1>1, FS_Interval
<1> QED
  BY <1>2, <1>3 DEF Handled

-----------------------------------------------------------------------------
(***************************************************************************)
(* A step that moves one thread on, and nothing the invariants are about.  *)
(***************************************************************************)
LEMMA Moves ==
  ASSUME TypeOK, PcInv, ConnInv, BatchInv, DeletedInv, EndInv,
         NEW u \in Threads, NEW q, pc' = [pc EXCEPT ![u] = q],
         UNCHANGED <<backlog, ended, conn, deleter, batch, cur>>,
         open' \subseteq open, watched' \subseteq watched,
         pc'[Runway] \in {"new", "add"} => cur \in open',
         u = Runway => /\ q \in RunwayPlaces \ {"new", "add"} /\ pc[u] # "new"
                       /\ q \in Using => pc[u] \in Using,
         u # Runway => q \in HandlerPlaces \ {"none"} /\ pc[u] \notin {"none", "done"},
         q \in {"count", "delete"} => Target(u) \notin open',
         u = Runway /\ q = "close" => (cur \in open => ended[cur] # "no"),
         u = Runway /\ q \in {"count", "delete"} => ended[cur] # "no",
         pc'[Runway] = "bound" => opens' >= 1
  PROVE  PcInv' /\ ConnInv' /\ BatchInv' /\ DeletedInv' /\ EndInv' /\ pc' \in [Threads -> Places]
<1>1. pc \in [Threads -> Places]
  BY DEF TypeOK
<1>2. \A v \in Threads : pc'[v] = IF v = u THEN q ELSE pc[v]
  BY <1>1
<1>3. pc' \in [Threads -> Places]
  BY <1>1, ThreadFacts DEF Places, RunwayPlaces, HandlerPlaces
<1>4. \A h \in Handlers : pc'[h] # "none" <=> pc[h] # "none"
  BY <1>2, ThreadFacts
<1>5. PcInv'
  <2>1. pc'[Runway] \in RunwayPlaces
    BY <1>2, ThreadFacts DEF PcInv
  <2>2. \A h \in Handlers : pc'[h] \in HandlerPlaces
    BY <1>2, ThreadFacts DEF PcInv
  <2>3. \A c \in Clients : \E k \in 0..MaxMsgs : \A i \in 1..MaxMsgs : pc'[<<c, i>>] # "none" <=> i <= k
    BY <1>4, ThreadFacts DEF PcInv
  <2> QED
    BY <2>1, <2>2, <2>3 DEF PcInv
<1>6. Target(u)' = Target(u) /\ \A v \in Threads : Target(v)' = Target(v)
  BY DEF Target
<1>7. pc'[Runway] \in Using => pc[Runway] \in Using
  BY <1>2, ThreadFacts
<1>8. ConnInv'
  <2>1. \A c \in Clients : conn[c] = "fd" => pc'[Runway] = "new"
    BY <1>2, ThreadFacts DEF ConnInv
  <2>2. pc'[Runway] = "new" => pc[Runway] = "new"
    BY <1>2, ThreadFacts
  <2>3. pc'[Runway] = "add" => pc[Runway] = "add"
    BY <1>2, ThreadFacts
  <2>4. pc'[Runway] = "add" => \A i \in 1..MaxMsgs : pc'[<<cur, i>>] = "none"
    BY <1>4, <2>3, ThreadFacts DEF ConnInv, TypeOK
  <2>5. \A v \in Threads : pc'[v] \in {"count", "delete"} => Target(v) \notin open'
    BY <1>2 DEF ConnInv
  <2> QED
    BY <1>4, <1>6, <1>7, <2>1, <2>2, <2>3, <2>4, <2>5 DEF ConnInv
<1>9. BatchInv'
  BY <1>7 DEF BatchInv
<1>10. DeletedInv'
  <2>1. \A v \in Handlers : pc[v] = "done" => pc'[v] = "done"
    BY <1>2, ThreadFacts
  <2> QED
    BY <1>7, <2>1 DEF DeletedInv
<1>11. EndInv'
  BY <1>2, ThreadFacts DEF EndInv
<1> QED
  BY <1>3, <1>5, <1>8, <1>9, <1>10, <1>11

(* The terms of ActiveLaw. *)
Lagging == Cardinality({u \in Threads : pc[u] \in {"bound", "count"}})
Fresh == Cardinality({u \in Threads : pc[u] = "new"})

LEMMA Lags ==
  ASSUME TypeOK, NEW u \in Threads, NEW q, pc' = [pc EXCEPT ![u] = q]
  PROVE  /\ Lagging \in Nat /\ Lagging' \in Nat /\ Fresh \in Nat /\ Fresh' \in Nat
         /\ pc[u] \in {"bound", "count"} /\ q \notin {"bound", "count"} => Lagging' = Lagging - 1
         /\ pc[u] \notin {"bound", "count"} /\ q \in {"bound", "count"} => Lagging' = Lagging + 1
         /\ (pc[u] \in {"bound", "count"} <=> q \in {"bound", "count"}) => Lagging' = Lagging
         /\ pc[u] = "new" /\ q # "new" => Fresh' = Fresh - 1
         /\ pc[u] # "new" /\ q = "new" => Fresh' = Fresh + 1
         /\ (pc[u] = "new" <=> q = "new") => Fresh' = Fresh
<1>1. pc \in [Threads -> Places]
  BY DEF TypeOK
<1>2. /\ Lagging \in Nat /\ Lagging' \in Nat
      /\ pc[u] \in {"bound", "count"} /\ q \notin {"bound", "count"} => Lagging' = Lagging - 1
      /\ pc[u] \notin {"bound", "count"} /\ q \in {"bound", "count"} => Lagging' = Lagging + 1
      /\ (pc[u] \in {"bound", "count"} <=> q \in {"bound", "count"}) => Lagging' = Lagging
  BY <1>1, CountMoves DEF Lagging
<1> DEFINE before == Cardinality({v \in Threads : pc[v] \in {"new"}})
           after == Cardinality({v \in Threads : pc'[v] \in {"new"}})
<1>3. /\ before \in Nat /\ after \in Nat
      /\ pc[u] \in {"new"} /\ q \notin {"new"} => after = before - 1
      /\ pc[u] \notin {"new"} /\ q \in {"new"} => after = before + 1
      /\ (pc[u] \in {"new"} <=> q \in {"new"}) => after = before
  BY <1>1, CountMoves
<1>4. Fresh = before
  <2>1. {v \in Threads : pc[v] = "new"} = {v \in Threads : pc[v] \in {"new"}}
    OBVIOUS
  <2> QED
    BY <2>1 DEF Fresh
<1>5. Fresh' = after
  <2>1. {v \in Threads : pc'[v] = "new"} = {v \in Threads : pc'[v] \in {"new"}}
    OBVIOUS
  <2> QED
    BY <2>1 DEF Fresh
<1> HIDE DEF before, after
<1> QED
  BY <1>2, <1>3, <1>4, <1>5

LEMMA ActiveSays ==
  ActiveLaw <=> opens - closes - errors + doubled = Cardinality(open) + Lagging - Fresh
BY DEF ActiveLaw, Lagging, Fresh

LEMMA OpenFinite == ASSUME TypeOK PROVE IsFiniteSet(open) /\ Cardinality(open) \in Nat
BY FS_Subset, FS_CardinalityType, ThreadFacts DEF TypeOK

LEMMA BatchTyped == ASSUME TypeOK PROVE \A i \in 1..Len(batch) : batch[i].of \in Clients \cup {Listener}
<1> DEFINE Event == [of : Clients \cup {Listener}, in : BOOLEAN]
<1>1. batch \in Seq(Event)
  BY DEF TypeOK
<1>2. \A e \in Event : e.of \in Clients \cup {Listener}
  OBVIOUS
<1> HIDE DEF Event
<1>3. \A i \in 1..Len(batch) : batch[i] \in Event
  BY <1>1
<1> QED
  BY <1>2, <1>3

(* The counters of a step that counts nothing. *)
LEMMA ActiveStays ==
  ASSUME TypeOK, ActiveLaw, NEW u \in Threads, NEW q, pc' = [pc EXCEPT ![u] = q],
         pc[u] \notin {"bound", "count", "new"}, q \notin {"bound", "count", "new"},
         UNCHANGED <<open, opens, closes, errors, doubled>>
  PROVE  ActiveLaw'
<1>1. Lagging' = Lagging /\ Fresh' = Fresh
  BY Lags
<1> QED
  BY <1>1, ActiveSays DEF ActiveLaw, Lagging, Fresh

LEMMA BacklogStays ==
  ASSUME BacklogLaw, UNCHANGED <<backlog, merged, failed, edge, batch>>
  PROVE  BacklogLaw'
BY DEF BacklogLaw, Listening, One

LEMMA StaleStays ==
  ASSUME StaleOnlyThroughOthers, stale = {}, stale' = stale
  PROVE  StaleOnlyThroughOthers'
BY DEF StaleOnlyThroughOthers

(* The step of a thread that only goes on. *)
LEMMA GoesOn ==
  ASSUME IInv, stale = {}, NEW u \in Threads, NEW q, pc' = [pc EXCEPT ![u] = q],
         pc[u] \notin {"bound", "count", "new"}, q \notin {"bound", "count", "delete", "new", "add"},
         u = Runway => q \in RunwayPlaces /\ (q \in Using => pc[u] \in Using),
         u # Runway => q \in HandlerPlaces \ {"none"} /\ pc[u] \notin {"none", "done"},
         u = Runway /\ q = "close" => (cur \in open => ended[cur] # "no"),
         UNCHANGED <<backlog, edge, merged, failed, inbox, ended, watched, open, objects, batch, cur, counters>>,
         ready' \subseteq watched
  PROVE  IInv'
<1>1. conn' = conn /\ deleter' = deleter /\ stale' = stale
      /\ opens' = opens /\ closes' = closes /\ errors' = errors /\ doubled' = doubled
  BY DEF objects, counters
<1>2. pc'[Runway] # "bound" \/ pc[Runway] = "bound"
  BY ThreadFacts DEF IInv, TypeOK
<1>3. pc'[Runway] \in {"new", "add"} => cur \in open'
  BY ThreadFacts DEF IInv, TypeOK, ConnInv
<1>4. PcInv' /\ ConnInv' /\ BatchInv' /\ DeletedInv' /\ EndInv' /\ pc' \in [Threads -> Places]
  BY <1>1, <1>2, <1>3, Moves DEF IInv, PcInv
<1>5. ActiveLaw'
  BY <1>1, ActiveStays DEF IInv
<1>6. BacklogLaw' /\ StaleOnlyThroughOthers'
  BY <1>1, BacklogStays, StaleStays DEF IInv
<1>7. TypeOK'
  BY <1>1, <1>4 DEF IInv, TypeOK
<1> QED
  BY <1>4, <1>5, <1>6, <1>7 DEF IInv

(* The places a thread goes on from, and to. *)
LEMMA OnwardHolds ==
  ASSUME IInv, stale = {},
         \/ BootListen \/ BootFails \/ RecvNothing \/ RecvEnd \/ EpollModIn \/ Send(Runway)
         \/ \E h \in Handlers : Route(h) \/ Push(h) \/ Send(h)
  PROVE  IInv'
<1>1. ready \subseteq watched
  BY DEF IInv, TypeOK
<1>2. CASE BootListen
  <2>1. pc[Runway] = "listen" /\ pc' = [pc EXCEPT ![Runway] = "next"]
    BY <1>2 DEF BootListen, Goto
  <2>2. UNCHANGED <<backlog, edge, merged, failed, inbox, ended, watched, ready, open, objects, batch, cur, counters>>
    BY <1>2 DEF BootListen, kernel
  <2> QED
    BY <1>1, <2>1, <2>2, GoesOn, ThreadFacts DEF RunwayPlaces, Using
<1>3. CASE BootFails
  <2>1. pc[Runway] \in {"boot", "listen"} /\ pc' = [pc EXCEPT ![Runway] = "deaf"]
    BY <1>3 DEF BootFails
  <2>2. UNCHANGED <<backlog, edge, merged, failed, inbox, ended, watched, ready, open, objects, batch, cur, counters>>
    BY <1>3 DEF BootFails, kernel
  <2> QED
    BY <1>1, <2>1, <2>2, GoesOn, ThreadFacts DEF RunwayPlaces, Using
<1>4. CASE RecvNothing
  <2>1. pc[Runway] = "recv" /\ pc' = [pc EXCEPT ![Runway] = "mod_in_out"]
    BY <1>4 DEF RecvNothing, Goto
  <2>2. UNCHANGED <<backlog, edge, merged, failed, inbox, ended, watched, ready, open, objects, batch, cur, counters>>
    BY <1>4 DEF RecvNothing, kernel
  <2> QED
    BY <1>1, <2>1, <2>2, GoesOn, ThreadFacts DEF RunwayPlaces, Using
<1>5. CASE RecvEnd
  <2>1. pc[Runway] = "recv" /\ pc' = [pc EXCEPT ![Runway] = "close"] /\ (cur \in open => ended[cur] # "no")
    BY <1>5 DEF RecvEnd, Goto
  <2>2. UNCHANGED <<backlog, edge, merged, failed, inbox, ended, watched, ready, open, objects, batch, cur, counters>>
    BY <1>5 DEF RecvEnd, kernel
  <2> QED
    BY <1>1, <2>1, <2>2, GoesOn, ThreadFacts DEF RunwayPlaces, Using
<1>6. CASE EpollModIn
  <2> DEFINE q == IF pc[Runway] = "mod_in" THEN "recv" ELSE "next"
  <2>1. pc[Runway] \in {"mod_in", "mod_in_out"} /\ pc' = [pc EXCEPT ![Runway] = q]
    BY <1>6 DEF EpollModIn, At
  <2>2. ready' \subseteq watched
    BY <1>1, <1>6 DEF EpollModIn, Notify
  <2>3. UNCHANGED <<backlog, edge, merged, failed, inbox, ended, watched, open, objects, batch, cur, counters>>
    BY <1>6 DEF EpollModIn
  <2>4. q \in {"recv", "next"}
    OBVIOUS
  <2> HIDE DEF q
  <2> QED
    BY <2>1, <2>2, <2>3, <2>4, GoesOn, ThreadFacts DEF RunwayPlaces, Using
<1>7. CASE Send(Runway)
  <2>1. pc[Runway] = "send" /\ pc' = [pc EXCEPT ![Runway] = "next"]
    BY <1>7, ThreadFacts DEF Send, Goto
  <2>2. UNCHANGED <<backlog, edge, merged, failed, inbox, ended, watched, ready, open, objects, batch, cur, counters>>
    BY <1>7 DEF Send, kernel
  <2> QED
    BY <1>1, <2>1, <2>2, GoesOn, ThreadFacts DEF RunwayPlaces, Using
<1>8. ASSUME NEW h \in Handlers, Route(h) \/ Push(h) \/ Send(h)
      PROVE  IInv'
  <2>1. PICK q \in {"push", "close", "send", "done"} :
          pc[h] \in {"routed", "unrouted", "push", "send"} /\ pc' = [pc EXCEPT ![h] = q]
    BY <1>8, ThreadFacts DEF Route, Push, Send, Goto
  <2>2. UNCHANGED <<backlog, edge, merged, failed, inbox, ended, watched, ready, open, objects, batch, cur, counters>>
    BY <1>8 DEF Route, Push, Send, kernel
  <2> QED
    BY <1>1, <2>1, <2>2, GoesOn, ThreadFacts DEF HandlerPlaces
<1> QED
  BY <1>2, <1>3, <1>4, <1>5, <1>6, <1>7, <1>8

(* The listening socket is counted and taken out again. *)
LEMMA BootHolds ==
  ASSUME IInv, stale = {}, BootSocket \/ BootUncount
  PROVE  IInv'
<1>1. PICK q \in {"bound", "listen"} :
        /\ pc' = [pc EXCEPT ![Runway] = q]
        /\ \/ q = "bound" /\ pc[Runway] = "boot" /\ opens' = opens + 1
           \/ q = "listen" /\ pc[Runway] = "bound" /\ opens' = opens - 1
  BY DEF BootSocket, BootUncount, Goto
<1>2. UNCHANGED <<backlog, edge, merged, failed, inbox, ended, watched, ready, open, batch, cur>>
      /\ conn' = conn /\ deleter' = deleter /\ stale' = stale
      /\ closes' = closes /\ errors' = errors /\ doubled' = doubled
  BY DEF BootSocket, BootUncount, kernel, objects
<1>3. /\ opens \in Nat /\ closes \in Nat /\ errors \in Nat /\ doubled \in Nat /\ Cardinality(open) \in Nat
      /\ pc[Runway] = "bound" => opens >= 1
  BY OpenFinite DEF IInv, TypeOK, PcInv
<1>4. opens' \in Nat /\ (q = "bound" => opens' >= 1)
  BY <1>1, <1>3
<1>5. pc'[Runway] = q
  BY <1>1, ThreadFacts DEF IInv, TypeOK
<1>6. PcInv' /\ ConnInv' /\ BatchInv' /\ DeletedInv' /\ EndInv' /\ pc' \in [Threads -> Places]
  BY <1>1, <1>2, <1>4, <1>5, Moves, ThreadFacts DEF IInv, RunwayPlaces, Using
<1>7. ActiveLaw'
  <2>1. /\ Fresh' = Fresh /\ Lagging' = IF q = "bound" THEN Lagging + 1 ELSE Lagging - 1
        /\ Lagging \in Nat /\ Fresh \in Nat
    BY <1>1, Lags, ThreadFacts DEF IInv
  <2>2. opens - closes - errors + doubled = Cardinality(open) + Lagging - Fresh
    BY ActiveSays DEF IInv
  <2>3. opens' - closes' - errors' + doubled' = Cardinality(open') + Lagging' - Fresh'
    BY <1>1, <1>2, <1>3, <2>1, <2>2
  <2> QED
    BY <2>3 DEF ActiveLaw, Lagging, Fresh
<1>8. BacklogLaw' /\ StaleOnlyThroughOthers'
  BY <1>2, BacklogStays, StaleStays DEF IInv
<1>9. TypeOK'
  BY <1>2, <1>4, <1>6 DEF IInv, TypeOK
<1> QED
  BY <1>6, <1>7, <1>8, <1>9 DEF IInv

(* ::close: the descriptor is closed here, or was by somebody else. *)
LEMMA CloseFdHolds ==
  ASSUME IInv, stale = {}, NEW u \in Threads, CloseFd(u)
  PROVE  IInv'
<1> DEFINE c == Target(u)
<1>1. /\ pc[u] = "close" /\ conn[c] = "object"
      /\ UNCHANGED <<backlog, edge, merged, failed, inbox, ended, objects, batch, cur>>
  BY DEF CloseFd, At
<1>2. conn' = conn /\ deleter' = deleter /\ stale' = stale
  BY <1>1 DEF objects
<1>3. /\ opens \in Nat /\ closes \in Nat /\ errors \in Nat /\ doubled \in Nat /\ Cardinality(open) \in Nat
      /\ IsFiniteSet(open) /\ watched \subseteq open /\ ready \subseteq watched
  BY OpenFinite DEF IInv, TypeOK
<1>4. BacklogLaw' /\ StaleOnlyThroughOthers'
  BY <1>1, <1>2, BacklogStays, StaleStays DEF IInv
<1>5. opens - closes - errors + doubled = Cardinality(open) + Lagging - Fresh
  BY ActiveSays DEF IInv
<1>6. pc[Runway] = "new" => cur \in open /\ cur # c
  BY <1>1 DEF IInv, ConnInv
<1>7. pc[Runway] = "add" => cur \in open /\ cur # c
  <2> SUFFICES ASSUME pc[Runway] = "add", cur = c PROVE FALSE
    BY DEF IInv, ConnInv
  <2>1. u \in Handlers /\ u = <<cur, u[2]>> /\ u[2] \in 1..MaxMsgs
    BY <1>1, ThreadFacts
  <2>2. pc[<<cur, u[2]>>] = "none"
    BY <2>1 DEF IInv, ConnInv
  <2> QED
    BY <1>1, <2>1, <2>2
<1>8. ASSUME c \in open, open' = open \ {c}, watched' = watched \ {c}, ready' = ready \ {c},
             pc' = [pc EXCEPT ![u] = "count"], UNCHANGED counters
      PROVE  IInv'
  <2>1. opens' = opens /\ closes' = closes /\ errors' = errors /\ doubled' = doubled
    BY <1>8 DEF counters
  <2>2. pc'[u] = "count" /\ \A v \in Threads : v # u => pc'[v] = pc[v]
    BY <1>8 DEF IInv, TypeOK
  <2>3. pc'[Runway] \in {"new", "add"} => cur \in open'
    BY <1>6, <1>7, <1>8, <2>2, ThreadFacts
  <2>4. pc'[Runway] = "bound" => opens' >= 1
    BY <2>1, <2>2, ThreadFacts DEF IInv, PcInv
  <2>5. u = Runway => ended[cur] # "no"
    BY <1>1, <1>8, ThreadFacts DEF IInv, EndInv
  <2>6. Target(u) \notin open'
    BY <1>8
  <2>7. PcInv' /\ ConnInv' /\ BatchInv' /\ DeletedInv' /\ EndInv' /\ pc' \in [Threads -> Places]
    BY <1>1, <1>2, <1>8, <2>3, <2>4, <2>5, <2>6, Moves DEF IInv, RunwayPlaces, HandlerPlaces, Using
  <2>8. ActiveLaw'
    <3>1. Lagging' = Lagging + 1 /\ Fresh' = Fresh /\ Lagging \in Nat /\ Fresh \in Nat
      BY <1>1, <1>8, Lags DEF IInv
    <3>2. Cardinality(open') = Cardinality(open) - 1
      BY <1>3, <1>8, FS_RemoveElement
    <3>3. opens' - closes' - errors' + doubled' = Cardinality(open') + Lagging' - Fresh'
      BY <1>3, <1>5, <2>1, <3>1, <3>2
    <3> QED
      BY <3>3 DEF ActiveLaw, Lagging, Fresh
  <2>9. TypeOK'
    <3>1. watched' \subseteq open' /\ ready' \subseteq watched' /\ open' \subseteq Clients
      BY <1>3, <1>8 DEF IInv, TypeOK
    <3> QED
      BY <1>1, <1>2, <2>1, <2>7, <3>1 DEF IInv, TypeOK
  <2> QED
    BY <1>4, <2>7, <2>8, <2>9 DEF IInv
<1>9. ASSUME errors' = errors + 1, doubled' = doubled + 1, pc' = [pc EXCEPT ![u] = Return(u)],
             opens' = opens, closes' = closes, UNCHANGED <<watched, ready, open>>
      PROVE  IInv'
  <2>1. PICK q \in {"next", "done"} : q = Return(u) /\ (u = Runway => q = "next") /\ (u # Runway => q = "done")
    BY DEF Return
  <2>2. pc'[u] = q /\ \A v \in Threads : v # u => pc'[v] = pc[v]
    BY <1>9, <2>1 DEF IInv, TypeOK
  <2>3. pc'[Runway] \in {"new", "add"} => cur \in open'
    BY <1>6, <1>7, <1>9, <2>2, ThreadFacts
  <2>4. pc'[Runway] = "bound" => opens' >= 1
    BY <1>9, <2>2, ThreadFacts DEF IInv, PcInv
  <2>5. PcInv' /\ ConnInv' /\ BatchInv' /\ DeletedInv' /\ EndInv' /\ pc' \in [Threads -> Places]
    BY <1>1, <1>2, <1>9, <2>1, <2>3, <2>4, Moves DEF IInv, RunwayPlaces, HandlerPlaces, Using
  <2>6. ActiveLaw'
    <3>1. Lagging' = Lagging /\ Fresh' = Fresh /\ Lagging \in Nat /\ Fresh \in Nat
      BY <1>1, <1>9, <2>1, Lags DEF IInv
    <3>2. opens' - closes' - errors' + doubled' = Cardinality(open') + Lagging' - Fresh'
      BY <1>3, <1>5, <1>9, <3>1
    <3> QED
      BY <3>2 DEF ActiveLaw, Lagging, Fresh
  <2>7. TypeOK'
    BY <1>1, <1>2, <1>3, <1>9, <2>5 DEF IInv, TypeOK
  <2> QED
    BY <1>4, <2>5, <2>6, <2>7 DEF IInv
<1> QED
  BY <1>8, <1>9 DEF CloseFd, Goto

LEMMA CountCloseHolds ==
  ASSUME IInv, stale = {}, NEW u \in Threads, CountClose(u)
  PROVE  IInv'
<1>1. /\ pc[u] = "count" /\ pc' = [pc EXCEPT ![u] = "delete"]
      /\ \/ closes' = closes + 1 /\ errors' = errors
         \/ closes' = closes /\ errors' = errors + 1
      /\ UNCHANGED <<backlog, edge, merged, failed, inbox, ended, watched, ready, open, batch, cur>>
      /\ conn' = conn /\ deleter' = deleter /\ stale' = stale /\ opens' = opens /\ doubled' = doubled
  BY DEF CountClose, At, Goto, kernel, objects
<1>2. /\ opens \in Nat /\ closes \in Nat /\ errors \in Nat /\ doubled \in Nat /\ Cardinality(open) \in Nat
  BY OpenFinite DEF IInv, TypeOK
<1>3. pc'[u] = "delete" /\ \A v \in Threads : v # u => pc'[v] = pc[v]
  BY <1>1 DEF IInv, TypeOK
<1>4. pc'[Runway] \in {"new", "add"} => cur \in open'
  BY <1>1, <1>3, ThreadFacts DEF IInv, ConnInv
<1>5. pc'[Runway] = "bound" => opens' >= 1
  BY <1>1, <1>3, ThreadFacts DEF IInv, PcInv
<1>6. Target(u) \notin open' /\ (u = Runway => ended[cur] # "no")
  BY <1>1 DEF IInv, ConnInv, EndInv
<1>7. PcInv' /\ ConnInv' /\ BatchInv' /\ DeletedInv' /\ EndInv' /\ pc' \in [Threads -> Places]
  BY <1>1, <1>4, <1>5, <1>6, Moves DEF IInv, RunwayPlaces, HandlerPlaces, Using
<1>8. ActiveLaw'
  <2>1. Lagging' = Lagging - 1 /\ Fresh' = Fresh /\ Lagging \in Nat /\ Fresh \in Nat
    <3>1. PICK q : q = "delete"
      OBVIOUS
    <3>2. TypeOK /\ pc' = [pc EXCEPT ![u] = q]
      BY <1>1, <3>1 DEF IInv
    <3>3. pc[u] \in {"bound", "count"} /\ q \notin {"bound", "count"} /\ pc[u] # "new" /\ q # "new"
      BY <1>1, <3>1
    <3> QED
      BY <3>2, <3>3, Lags
  <2>2. opens - closes - errors + doubled = Cardinality(open) + Lagging - Fresh
    BY ActiveSays DEF IInv
  <2>3. opens' - closes' - errors' + doubled' = Cardinality(open') + Lagging' - Fresh'
    BY <1>1, <1>2, <2>1, <2>2
  <2> QED
    BY <2>3 DEF ActiveLaw, Lagging, Fresh
<1>9. BacklogLaw' /\ StaleOnlyThroughOthers'
  BY <1>1, BacklogStays, StaleStays DEF IInv
<1>10. TypeOK'
  <2>1. closes' \in Nat /\ errors' \in Nat
    BY <1>1, <1>2
  <2> QED
    BY <1>1, <1>7, <2>1 DEF IInv, TypeOK
<1> QED
  BY <1>7, <1>8, <1>9, <1>10 DEF IInv

(* delete this: the thread is through with the connection. *)
LEMMA DeleteHolds ==
  ASSUME IInv, stale = {}, NEW u \in Threads, Delete(u)
  PROVE  IInv'
<1>1. PICK c \in Clients : c = Target(u)
  BY ThreadFacts DEF Target, IInv, TypeOK
<1>2. PICK q \in {"next", "done"} : q = Return(u) /\ (u = Runway => q = "next") /\ (u # Runway => q = "done")
  BY DEF Return
<1>3. /\ pc[u] = "delete" /\ conn[c] = "object" /\ pc' = [pc EXCEPT ![u] = q]
      /\ conn' = [conn EXCEPT ![c] = "deleted"] /\ deleter' = [deleter EXCEPT ![c] = u]
      /\ UNCHANGED <<backlog, edge, merged, failed, inbox, ended, watched, ready, open, batch, cur>>
      /\ stale' = stale /\ opens' = opens /\ closes' = closes /\ errors' = errors /\ doubled' = doubled
  BY <1>1, <1>2 DEF Delete, At, Goto, kernel, counters
<1>4. /\ pc'[u] = q /\ \A v \in Threads : v # u => pc'[v] = pc[v]
      /\ pc' \in [Threads -> Places]
  BY <1>3 DEF IInv, TypeOK, Places
<1>5. /\ conn'[c] = "deleted" /\ \A d \in Clients : d # c => conn'[d] = conn[d]
      /\ deleter'[c] = u /\ \A d \in Clients : d # c => deleter'[d] = deleter[d]
      /\ conn' \in [Clients -> {"none", "fd", "object", "deleted"}] /\ deleter' \in [Clients -> Threads]
  BY <1>3 DEF IInv, TypeOK
<1>6. c \notin open /\ c \notin watched
  BY <1>1, <1>3 DEF IInv, ConnInv, TypeOK
<1>7. /\ u = Runway => c = cur /\ ended[c] # "no"
      /\ u # Runway => u \in Handlers /\ c = u[1]
  BY <1>1, <1>3, ThreadFacts DEF IInv, EndInv
<1>8. TypeOK'
  BY <1>3, <1>4, <1>5 DEF IInv, TypeOK
<1>9. /\ \A h \in Handlers : pc'[h] # "none" <=> pc[h] # "none"
      /\ pc'[Runway] \in Using => pc[Runway] \in Using /\ u # Runway
      /\ pc'[Runway] \in {"new", "add", "bound", "close", "count", "delete"} => pc'[Runway] = pc[Runway]
  BY <1>2, <1>3, <1>4, ThreadFacts DEF Using
<1>10. PcInv'
  <2>1. pc'[Runway] \in RunwayPlaces
    BY <1>2, <1>4, ThreadFacts DEF IInv, PcInv, RunwayPlaces
  <2>2. \A h \in Handlers : pc'[h] \in HandlerPlaces
    BY <1>2, <1>4, ThreadFacts DEF IInv, PcInv, HandlerPlaces
  <2>3. \A d \in Clients : \E k \in 0..MaxMsgs : \A i \in 1..MaxMsgs : pc'[<<d, i>>] # "none" <=> i <= k
    BY <1>9, ThreadFacts DEF IInv, PcInv
  <2>4. pc'[Runway] = "bound" => opens' >= 1
    BY <1>3, <1>9 DEF IInv, PcInv
  <2> QED
    BY <2>1, <2>2, <2>3, <2>4 DEF PcInv
<1>11. ConnInv'
  <2>1. \A i \in 1..Len(backlog) : backlog[i] \in Clients
    BY DEF IInv, TypeOK
  <2>2. \A i \in 1..Len(backlog) : conn'[backlog[i]] = "none"
    BY <1>3, <1>5, <2>1 DEF IInv, ConnInv
  <2>3. \A d \in Clients : /\ d \in open => conn'[d] \in {"fd", "object"}
                           /\ d \in watched => conn'[d] = "object"
                           /\ conn'[d] = "fd" => pc'[Runway] = "new" /\ cur = d
    <3> TAKE d \in Clients
    <3>1. CASE d = c
      BY <1>5, <1>6, <3>1
    <3>2. CASE d # c
      <4>1. conn'[d] = conn[d]
        BY <1>5, <3>2
      <4>2. pc[Runway] = "new" => pc'[Runway] = "new"
        BY <1>3, <1>4, ThreadFacts
      <4> QED
        BY <4>1, <4>2 DEF IInv, ConnInv
    <3> QED
      BY <3>1, <3>2
  <2>4. pc'[Runway] = "new" => conn'[cur] = "fd" /\ cur \in open
    BY <1>3, <1>5, <1>9 DEF IInv, ConnInv, TypeOK
  <2>5. ASSUME pc'[Runway] = "add"
        PROVE  conn'[cur] = "object" /\ cur \in open /\ \A i \in 1..MaxMsgs : pc'[<<cur, i>>] = "none"
    <3>1. pc[Runway] = "add" /\ u # Runway
      BY <1>2, <1>4, <1>9, <2>5, ThreadFacts
    <3>2. conn[cur] = "object" /\ cur \in open /\ \A i \in 1..MaxMsgs : pc[<<cur, i>>] = "none"
      BY <3>1 DEF IInv, ConnInv
    <3>3. cur # c /\ cur \in Clients
      BY <1>6, <3>2 DEF IInv, TypeOK
    <3> QED
      BY <1>5, <1>9, <3>2, <3>3, ThreadFacts
  <2>6. pc'[Runway] \in Using => conn'[cur] \in {"object", "deleted"}
    BY <1>5, <1>9 DEF IInv, ConnInv, TypeOK
  <2>7. \A h \in Handlers : pc'[h] # "none" => conn'[h[1]] \in {"object", "deleted"}
    BY <1>5, <1>9, ThreadFacts DEF IInv, ConnInv
  <2>8. \A v \in Threads : pc'[v] \in {"count", "delete"} => Target(v)' \notin open
    BY <1>2, <1>3, <1>4 DEF IInv, ConnInv, Target
  <2> QED
    BY <1>3, <2>2, <2>3, <2>4, <2>5, <2>6, <2>7, <2>8 DEF IInv, ConnInv
<1>12. BatchInv'
  <2>1. \A i \in 1..Len(batch) : batch[i].of \in Clients \cup {Listener}
    BY BatchTyped DEF IInv
  <2> QED
    BY <1>3, <1>5, <1>9, <2>1 DEF IInv, BatchInv
<1>13. DeletedInv'
  <2> SUFFICES ASSUME NEW d \in Clients, conn'[d] = "deleted"
               PROVE  /\ deleter'[d] = Runway => /\ ended[d] # "no"
                                                 /\ \A i \in 1..Len(batch) : batch[i].of # d
                                                 /\ ~(pc'[Runway] \in Using /\ cur = d)
                      /\ deleter'[d] # Runway => deleter'[d] \in Handlers /\ pc'[deleter'[d]] = "done"
    BY <1>3 DEF DeletedInv
  <2>1. CASE d = c
    <3>1. CASE u = Runway
      <4>1. \A i \in 1..Len(batch) : batch[i].of # c
        BY <1>3, <1>7, <3>1 DEF IInv, BatchInv, Using
      <4> QED
        BY <1>5, <1>7, <1>9, <2>1, <3>1, <4>1
    <3>2. CASE u # Runway
      BY <1>2, <1>4, <1>5, <1>7, <2>1, <3>2
    <3> QED
      BY <3>1, <3>2
  <2>2. CASE d # c
    <3>1. conn[d] = "deleted" /\ deleter'[d] = deleter[d]
      BY <1>5, <2>2
    <3>2. \A h \in Handlers : pc[h] = "done" => pc'[h] = "done"
      BY <1>3, <1>4, ThreadFacts
    <3> QED
      BY <1>9, <3>1, <3>2 DEF IInv, DeletedInv
  <2> QED
    BY <2>1, <2>2
<1>14. EndInv'
  BY <1>3, <1>9 DEF IInv, EndInv
<1>15. ActiveLaw'
  BY <1>2, <1>3, ActiveStays DEF IInv
<1>16. BacklogLaw' /\ StaleOnlyThroughOthers'
  BY <1>3, BacklogStays, StaleStays DEF IInv
<1> QED
  BY <1>8, <1>10, <1>11, <1>12, <1>13, <1>14, <1>15, <1>16 DEF IInv

-----------------------------------------------------------------------------
(* The peers, and whoever finds a connection deleted. *)

LEMMA OthersStay ==
  ASSUME IInv, UNCHANGED <<backlog, edge, merged, failed, watched, open, conn, deleter, batch, cur, pc, counters>>,
         ready' \subseteq watched, inbox' \in [Clients -> Seq(Kinds)],
         ended' \in [Clients -> {"no", "fin", "rst"}],
         \A d \in Clients : ended[d] # "no" => ended'[d] # "no",
         StaleOnlyThroughOthers', stale' \subseteq Threads \X Threads
  PROVE  IInv'
<1>1. /\ opens' = opens /\ closes' = closes /\ errors' = errors /\ doubled' = doubled
      /\ conn' = conn /\ deleter' = deleter /\ pc' = pc /\ cur' = cur /\ batch' = batch
      /\ open' = open /\ watched' = watched /\ backlog' = backlog /\ cur \in Clients
  BY DEF counters, IInv, TypeOK
<1>2. TypeOK'
  BY <1>1 DEF IInv, TypeOK
<1>3. PcInv'
  BY <1>1 DEF IInv, PcInv
<1>4. ConnInv'
  BY <1>1 DEF IInv, ConnInv, Target
<1>5. BatchInv'
  BY <1>1 DEF IInv, BatchInv
<1>6. DeletedInv'
  BY <1>1 DEF IInv, DeletedInv
<1>7. EndInv'
  BY <1>1 DEF IInv, EndInv
<1>8. ActiveLaw'
  BY <1>1 DEF IInv, ActiveLaw
<1>9. BacklogLaw'
  BY BacklogStays DEF IInv
<1> QED
  BY <1>2, <1>3, <1>4, <1>5, <1>6, <1>7, <1>8, <1>9 DEF IInv

LEMMA NothingHolds == ASSUME IInv, UNCHANGED vars PROVE IInv'
<1>1. UNCHANGED <<backlog, edge, merged, failed, watched, open, conn, deleter, batch, cur, pc, counters>>
      /\ ready' = ready /\ inbox' = inbox /\ ended' = ended /\ stale' = stale
  BY DEF vars, kernel, objects
<1>2. StaleOnlyThroughOthers'
  BY <1>1 DEF IInv, StaleOnlyThroughOthers, Target
<1> QED
  BY <1>1, <1>2, OthersStay DEF IInv, TypeOK

LEMMA PeerHolds ==
  ASSUME IInv, stale = {}, NEW c \in Clients,
         (\E kind \in Kinds : PeerWrites(c, kind)) \/ (\E how \in {"fin", "rst"} : PeerEnds(c, how))
  PROVE  IInv'
<1>1. UNCHANGED <<backlog, edge, merged, failed, watched, open, conn, deleter, batch, cur, pc, counters>>
      /\ stale' = stale
  BY DEF PeerWrites, PeerEnds, objects
<1>2. ready' \subseteq watched
  BY DEF PeerWrites, PeerEnds, Notify, IInv, TypeOK
<1>3. StaleOnlyThroughOthers' /\ stale' \subseteq Threads \X Threads
  BY <1>1 DEF StaleOnlyThroughOthers
<1>4. inbox' \in [Clients -> Seq(Kinds)]
  <2>1. CASE inbox' = inbox
    BY <2>1 DEF IInv, TypeOK
  <2>2. ASSUME NEW kind \in Kinds, PeerWrites(c, kind)
        PROVE  inbox' \in [Clients -> Seq(Kinds)]
    <3>1. inbox \in [Clients -> Seq(Kinds)]
      BY DEF IInv, TypeOK
    <3>2. Append(inbox[c], kind) \in Seq(Kinds)
      BY <3>1
    <3> QED
      BY <2>2, <3>1, <3>2 DEF PeerWrites
  <2> QED
    BY <2>1, <2>2 DEF PeerEnds
<1>5. /\ ended' \in [Clients -> {"no", "fin", "rst"}]
      /\ \A d \in Clients : ended[d] # "no" => ended'[d] # "no"
  BY DEF PeerWrites, PeerEnds, IInv, TypeOK
<1> QED
  BY <1>1, <1>2, <1>3, <1>4, <1>5, OthersStay

(* The use of a connection that somebody else has deleted. *)
LEMMA UseDeletedHolds ==
  ASSUME IInv, stale = {}, NEW u \in Threads, NEW c \in Clients, UseDeleted(u, c)
  PROVE  IInv'
<1>1. UNCHANGED <<backlog, edge, merged, failed, watched, open, conn, deleter, batch, cur, pc, counters>>
      /\ ready' = ready /\ inbox' = inbox /\ ended' = ended
      /\ Uses(u, c) /\ conn[c] = "deleted" /\ stale' = {<<u, deleter[c]>>}
  BY DEF UseDeleted, kernel
<1>2. deleter[c] \in Threads
  BY DEF IInv, TypeOK
<1>3. /\ deleter[c] = Runway => /\ ended[c] # "no"
                                /\ \A i \in 1..Len(batch) : batch[i].of # c
                                /\ ~(pc[Runway] \in Using /\ cur = c)
      /\ deleter[c] # Runway => deleter[c] \in Handlers /\ pc[deleter[c]] = "done"
  BY <1>1 DEF IInv, DeletedInv
<1>4. u # Runway => Target(u) = c /\ pc[u] # "done"
  BY <1>1 DEF Uses
<1>5. u = Runway => deleter[c] # Runway
  <2> SUFFICES ASSUME u = Runway, deleter[c] = Runway PROVE FALSE
    OBVIOUS
  <2>1. CASE pc[Runway] = "next" /\ batch # <<>> /\ Head(batch).of = c
    <3>1. 1 \in 1..Len(batch) /\ Head(batch) = batch[1]
      BY <2>1 DEF IInv, TypeOK
    <3> QED
      BY <1>3, <2>1, <3>1
  <2>2. CASE pc[Runway] \in Using /\ cur = c
    BY <1>3, <2>2
  <2>3. pc[Runway] \in RunwayPlaces
    BY DEF IInv, PcInv
  <2> QED
    BY <1>1, <2>1, <2>2, <2>3, ThreadFacts DEF Uses, Using, RunwayPlaces
<1>6. u # deleter[c]
  BY <1>3, <1>4, <1>5
<1>7. deleter[c] = Runway => ended[Target(u)] # "no"
  BY <1>3, <1>4, <1>5
<1>8. StaleOnlyThroughOthers'
  <2>1. Target(u)' = Target(u)
    BY <1>1 DEF Target
  <2> SUFFICES ASSUME NEW use \in stale'
               PROVE  use[1] # use[2] /\ (use[2] = Runway => ended'[Target(use[1])'] # "no")
    BY DEF StaleOnlyThroughOthers
  <2>2. use = <<u, deleter[c]>>
    BY <1>1
  <2>3. use[1] = u /\ use[2] = deleter[c]
    BY <2>2
  <2>4. Target(use[1])' = Target(u)
    BY <1>1, <2>3 DEF Target
  <2> QED
    BY <1>1, <1>6, <1>7, <2>3, <2>4
<1>9. stale' \subseteq Threads \X Threads
  BY <1>1, <1>2
<1> QED
  BY <1>1, <1>8, <1>9, OthersStay DEF IInv, TypeOK

-----------------------------------------------------------------------------
(* The listening socket and its events. *)

(* A connection is established: nothing but the backlog changes. *)
LEMMA ArriveHolds ==
  ASSUME IInv, stale = {}, NEW c \in Clients, Arrive(c)
  PROVE  IInv'
<1>1. /\ conn[c] = "none" /\ backlog' = Append(backlog, c) /\ edge' = TRUE
      /\ \A i \in 1..Len(backlog) : backlog[i] # c
      /\ merged' = IF edge THEN merged + 1 ELSE merged
      /\ UNCHANGED <<failed, inbox, ended, watched, ready, open, batch, cur, pc>>
      /\ conn' = conn /\ deleter' = deleter /\ stale' = stale
      /\ opens' = opens /\ closes' = closes /\ errors' = errors /\ doubled' = doubled
  BY DEF Arrive, Waiting, objects, counters
<1>2. backlog \in Seq(Clients) /\ edge \in BOOLEAN /\ merged \in Nat /\ failed \in Nat
  BY DEF IInv, TypeOK
<1>3. /\ backlog' \in Seq(Clients) /\ Len(backlog') = Len(backlog) + 1 /\ Len(backlog) \in Nat
      /\ backlog'[Len(backlog) + 1] = c
      /\ \A i \in 1..Len(backlog) : backlog'[i] = backlog[i]
  BY <1>1, <1>2
<1>4. \A i \in 1..Len(backlog') : i \in 1..Len(backlog) \/ i = Len(backlog) + 1
  BY <1>3
<1>5. TypeOK'
  BY <1>1, <1>2, <1>3 DEF IInv, TypeOK
<1>6. PcInv' /\ BatchInv' /\ DeletedInv' /\ EndInv'
  BY <1>1 DEF IInv, PcInv, BatchInv, DeletedInv, EndInv
<1>7. ConnInv'
  <2>1. \A i \in 1..Len(backlog') : conn[backlog'[i]] = "none"
    BY <1>1, <1>3, <1>4 DEF IInv, ConnInv
  <2>2. ASSUME NEW i \in 1..Len(backlog'), NEW j \in 1..Len(backlog'), backlog'[i] = backlog'[j]
        PROVE  i = j
    BY <1>1, <1>3, <1>4, <2>2 DEF IInv, ConnInv
  <2> QED
    BY <1>1, <2>1, <2>2 DEF IInv, ConnInv, Target
<1>8. BacklogLaw'
  <2>1. PICK l \in Nat : l = One(Listening) /\ l = One(Listening)'
    <3>1. One(Listening) \in Nat
      BY DEF One
    <3>2. One(Listening)' = One(Listening)
      BY <1>1 DEF Listening, One
    <3> QED
      BY <3>1, <3>2
  <2>2. Len(backlog) = merged + failed + One(edge) + l
    BY <2>1 DEF IInv, BacklogLaw
  <2>3. One(edge') = 1 /\ merged' = merged + One(edge) /\ One(edge) \in Nat
    BY <1>1, <1>2 DEF One
  <2>4. PICK n \in Nat, m \in Nat, f \in Nat, e \in Nat :
              n = Len(backlog) /\ m = merged /\ f = failed /\ e = One(edge)
    BY <1>2, <1>3, <2>3
  <2>5. n = m + f + e + l
    BY <2>2, <2>4
  <2>6. n + 1 = (m + e) + f + 1 + l
    BY <2>5
  <2>7. Len(backlog') = n + 1 /\ merged' = m + e /\ failed' = f /\ One(edge') = 1
    BY <1>1, <1>3, <2>3, <2>4
  <2> QED
    BY <2>1, <2>6, <2>7 DEF BacklogLaw
<1>9. ActiveLaw'
  BY <1>1 DEF IInv, ActiveLaw
<1>10. StaleOnlyThroughOthers'
  BY <1>1, StaleStays DEF IInv
<1> QED
  BY <1>5, <1>6, <1>7, <1>8, <1>9, <1>10 DEF IInv

(* epoll_wait: what it returns is watched, and so is not deleted. *)
LEMMA WaitHolds ==
  ASSUME IInv, stale = {}, Wait
  PROVE  IInv'
<1> DEFINE n == Cardinality(Pending)
           Event == [of : Clients \cup {Listener}, in : BOOLEAN]
<1>1. PICK s \in Bijection(1..n, Pending) :
        batch' = [i \in 1..n |-> [of |-> s[i], in |-> s[i] \in Clients /\ Readable(s[i])]]
  BY DEF Wait
<1>2. /\ pc[Runway] = "next" /\ batch = <<>> /\ edge' = FALSE /\ ready' = {}
      /\ UNCHANGED <<backlog, merged, failed, inbox, ended, watched, open, cur, pc>>
      /\ conn' = conn /\ deleter' = deleter /\ stale' = stale
      /\ opens' = opens /\ closes' = closes /\ errors' = errors /\ doubled' = doubled
  BY DEF Wait, objects, counters
<1>3. /\ edge \in BOOLEAN /\ ready \subseteq watched /\ watched \subseteq Clients
  BY DEF IInv, TypeOK
<1>4. Pending \subseteq Clients \cup {Listener} /\ (Listener \in Pending <=> edge)
      /\ \A c \in Clients : c \in Pending => c \in ready
  BY <1>3, ThreadFacts DEF Pending
<1>5. n \in Nat
  <2>1. IsFiniteSet(Clients \cup {Listener})
    BY FS_AddElement, ThreadFacts
  <2> QED
    BY <1>4, <2>1, FS_Subset, FS_CardinalityType
<1>6. /\ \A i \in 1..n : s[i] \in Pending
      /\ \A i, j \in 1..n : s[i] = s[j] => i = j
      /\ \A x \in Pending : \E i \in 1..n : s[i] = x
  BY DEF Bijection, Injection, Surjection, IsInjective
<1> HIDE DEF n
<1>7. batch' \in Seq(Event) /\ Len(batch') = n /\ \A i \in 1..n : batch'[i].of = s[i]
  <2>1. \A i \in 1..n : [of |-> s[i], in |-> s[i] \in Clients /\ Readable(s[i])] \in Event
    BY <1>4, <1>6
  <2>2. \A i \in 1..n : batch'[i].of = s[i]
    BY <1>1
  <2> HIDE DEF Event
  <2>3. batch' \in [1..n -> Event]
    BY <1>1, <2>1
  <2>4. batch' \in Seq(Event) /\ Len(batch') = n
    BY <1>5, <2>3
  <2> QED
    BY <2>2, <2>4
<1>8. TypeOK'
  BY <1>2, <1>3, <1>7 DEF IInv, TypeOK
<1>9. PcInv' /\ ConnInv' /\ EndInv'
  BY <1>2 DEF IInv, PcInv, ConnInv, EndInv, Target
<1>10. \A c \in Clients : \A i \in 1..Len(batch') : batch'[i].of = c => conn[c] = "object"
  BY <1>3, <1>4, <1>6, <1>7 DEF IInv, ConnInv
<1>11. BatchInv'
  <2>1. pc[Runway] \notin Using
    BY <1>2 DEF Using
  <2>2. \A i \in 1..Len(batch') : batch'[i].of # Listener => conn[batch'[i].of] \in {"object", "deleted"}
    BY <1>4, <1>6, <1>7, <1>10
  <2>3. \A i, j \in 1..Len(batch') : batch'[i].of = batch'[j].of => i = j
    BY <1>6, <1>7
  <2> QED
    BY <1>2, <2>1, <2>2, <2>3 DEF BatchInv
<1>12. DeletedInv'
  <2>1. \A c \in Clients : conn[c] = "deleted" => \A i \in 1..Len(batch') : batch'[i].of # c
    BY <1>10
  <2> QED
    BY <1>2, <2>1 DEF IInv, DeletedInv
<1>13. BacklogLaw'
  <2>1. Len(backlog) = merged + failed + One(edge) + One(Listening)
    BY DEF IInv, BacklogLaw
  <2>2. Listening' <=> edge
    BY <1>4, <1>6, <1>7 DEF Listening
  <2>3. ~Listening
    BY <1>2 DEF Listening
  <2>4. One(edge') = 0 /\ One(Listening) = 0 /\ One(Listening') = One(edge) /\ One(edge) \in Nat
    BY <1>2, <1>3, <2>2, <2>3 DEF One
  <2>5. merged \in Nat /\ failed \in Nat
    BY DEF IInv, TypeOK
  <2> QED
    BY <1>2, <2>1, <2>4, <2>5 DEF BacklogLaw
<1>14. ActiveLaw'
  BY <1>2 DEF IInv, ActiveLaw
<1>15. StaleOnlyThroughOthers'
  BY <1>2, StaleStays DEF IInv
<1> QED
  BY <1>8, <1>9, <1>11, <1>12, <1>13, <1>14, <1>15 DEF IInv

(* The first event is taken out of the batch. *)
LEMMA Taken ==
  ASSUME TypeOK, BatchInv, batch # <<>>, batch' = Tail(batch)
  PROVE  /\ batch' \in Seq([of : Clients \cup {Listener}, in : BOOLEAN])
         /\ Head(batch).of \in Clients \cup {Listener} /\ \E i \in 1..Len(batch) : batch[i] = Head(batch)
         /\ \A i \in 1..Len(batch') : \E j \in 1..Len(batch) : batch'[i] = batch[j]
         /\ \A i \in 1..Len(batch') : batch'[i].of # Head(batch).of
         /\ \A i, j \in 1..Len(batch') : batch'[i].of = batch'[j].of => i = j
         /\ Head(batch).of = Listener => One(Listening) = 1 /\ One(Listening)' = 0
         /\ Head(batch).of # Listener => One(Listening)' = One(Listening)
<1> DEFINE Event == [of : Clients \cup {Listener}, in : BOOLEAN]
<1>1. batch \in Seq(Event)
  BY DEF TypeOK
<1>2. \A i \in 1..Len(batch) : batch[i].of \in Clients \cup {Listener}
  BY BatchTyped
<1> HIDE DEF Event
<1>3. /\ Len(batch) \in Nat /\ Len(batch) >= 1 /\ Head(batch) = batch[1]
      /\ batch' \in Seq(Event) /\ Len(batch') = Len(batch) - 1
      /\ \A i \in 1..Len(batch') : batch'[i] = batch[i + 1]
  BY <1>1
<1>4. /\ 1 \in 1..Len(batch)
      /\ \A i \in 1..Len(batch') : i \in Nat /\ i + 1 \in 1..Len(batch) /\ i + 1 # 1
      /\ \A j \in 1..Len(batch) : j = 1 \/ (j - 1 \in 1..Len(batch') /\ (j - 1) + 1 = j)
  BY <1>3
<1>5. \A i \in 1..Len(batch') : batch'[i].of # batch[1].of
  BY <1>3, <1>4 DEF BatchInv
<1>6. ASSUME NEW i \in 1..Len(batch'), NEW j \in 1..Len(batch'), batch'[i].of = batch'[j].of
      PROVE  i = j
  <2>1. i + 1 = j + 1
    BY <1>3, <1>4, <1>6 DEF BatchInv
  <2> QED
    BY <1>4, <2>1
<1>7. ASSUME batch[1].of = Listener
      PROVE  One(Listening) = 1 /\ One(Listening)' = 0
  BY <1>4, <1>5, <1>7 DEF One, Listening
<1>8. ASSUME batch[1].of # Listener
      PROVE  One(Listening)' = One(Listening)
  <2>1. Listening' => Listening
    BY <1>3, <1>4 DEF Listening
  <2>2. Listening => Listening'
    <3> SUFFICES ASSUME NEW j \in 1..Len(batch), batch[j].of = Listener PROVE Listening'
      BY DEF Listening
    <3>1. j - 1 \in 1..Len(batch') /\ (j - 1) + 1 = j
      BY <1>4, <1>8
    <3>2. batch'[j - 1] = batch[j]
      BY <1>3, <3>1
    <3> QED
      BY <3>1, <3>2 DEF Listening
  <2> QED
    BY <2>1, <2>2 DEF One
<1> QED
  BY <1>2, <1>3, <1>4, <1>5, <1>6, <1>7, <1>8 DEF Event

(* accept fails: the event is used up, and the connection stays behind. *)
LEMMA AcceptFailsHolds ==
  ASSUME IInv, stale = {}, AcceptFails
  PROVE  IInv'
<1>1. /\ pc[Runway] = "next" /\ batch # <<>> /\ Head(batch).of = Listener
      /\ failed' = failed + 1 /\ batch' = Tail(batch)
      /\ UNCHANGED <<backlog, edge, merged, inbox, ended, watched, ready, open, cur, pc>>
      /\ conn' = conn /\ deleter' = deleter /\ stale' = stale
      /\ opens' = opens /\ closes' = closes /\ errors' = errors /\ doubled' = doubled
  BY DEF AcceptFails, objects, counters
<1>2. TypeOK /\ BatchInv /\ failed \in Nat /\ merged \in Nat
  BY DEF IInv, TypeOK
<1>3. /\ batch' \in Seq([of : Clients \cup {Listener}, in : BOOLEAN])
      /\ \A i \in 1..Len(batch') : \E j \in 1..Len(batch) : batch'[i] = batch[j]
      /\ \A i, j \in 1..Len(batch') : batch'[i].of = batch'[j].of => i = j
      /\ One(Listening) = 1 /\ One(Listening)' = 0
  BY <1>1, <1>2, Taken
<1>4. TypeOK'
  BY <1>1, <1>2, <1>3 DEF TypeOK
<1>5. PcInv' /\ ConnInv' /\ EndInv'
  BY <1>1 DEF IInv, PcInv, ConnInv, EndInv, Target
<1>6. BatchInv'
  <2>1. pc[Runway] \notin Using
    BY <1>1 DEF Using
  <2>2. \A i \in 1..Len(batch') : batch'[i].of # Listener => conn[batch'[i].of] \in {"object", "deleted"}
    BY <1>3 DEF IInv, BatchInv
  <2> QED
    BY <1>1, <1>3, <2>1, <2>2 DEF BatchInv
<1>7. DeletedInv'
  <2>1. \A c \in Clients : (\A i \in 1..Len(batch) : batch[i].of # c) => \A i \in 1..Len(batch') : batch'[i].of # c
    BY <1>3
  <2> QED
    BY <1>1, <2>1 DEF IInv, DeletedInv
<1>8. BacklogLaw'
  <2>1. Len(backlog) = merged + failed + One(edge) + 1 /\ One(edge) \in Nat
    BY <1>3 DEF IInv, BacklogLaw, One
  <2>2. One(edge') = One(edge)
    BY <1>1
  <2>3. Len(backlog') = merged' + failed' + One(edge') + 0
    BY <1>1, <1>2, <2>1, <2>2
  <2> QED
    BY <1>3, <2>3 DEF BacklogLaw
<1>9. ActiveLaw'
  BY <1>1 DEF IInv, ActiveLaw
<1>10. StaleOnlyThroughOthers'
  BY <1>1, StaleStays DEF IInv
<1> QED
  BY <1>4, <1>5, <1>6, <1>7, <1>8, <1>9, <1>10 DEF IInv

(* acceptSocket: a descriptor, and no object yet. *)
LEMMA AcceptHolds ==
  ASSUME IInv, stale = {}, Accept
  PROVE  IInv'
<1>1. PICK c : c = Head(backlog)
  OBVIOUS
<1>2. /\ pc[Runway] = "next" /\ batch # <<>> /\ Head(batch).of = Listener /\ backlog # <<>>
      /\ cur' = c /\ conn' = [conn EXCEPT ![c] = "fd"] /\ open' = open \cup {c}
      /\ backlog' = Tail(backlog) /\ batch' = Tail(batch) /\ pc' = [pc EXCEPT ![Runway] = "new"]
      /\ UNCHANGED <<edge, merged, failed, inbox, ended, watched, ready>>
      /\ deleter' = deleter /\ stale' = stale
      /\ opens' = opens /\ closes' = closes /\ errors' = errors /\ doubled' = doubled
  BY <1>1 DEF Accept, counters
<1>3. TypeOK /\ BatchInv /\ failed \in Nat /\ merged \in Nat /\ backlog \in Seq(Clients)
  BY DEF IInv, TypeOK
<1>4. /\ batch' \in Seq([of : Clients \cup {Listener}, in : BOOLEAN])
      /\ \A i \in 1..Len(batch') : \E j \in 1..Len(batch) : batch'[i] = batch[j]
      /\ \A i, j \in 1..Len(batch') : batch'[i].of = batch'[j].of => i = j
      /\ One(Listening) = 1 /\ One(Listening)' = 0
  BY <1>2, <1>3, Taken
<1>5. /\ Len(backlog) \in Nat /\ Len(backlog) >= 1 /\ Len(backlog') = Len(backlog) - 1 /\ c = backlog[1]
      /\ backlog' \in Seq(Clients) /\ \A i \in 1..Len(backlog') : backlog'[i] = backlog[i + 1]
  BY <1>1, <1>2, <1>3
<1>6. 1 \in 1..Len(backlog) /\ \A i \in 1..Len(backlog') : i \in Nat /\ i + 1 \in 1..Len(backlog) /\ i + 1 # 1
  BY <1>5
<1>7. c \in Clients /\ conn[c] = "none" /\ c \notin open /\ c \notin watched
  BY <1>3, <1>5, <1>6 DEF IInv, ConnInv
<1>8. /\ conn'[c] = "fd" /\ \A d \in Clients : d # c => conn'[d] = conn[d]
      /\ conn' \in [Clients -> {"none", "fd", "object", "deleted"}]
  BY <1>2, <1>7 DEF IInv, TypeOK
<1>9. /\ pc'[Runway] = "new" /\ \A h \in Handlers : pc'[h] = pc[h]
      /\ pc' \in [Threads -> Places]
  BY <1>2, ThreadFacts DEF IInv, TypeOK, Places
<1>10. TypeOK'
  <2>1. open' \subseteq Clients /\ watched' \subseteq open' /\ ready' \subseteq watched' /\ cur' \in Clients
    BY <1>2, <1>7 DEF IInv, TypeOK
  <2> QED
    BY <1>2, <1>3, <1>4, <1>5, <1>8, <1>9, <2>1 DEF TypeOK
<1>11. PcInv'
  BY <1>9, ThreadFacts DEF IInv, PcInv, RunwayPlaces
<1>12. ConnInv'
  <2>1. \A i \in 1..Len(backlog') : backlog'[i] \in Clients /\ backlog'[i] # c /\ conn[backlog'[i]] = "none"
    BY <1>3, <1>5, <1>6 DEF IInv, ConnInv
  <2>2. ASSUME NEW i \in 1..Len(backlog'), NEW j \in 1..Len(backlog'), backlog'[i] = backlog'[j]
        PROVE  i = j
    <3>1. i + 1 = j + 1
      BY <1>5, <1>6, <2>2 DEF IInv, ConnInv
    <3> QED
      BY <1>6, <3>1
  <2>3. \A d \in Clients : /\ d \in open' => conn'[d] \in {"fd", "object"}
                           /\ d \in watched => conn'[d] = "object"
                           /\ conn'[d] = "fd" => d = c
    <3> TAKE d \in Clients
    <3>1. CASE d = c
      BY <1>7, <1>8, <3>1
    <3>2. CASE d # c
      <4>1. conn'[d] = conn[d] /\ (d \in open' => d \in open) /\ conn[d] # "fd"
        BY <1>2, <1>8, <3>2 DEF IInv, ConnInv
      <4> QED
        BY <4>1 DEF IInv, ConnInv
    <3> QED
      BY <3>1, <3>2
  <2>4. \A h \in Handlers : pc'[h] # "none" => conn'[h[1]] \in {"object", "deleted"}
    BY <1>7, <1>8, <1>9, ThreadFacts DEF IInv, ConnInv
  <2>5. \A v \in Threads : pc'[v] \in {"count", "delete"} => Target(v)' \notin open'
    <3> SUFFICES ASSUME NEW v \in Handlers, pc[v] \in {"count", "delete"} PROVE v[1] \notin open'
      BY <1>9, ThreadFacts DEF Target
    <3>1. v[1] \notin open /\ conn[v[1]] \in {"object", "deleted"}
      BY ThreadFacts DEF IInv, ConnInv
    <3> QED
      BY <1>2, <1>7, <3>1
  <2>6. \A i \in 1..Len(backlog') : conn'[backlog'[i]] = "none"
    BY <1>8, <2>1
  <2>7. cur' = c /\ c \in open' /\ watched' = watched
    BY <1>2
  <2> QED
    BY <1>8, <1>9, <2>2, <2>3, <2>4, <2>5, <2>6, <2>7 DEF ConnInv, Using
<1>13. \A i \in 1..Len(batch') : batch'[i].of # Listener =>
         batch'[i].of # c /\ conn'[batch'[i].of] \in {"object", "deleted"}
  <2> SUFFICES ASSUME NEW j \in 1..Len(batch), batch[j].of # Listener
               PROVE  batch[j].of # c /\ conn'[batch[j].of] \in {"object", "deleted"}
    BY <1>4
  <2>1. batch[j].of \in Clients /\ conn[batch[j].of] \in {"object", "deleted"}
    BY BatchTyped DEF IInv, BatchInv
  <2> QED
    BY <1>7, <1>8, <2>1
<1>14. BatchInv'
  <2>1. pc'[Runway] \notin Using
    BY <1>9 DEF Using
  <2> QED
    BY <1>4, <1>13, <2>1 DEF BatchInv
<1>15. DeletedInv'
  <2> SUFFICES ASSUME NEW d \in Clients, conn'[d] = "deleted"
               PROVE  /\ deleter[d] = Runway => /\ ended[d] # "no"
                                                /\ \A i \in 1..Len(batch') : batch'[i].of # d
                                                /\ ~(pc'[Runway] \in Using /\ cur' = d)
                      /\ deleter[d] # Runway => deleter[d] \in Handlers /\ pc'[deleter[d]] = "done"
    BY <1>2 DEF DeletedInv
  <2>1. conn[d] = "deleted"
    BY <1>8
  <2>2. pc'[Runway] \notin Using
    BY <1>9 DEF Using
  <2>3. (\A i \in 1..Len(batch) : batch[i].of # d) => \A i \in 1..Len(batch') : batch'[i].of # d
    BY <1>4
  <2> QED
    BY <1>9, <2>1, <2>2, <2>3 DEF IInv, DeletedInv
<1>16. EndInv'
  BY <1>9 DEF EndInv
<1>17. BacklogLaw'
  <2>1. Len(backlog) = merged + failed + One(edge) + 1 /\ One(edge) \in Nat
    BY <1>4 DEF IInv, BacklogLaw, One
  <2>2. One(edge') = One(edge)
    BY <1>2
  <2>3. Len(backlog') = merged' + failed' + One(edge') + 0
    BY <1>2, <1>3, <1>5, <2>1, <2>2
  <2> QED
    BY <1>4, <2>3 DEF BacklogLaw
<1>18. ActiveLaw'
  <2>1. PICK q : q = "new"
    OBVIOUS
  <2>2. TypeOK /\ pc' = [pc EXCEPT ![Runway] = q] /\ Runway \in Threads
    BY <1>2, <2>1, ThreadFacts DEF IInv
  <2>3. pc[Runway] \notin {"bound", "count"} /\ q \notin {"bound", "count"} /\ pc[Runway] # "new" /\ q = "new"
    BY <1>2, <2>1
  <2>4. Fresh' = Fresh + 1 /\ Lagging' = Lagging /\ Lagging \in Nat /\ Fresh \in Nat
    BY <2>2, <2>3, Lags
  <2>5. Cardinality(open') = Cardinality(open) + 1 /\ Cardinality(open) \in Nat
    BY <1>2, <1>7, <2>2, OpenFinite, FS_AddElement
  <2>6. opens - closes - errors + doubled = Cardinality(open) + Lagging - Fresh
    BY ActiveSays DEF IInv
  <2>7. /\ opens \in Nat /\ closes \in Nat /\ errors \in Nat /\ doubled \in Nat
    BY DEF IInv, TypeOK
  <2>8. opens' - closes' - errors' + doubled' = Cardinality(open') + Lagging' - Fresh'
    BY <1>2, <2>4, <2>5, <2>6, <2>7
  <2> QED
    BY <2>8 DEF ActiveLaw, Lagging, Fresh
<1>19. StaleOnlyThroughOthers'
  BY <1>2, StaleStays DEF IInv
<1> QED
  BY <1>10, <1>11, <1>12, <1>14, <1>15, <1>16, <1>17, <1>18, <1>19 DEF IInv

-----------------------------------------------------------------------------
(* A new connection, and what it receives. *)

LEMMA NewConnectionHolds ==
  ASSUME IInv, stale = {}, NewConnection
  PROVE  IInv'
<1>1. /\ pc[Runway] = "new" /\ pc' = [pc EXCEPT ![Runway] = "add"]
      /\ conn' = [conn EXCEPT ![cur] = "object"] /\ opens' = opens + 1
      /\ UNCHANGED <<backlog, edge, merged, failed, inbox, ended, watched, ready, open, batch, cur>>
      /\ deleter' = deleter /\ stale' = stale /\ closes' = closes /\ errors' = errors /\ doubled' = doubled
  BY DEF NewConnection, Goto, kernel
<1>2. cur \in Clients /\ conn[cur] = "fd" /\ cur \in open
  BY <1>1 DEF IInv, TypeOK, ConnInv
<1>3. /\ conn'[cur] = "object" /\ \A d \in Clients : d # cur => conn'[d] = conn[d]
      /\ conn' \in [Clients -> {"none", "fd", "object", "deleted"}]
  BY <1>1, <1>2 DEF IInv, TypeOK
<1>4. /\ pc'[Runway] = "add" /\ \A h \in Handlers : pc'[h] = pc[h]
      /\ pc' \in [Threads -> Places]
  BY <1>1, ThreadFacts DEF IInv, TypeOK, Places
<1>5. TypeOK'
  BY <1>1, <1>3, <1>4 DEF IInv, TypeOK
<1>6. PcInv'
  BY <1>1, <1>4, ThreadFacts DEF IInv, PcInv, RunwayPlaces
<1>7. \A i \in 1..MaxMsgs : pc[<<cur, i>>] = "none"
  <2> TAKE i \in 1..MaxMsgs
  <2>1. <<cur, i>> \in Handlers /\ <<cur, i>>[1] = cur
    BY <1>2, ThreadFacts
  <2> QED
    BY <1>2, <2>1 DEF IInv, ConnInv
<1>8. ConnInv'
  <2>1. \A i \in 1..Len(backlog) : backlog[i] \in Clients /\ conn[backlog[i]] = "none"
    BY DEF IInv, TypeOK, ConnInv
  <2>2. \A i \in 1..Len(backlog) : conn'[backlog[i]] = "none"
    BY <1>2, <1>3, <2>1
  <2>3. \A d \in Clients : /\ d \in open => conn'[d] \in {"fd", "object"}
                           /\ d \in watched => conn'[d] = "object"
                           /\ conn'[d] # "fd"
    <3> TAKE d \in Clients
    <3>1. CASE d = cur
      BY <1>3, <3>1
    <3>2. CASE d # cur
      BY <1>3, <3>2 DEF IInv, ConnInv
    <3> QED
      BY <3>1, <3>2
  <2>4. \A i \in 1..MaxMsgs : pc'[<<cur, i>>] = "none"
    BY <1>2, <1>4, <1>7, ThreadFacts
  <2>5. \A h \in Handlers : pc'[h] # "none" => conn'[h[1]] \in {"object", "deleted"}
    BY <1>3, <1>4, ThreadFacts DEF IInv, ConnInv
  <2>6. \A v \in Threads : pc'[v] \in {"count", "delete"} => Target(v)' \notin open
    BY <1>1, <1>4, ThreadFacts DEF IInv, ConnInv, Target
  <2> QED
    BY <1>1, <1>2, <1>3, <1>4, <2>2, <2>3, <2>4, <2>5, <2>6 DEF IInv, ConnInv, Using
<1>9. \A d \in Clients : conn'[d] = "deleted" <=> conn[d] = "deleted"
  BY <1>2, <1>3
<1>10. BatchInv'
  <2>1. pc'[Runway] \notin Using
    BY <1>4 DEF Using
  <2>2. \A i \in 1..Len(batch) : batch[i].of # Listener => conn'[batch[i].of] \in {"object", "deleted"}
    <3> TAKE i \in 1..Len(batch)
    <3> HAVE batch[i].of # Listener
    <3>1. batch[i].of \in Clients /\ conn[batch[i].of] \in {"object", "deleted"}
      BY BatchTyped DEF IInv, BatchInv
    <3> QED
      BY <1>3, <3>1
  <2> QED
    BY <1>1, <2>1, <2>2 DEF IInv, BatchInv
<1>11. DeletedInv'
  <2>1. pc'[Runway] \notin Using
    BY <1>4 DEF Using
  <2> QED
    BY <1>1, <1>4, <1>9, <2>1 DEF IInv, DeletedInv
<1>12. EndInv'
  BY <1>4 DEF EndInv
<1>13. ActiveLaw'
  <2>1. PICK q : q = "add"
    OBVIOUS
  <2>2. TypeOK /\ pc' = [pc EXCEPT ![Runway] = q] /\ Runway \in Threads
    BY <1>1, <2>1, ThreadFacts DEF IInv
  <2>3. pc[Runway] \notin {"bound", "count"} /\ q \notin {"bound", "count"} /\ pc[Runway] = "new" /\ q # "new"
    BY <1>1, <2>1
  <2>4. Fresh' = Fresh - 1 /\ Lagging' = Lagging /\ Lagging \in Nat /\ Fresh \in Nat
    BY <2>2, <2>3, Lags
  <2>5. opens - closes - errors + doubled = Cardinality(open) + Lagging - Fresh
    BY ActiveSays DEF IInv
  <2>6. opens \in Nat /\ closes \in Nat /\ errors \in Nat /\ doubled \in Nat /\ Cardinality(open) \in Nat
    BY OpenFinite DEF IInv, TypeOK
  <2>7. /\ opens' = opens + 1 /\ closes' = closes /\ errors' = errors /\ doubled' = doubled
        /\ Cardinality(open') = Cardinality(open)
    BY <1>1
  <2>8. opens' - closes' - errors' + doubled' = Cardinality(open') + Lagging' - Fresh'
    BY <2>4, <2>5, <2>6, <2>7
  <2> QED
    BY <2>8 DEF ActiveLaw, Lagging, Fresh
<1>14. BacklogLaw' /\ StaleOnlyThroughOthers'
  BY <1>1, BacklogStays, StaleStays DEF IInv
<1> QED
  BY <1>5, <1>6, <1>8, <1>10, <1>11, <1>12, <1>13, <1>14 DEF IInv

LEMMA AddHolds ==
  ASSUME IInv, stale = {}, Add
  PROVE  IInv'
<1>1. /\ pc[Runway] = "add" /\ pc' = [pc EXCEPT ![Runway] = "next"]
      /\ watched' = watched \cup {cur} /\ ready' = ready \cup {cur}
      /\ UNCHANGED <<backlog, edge, merged, failed, inbox, ended, open, batch, cur>>
      /\ conn' = conn /\ deleter' = deleter /\ stale' = stale
      /\ opens' = opens /\ closes' = closes /\ errors' = errors /\ doubled' = doubled
  BY DEF Add, Goto, objects, counters
<1>2. cur \in Clients /\ conn[cur] = "object" /\ cur \in open
  BY <1>1 DEF IInv, TypeOK, ConnInv
<1>3. /\ pc'[Runway] = "next" /\ \A h \in Handlers : pc'[h] = pc[h]
      /\ pc' \in [Threads -> Places]
  BY <1>1, ThreadFacts DEF IInv, TypeOK, Places
<1>4. pc'[Runway] \notin Using
  BY <1>3 DEF Using
<1>5. TypeOK'
  <2>1. watched' \subseteq open' /\ ready' \subseteq watched'
    BY <1>1, <1>2 DEF IInv, TypeOK
  <2> QED
    BY <1>1, <1>3, <2>1 DEF IInv, TypeOK
<1>6. PcInv'
  BY <1>1, <1>3, ThreadFacts DEF IInv, PcInv, RunwayPlaces
<1>7. ConnInv'
  <2>1. \A d \in Clients : /\ d \in watched' => conn[d] = "object"
                           /\ conn[d] # "fd"
    BY <1>1, <1>2 DEF IInv, ConnInv
  <2>2. \A v \in Threads : pc'[v] \in {"count", "delete"} => Target(v)' \notin open
    BY <1>1, <1>3, ThreadFacts DEF IInv, ConnInv, Target
  <2> QED
    BY <1>1, <1>3, <1>4, <2>1, <2>2 DEF IInv, ConnInv
<1>8. BatchInv'
  BY <1>1, <1>4 DEF IInv, BatchInv
<1>9. DeletedInv'
  BY <1>1, <1>3, <1>4 DEF IInv, DeletedInv
<1>10. EndInv'
  BY <1>3 DEF EndInv
<1>11. ActiveLaw'
  BY <1>1, ActiveStays, ThreadFacts DEF IInv
<1>12. BacklogLaw' /\ StaleOnlyThroughOthers'
  BY <1>1, BacklogStays, StaleStays DEF IInv
<1> QED
  BY <1>5, <1>6, <1>7, <1>8, <1>9, <1>10, <1>11, <1>12 DEF IInv

(* The event of a connection that is still there. *)
LEMMA DispatchHolds ==
  ASSUME IInv, stale = {}, Dispatch
  PROVE  IInv'
<1>1. PICK c, q : c = Head(batch).of /\ q = IF Head(batch).in THEN "recv" ELSE "send"
  OBVIOUS
<1>2. /\ pc[Runway] = "next" /\ batch # <<>> /\ c # Listener /\ conn[c] = "object"
      /\ cur' = c /\ batch' = Tail(batch) /\ pc' = [pc EXCEPT ![Runway] = q]
      /\ UNCHANGED <<backlog, edge, merged, failed, inbox, ended, watched, ready, open>>
      /\ conn' = conn /\ deleter' = deleter /\ stale' = stale
      /\ opens' = opens /\ closes' = closes /\ errors' = errors /\ doubled' = doubled
  BY <1>1 DEF Dispatch, kernel, objects, counters
<1>3. q \in {"recv", "send"}
  BY <1>1
<1>4. TypeOK /\ BatchInv
  BY DEF IInv
<1>5. /\ batch' \in Seq([of : Clients \cup {Listener}, in : BOOLEAN])
      /\ c \in Clients
      /\ \A i \in 1..Len(batch') : \E j \in 1..Len(batch) : batch'[i] = batch[j]
      /\ \A i \in 1..Len(batch') : batch'[i].of # c
      /\ \A i, j \in 1..Len(batch') : batch'[i].of = batch'[j].of => i = j
      /\ One(Listening)' = One(Listening)
  BY <1>1, <1>2, <1>4, Taken
<1>6. /\ pc'[Runway] = q /\ \A h \in Handlers : pc'[h] = pc[h]
      /\ pc' \in [Threads -> Places]
  BY <1>2, <1>3, ThreadFacts DEF IInv, TypeOK, Places
<1>7. TypeOK'
  BY <1>2, <1>4, <1>5, <1>6 DEF TypeOK
<1>8. PcInv'
  BY <1>2, <1>3, <1>6, ThreadFacts DEF IInv, PcInv, RunwayPlaces
<1>9. ConnInv'
  <2>1. \A d \in Clients : conn[d] # "fd"
    BY <1>2 DEF IInv, ConnInv
  <2>2. \A v \in Threads : pc'[v] \in {"count", "delete"} => Target(v)' \notin open
    <3> SUFFICES ASSUME NEW v \in Handlers, pc[v] \in {"count", "delete"} PROVE v[1] \notin open
      BY <1>3, <1>6, ThreadFacts DEF Target
    <3> QED
      BY ThreadFacts DEF IInv, ConnInv
  <2> QED
    BY <1>2, <1>3, <1>6, <2>1, <2>2 DEF IInv, ConnInv
<1>10. BatchInv'
  <2>1. \A i \in 1..Len(batch') : batch'[i].of # Listener => conn[batch'[i].of] \in {"object", "deleted"}
    BY <1>4, <1>5 DEF BatchInv
  <2> QED
    BY <1>2, <1>5, <2>1 DEF BatchInv
<1>11. DeletedInv'
  <2> SUFFICES ASSUME NEW d \in Clients, conn[d] = "deleted"
               PROVE  /\ deleter[d] = Runway => /\ ended[d] # "no"
                                                /\ \A i \in 1..Len(batch') : batch'[i].of # d
                                                /\ cur' # d
                      /\ deleter[d] # Runway => deleter[d] \in Handlers /\ pc'[deleter[d]] = "done"
    BY <1>2 DEF DeletedInv
  <2>1. (\A i \in 1..Len(batch) : batch[i].of # d) => \A i \in 1..Len(batch') : batch'[i].of # d
    BY <1>5
  <2>2. cur' # d
    BY <1>2
  <2> QED
    BY <1>6, <2>1, <2>2 DEF IInv, DeletedInv
<1>12. EndInv'
  BY <1>3, <1>6 DEF EndInv
<1>13. ActiveLaw'
  <2>1. q \notin {"bound", "count", "new"} /\ pc[Runway] \notin {"bound", "count", "new"}
    BY <1>2, <1>3
  <2> QED
    BY <1>2, <2>1, ActiveStays, ThreadFacts DEF IInv
<1>14. BacklogLaw'
  BY <1>2, <1>5 DEF IInv, BacklogLaw
<1>15. StaleOnlyThroughOthers'
  BY <1>2, StaleStays DEF IInv
<1> QED
  BY <1>7, <1>8, <1>9, <1>10, <1>11, <1>12, <1>13, <1>14, <1>15 DEF IInv

(* A message gets a thread of its own, the next of its connection. *)
LEMMA RecvMessageHolds ==
  ASSUME IInv, stale = {}, RecvMessage
  PROVE  IInv'
<1>1. PICK k \in 0..MaxMsgs : \A i \in 1..MaxMsgs : pc[<<cur, i>>] # "none" <=> i <= k
  BY DEF IInv, PcInv, TypeOK
<1>2. PICK kind : kind = Head(inbox[cur])
  OBVIOUS
<1>3. PICK n : n = <<cur, k + 1>>
  OBVIOUS
<1>4. cur \in Clients /\ Handled(cur) = k /\ k \in Nat /\ MaxMsgs \in Nat
  BY <1>1, HandledCounts, ThreadFacts DEF IInv, TypeOK
<1>5. /\ pc[Runway] = "recv" /\ conn[cur] = "object" /\ inbox[cur] # <<>>
      /\ inbox' = [inbox EXCEPT ![cur] = Tail(inbox[cur])]
      /\ pc' = [pc EXCEPT ![Runway] = "mod_in", ![n] = kind]
      /\ UNCHANGED <<backlog, edge, merged, failed, ended, watched, ready, open, batch, cur>>
      /\ conn' = conn /\ deleter' = deleter /\ stale' = stale
      /\ opens' = opens /\ closes' = closes /\ errors' = errors /\ doubled' = doubled
  BY <1>2, <1>3, <1>4, ThreadFacts DEF RecvMessage, At, objects, counters
<1>6. inbox \in [Clients -> Seq(Kinds)]
  BY DEF IInv, TypeOK
<1>7. kind \in Kinds /\ inbox' \in [Clients -> Seq(Kinds)]
  <2>1. inbox[cur] \in Seq(Kinds)
    BY <1>4, <1>6
  <2>2. Head(inbox[cur]) \in Kinds /\ Tail(inbox[cur]) \in Seq(Kinds)
    BY <1>5, <2>1
  <2> QED
    BY <1>2, <1>5, <1>6, <2>2
<1>8. n # Runway
  BY <1>3, <1>4, ThreadFacts DEF Runway
<1>9. \A v \in Threads : pc'[v] = IF v = Runway THEN "mod_in" ELSE IF v = n THEN kind ELSE pc[v]
  BY <1>5, <1>8 DEF IInv, TypeOK
<1>10. n \in Threads => n \in Handlers /\ k + 1 \in 1..MaxMsgs /\ pc[n] = "none"
  <2> SUFFICES ASSUME n \in Threads PROVE n \in Handlers /\ k + 1 \in 1..MaxMsgs /\ pc[n] = "none"
    OBVIOUS
  <2>1. n \in Handlers
    BY <1>8, ThreadFacts
  <2>2. n[2] \in 1..MaxMsgs /\ n[2] = k + 1
    BY <1>3, <2>1, ThreadFacts
  <2>3. ~(k + 1 <= k)
    BY <1>4
  <2> QED
    BY <1>1, <1>3, <2>1, <2>2, <2>3
<1>11. kind \in {"routed", "unrouted"}
  BY <1>7 DEF Kinds
<1>12. pc' \in [Threads -> Places]
  <2>1. pc \in [Threads -> Places] /\ kind \in Places /\ "mod_in" \in Places
    BY <1>11 DEF IInv, TypeOK, Places
  <2> QED
    BY <1>5, <2>1
<1>13. TypeOK'
  BY <1>5, <1>7, <1>12 DEF IInv, TypeOK
<1>14. /\ pc'[Runway] = "mod_in"
       /\ \A h \in Handlers : pc'[h] = IF h = n THEN kind ELSE pc[h]
  BY <1>9, ThreadFacts
<1>15. PcInv'
  <2>1. \A h \in Handlers : pc'[h] \in HandlerPlaces
    BY <1>11, <1>14 DEF IInv, PcInv, HandlerPlaces
  <2>2. ASSUME NEW c \in Clients
        PROVE  \E m \in 0..MaxMsgs : \A i \in 1..MaxMsgs : pc'[<<c, i>>] # "none" <=> i <= m
    <3>1. CASE n \in Threads /\ c = cur
      <4>1. k + 1 \in 0..MaxMsgs
        BY <1>4, <1>10, <3>1
      <4>2. ASSUME NEW i \in 1..MaxMsgs
            PROVE  pc'[<<c, i>>] # "none" <=> i <= k + 1
        <5>1. <<c, i>> \in Handlers
          BY ThreadFacts
        <5>2. CASE i = k + 1
          BY <1>3, <1>4, <1>11, <1>14, <3>1, <5>1, <5>2
        <5>3. CASE i # k + 1
          <6>1. pc'[<<c, i>>] = pc[<<c, i>>]
            BY <1>3, <1>14, <5>1, <5>3
          <6>2. i <= k <=> i <= k + 1
            BY <1>4, <5>3
          <6> QED
            BY <1>1, <3>1, <6>1, <6>2
        <5> QED
          BY <5>2, <5>3
      <4> QED
        BY <4>1, <4>2
    <3>2. CASE ~(n \in Threads /\ c = cur)
      <4>1. \A i \in 1..MaxMsgs : pc'[<<c, i>>] = pc[<<c, i>>]
        <5> TAKE i \in 1..MaxMsgs
        <5>1. <<c, i>> \in Handlers /\ <<c, i>> \in Threads
          BY ThreadFacts
        <5>2. <<c, i>> # n
          BY <1>3, <3>2, <5>1
        <5> QED
          BY <1>14, <5>1, <5>2
      <4> QED
        BY <4>1 DEF IInv, PcInv
    <3> QED
      BY <3>1, <3>2
  <2>3. pc'[Runway] \in RunwayPlaces /\ pc'[Runway] # "bound"
    BY <1>14 DEF RunwayPlaces
  <2> QED
    BY <2>1, <2>2, <2>3 DEF PcInv
<1>16. \A v \in Threads : pc'[v] = pc[v] \/ (pc'[v] \in {"mod_in", "routed", "unrouted"} /\ pc[v] \in {"recv", "none"})
  <2> TAKE v \in Threads
  <2>1. CASE v = Runway
    BY <1>5, <1>14, <2>1
  <2>2. CASE v = n /\ v # Runway
    BY <1>9, <1>10, <1>11, <2>2
  <2>3. CASE v # Runway /\ v # n
    BY <1>9, <2>3
  <2> QED
    BY <2>1, <2>2, <2>3
<1>17. \A v \in Threads : /\ pc'[v] \in {"bound", "count"} <=> pc[v] \in {"bound", "count"}
                          /\ pc'[v] \in {"count", "delete"} <=> pc[v] \in {"count", "delete"}
                          /\ pc'[v] = "new" <=> pc[v] = "new"
  <2> TAKE v \in Threads
  <2>1. CASE pc'[v] = pc[v]
    BY <2>1
  <2>2. CASE pc'[v] \in {"mod_in", "routed", "unrouted"} /\ pc[v] \in {"recv", "none"}
    BY <2>2
  <2> QED
    BY <1>16, <2>1, <2>2
<1>18. pc[Runway] \in Using /\ pc'[Runway] \in Using /\ pc'[Runway] \notin {"new", "add"}
  BY <1>5, <1>14 DEF Using
<1>19. ConnInv'
  <2>1. \A d \in Clients : conn[d] # "fd"
    BY <1>5 DEF IInv, ConnInv
  <2>2. \A h \in Handlers : pc'[h] # "none" => conn[h[1]] \in {"object", "deleted"}
    <3> TAKE h \in Handlers
    <3>1. CASE h = n
      BY <1>3, <1>5, <3>1
    <3>2. CASE h # n
      BY <1>14, <3>2 DEF IInv, ConnInv
    <3> QED
      BY <3>1, <3>2
  <2>3. ASSUME NEW v \in Threads, pc'[v] \in {"count", "delete"}
        PROVE  Target(v)' \notin open
    <3>1. pc[v] \in {"count", "delete"}
      BY <1>17, <2>3
    <3>2. Target(v)' = Target(v)
      BY <1>5 DEF Target
    <3> QED
      BY <3>1, <3>2 DEF IInv, ConnInv
  <2>4. /\ conn' = conn /\ open' = open /\ watched' = watched /\ backlog' = backlog /\ cur' = cur
        /\ conn[cur] = "object" /\ pc'[Runway] = "mod_in"
    BY <1>5, <1>14
  <2>5. \A c \in Clients : /\ c \in open' => conn'[c] \in {"fd", "object"}
                           /\ c \in watched' => conn'[c] = "object"
                           /\ conn'[c] = "fd" => pc'[Runway] = "new" /\ cur' = c
    BY <2>1, <2>4 DEF IInv, ConnInv
  <2>6. /\ \A i \in 1..Len(backlog') : conn'[backlog'[i]] = "none"
        /\ \A i, j \in 1..Len(backlog') : backlog'[i] = backlog'[j] => i = j
    BY <2>4 DEF IInv, ConnInv
  <2>7. /\ pc'[Runway] # "new" /\ pc'[Runway] # "add"
        /\ conn'[cur'] \in {"object", "deleted"}
    BY <2>4
  <2>8. \A h \in Handlers : pc'[h] # "none" => conn'[h[1]] \in {"object", "deleted"}
    BY <2>2, <2>4
  <2> QED
    BY <2>3, <2>4, <2>5, <2>6, <2>7, <2>8 DEF ConnInv
<1>20. BatchInv'
  BY <1>5, <1>18 DEF IInv, BatchInv
<1>21. DeletedInv'
  <2>1. \A h \in Handlers : pc[h] = "done" => pc'[h] = "done"
    BY <1>10, <1>14, ThreadFacts
  <2> QED
    BY <1>5, <1>18, <2>1 DEF IInv, DeletedInv
<1>22. EndInv'
  BY <1>14 DEF EndInv
<1>23. ActiveLaw'
  <2>1. {v \in Threads : pc'[v] \in {"bound", "count"}} = {v \in Threads : pc[v] \in {"bound", "count"}}
    BY <1>17
  <2>2. {v \in Threads : pc'[v] = "new"} = {v \in Threads : pc[v] = "new"}
    BY <1>17
  <2>3. Lagging' = Lagging /\ Fresh' = Fresh
    BY <2>1, <2>2 DEF Lagging, Fresh
  <2>4. opens - closes - errors + doubled = Cardinality(open) + Lagging - Fresh
    BY ActiveSays DEF IInv
  <2>5. opens' - closes' - errors' + doubled' = Cardinality(open') + Lagging' - Fresh'
    BY <1>5, <2>3, <2>4
  <2> QED
    BY <2>5 DEF ActiveLaw, Lagging, Fresh
<1>24. BacklogLaw' /\ StaleOnlyThroughOthers'
  BY <1>5, BacklogStays, StaleStays DEF IInv
<1> QED
  BY <1>13, <1>15, <1>19, <1>20, <1>21, <1>22, <1>23, <1>24 DEF IInv

-----------------------------------------------------------------------------
LEMMA InitHolds == Init => IInv
<1> SUFFICES ASSUME Init PROVE IInv
  OBVIOUS
<1>1. /\ backlog = <<>> /\ edge = FALSE /\ merged = 0 /\ failed = 0
      /\ inbox = [c \in Clients |-> <<>>] /\ ended = [c \in Clients |-> "no"]
      /\ watched = {} /\ ready = {} /\ open = {} /\ conn = [c \in Clients |-> "none"]
      /\ batch = <<>> /\ cur \in Clients
      /\ pc = [u \in Threads |-> IF u = Runway THEN "boot" ELSE "none"]
      /\ deleter = [c \in Clients |-> Runway] /\ stale = {}
      /\ opens = 0 /\ closes = 0 /\ errors = 0 /\ doubled = 0
  BY DEF Init
<1>2. pc[Runway] = "boot" /\ \A h \in Handlers : pc[h] = "none"
  BY <1>1, ThreadFacts
<1>3. <<>> \in Seq(Clients) /\ <<>> \in Seq([of : Clients \cup {Listener}, in : BOOLEAN]) /\ <<>> \in Seq(Kinds)
  OBVIOUS
<1>4. TypeOK
  BY <1>1, <1>3, ThreadFacts DEF TypeOK, Places
<1>5. PcInv
  <2>1. ASSUME NEW c \in Clients, NEW i \in 1..MaxMsgs
        PROVE  pc[<<c, i>>] # "none" <=> i <= 0
    <3>1. <<c, i>> \in Handlers /\ ~(i <= 0)
      BY ThreadFacts
    <3> QED
      BY <1>2, <3>1
  <2>2. 0 \in 0..MaxMsgs
    BY ThreadFacts
  <2> QED
    BY <1>2, <2>1, <2>2 DEF PcInv, RunwayPlaces, HandlerPlaces
<1>6. \A u \in Threads : pc[u] \in {"boot", "none"}
  BY <1>1
<1>7. ConnInv
  BY <1>1, <1>2, <1>6, ThreadFacts DEF ConnInv, Using
<1>8. BatchInv /\ DeletedInv /\ EndInv
  BY <1>1, <1>2 DEF BatchInv, DeletedInv, EndInv, Using
<1>9. BacklogLaw
  BY <1>1 DEF BacklogLaw, Listening, One
<1>10. ActiveLaw
  <2>1. {u \in Threads : pc[u] \in {"bound", "count"}} = {} /\ {u \in Threads : pc[u] = "new"} = {}
    BY <1>6
  <2>2. /\ Cardinality({}) = 0 /\ Cardinality(open) = 0
        /\ Cardinality({u \in Threads : pc[u] \in {"bound", "count"}}) = 0
        /\ Cardinality({u \in Threads : pc[u] = "new"}) = 0
    BY <1>1, <2>1, FS_EmptySet
  <2> QED
    BY <1>1, <2>2 DEF ActiveLaw
<1>11. StaleOnlyThroughOthers
  BY <1>1 DEF StaleOnlyThroughOthers
<1> QED
  BY <1>4, <1>5, <1>7, <1>8, <1>9, <1>10, <1>11 DEF IInv

LEMMA StepHolds == IInv /\ [Next]_vars => IInv'
<1> SUFFICES ASSUME IInv, [Next]_vars PROVE IInv'
  OBVIOUS
<1>1. CASE UNCHANGED vars
  BY <1>1, NothingHolds
<1>2. CASE stale = {} /\ RunwayStep
  <2>1. CASE BootSocket \/ BootUncount
    BY <1>2, <2>1, BootHolds
  <2>2. CASE BootListen \/ BootFails \/ RecvNothing \/ RecvEnd \/ EpollModIn \/ Send(Runway)
    BY <1>2, <2>2, OnwardHolds
  <2>3. CASE Wait
    BY <1>2, <2>3, WaitHolds
  <2>4. CASE Accept
    BY <1>2, <2>4, AcceptHolds
  <2>5. CASE AcceptFails
    BY <1>2, <2>5, AcceptFailsHolds
  <2>6. CASE NewConnection
    BY <1>2, <2>6, NewConnectionHolds
  <2>7. CASE Add
    BY <1>2, <2>7, AddHolds
  <2>8. CASE Dispatch
    BY <1>2, <2>8, DispatchHolds
  <2>9. CASE RecvMessage
    BY <1>2, <2>9, RecvMessageHolds
  <2>10. CASE Closing(Runway)
    BY <1>2, <2>10, CloseFdHolds, CountCloseHolds, DeleteHolds, ThreadFacts DEF Closing
  <2>11. CASE \E c \in Clients : UseDeleted(Runway, c)
    BY <1>2, <2>11, UseDeletedHolds, ThreadFacts
  <2> QED
    BY <1>2, <2>1, <2>2, <2>3, <2>4, <2>5, <2>6, <2>7, <2>8, <2>9, <2>10, <2>11 DEF RunwayStep
<1>3. ASSUME stale = {}, NEW h \in Handlers, HandlerStep(h)
      PROVE  IInv'
  <2>1. CASE Route(h) \/ Push(h) \/ Send(h)
    BY <1>3, <2>1, OnwardHolds
  <2>2. CASE Closing(h)
    BY <1>3, <2>2, CloseFdHolds, CountCloseHolds, DeleteHolds, ThreadFacts DEF Closing
  <2>3. CASE \E c \in Clients : UseDeleted(h, c)
    BY <1>3, <2>3, UseDeletedHolds, ThreadFacts
  <2> QED
    BY <1>3, <2>1, <2>2, <2>3 DEF HandlerStep
<1>4. ASSUME stale = {}, NEW c \in Clients, Peer(c)
      PROVE  IInv'
  BY <1>4, ArriveHolds, PeerHolds DEF Peer, Kinds
<1> QED
  BY <1>1, <1>2, <1>3, <1>4 DEF Next

LEMMA Invariance == Spec => []IInv
<1>1. Init => IInv
  BY InitHolds
<1>2. IInv /\ [Next]_vars => IInv'
  BY StepHolds
<1> QED
  BY <1>1, <1>2, PTL DEF Spec

-----------------------------------------------------------------------------
(* The epoll only watches open descriptors, and the counters never go      *)
(* below zero in their parts.                                              *)
THEOREM TypeCorrect == Spec => []TypeOK
<1>1. IInv => TypeOK
  BY DEF IInv
<1> QED
  BY <1>1, Invariance, PTL

(* What is left in the backlog is what arrived while an event was pending, *)
(* and what an accept failed for.                                          *)
THEOREM BacklogAccounted == Spec => []BacklogLaw
<1>1. IInv => BacklogLaw
  BY DEF IInv
<1> QED
  BY <1>1, Invariance, PTL

(* The number of active connections of Qps is right but for steps on the   *)
(* way, and for each close that came second.                               *)
THEOREM ActiveAccounted == Spec => []ActiveLaw
<1>1. IInv => ActiveLaw
  BY DEF IInv
<1> QED
  BY <1>1, Invariance, PTL

(* However many connections and messages there are: a thread finds a       *)
(* connection deleted only by another one, and by the runway only after    *)
(* the peer has ended the stream.                                          *)
THEOREM OnlyOthersDelete == Spec => []StaleOnlyThroughOthers
<1>1. IInv => StaleOnlyThroughOthers
  BY DEF IInv
<1> QED
  BY <1>1, Invariance, PTL
=============================================================================

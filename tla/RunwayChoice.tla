---------------------------- MODULE RunwayChoice ----------------------------
(***************************************************************************)
(* Which runway a client connection goes to (leopard/src Leopard.cpp,      *)
(* LaneClient.cpp, ClientConnection.cpp, Socket.cpp).  Leopard::create     *)
(* asks min_element for the runway of the smallest size, but the           *)
(* comparison it passes returns x->size() - y->size() as a truth value:    *)
(* "different" instead of "less".  A runway's size is the counter          *)
(* Qps::opens, which never decreases.  Client threads (Kafka consumers,    *)
(* handlers) call create at the same time; nothing is locked.              *)
(***************************************************************************)
EXTENDS Integers, Sequences, FiniteSets

CONSTANTS
  Creators,     (* threads that make LaneClients                           *)
  MaxRunways,   (* bound: the argument of Leopard::start                   *)
  Lanes,        (* connections per LaneClient                              *)
  MaxOpens      (* bound: sockets created                                  *)

ASSUME ChoiceAssumption ==
  /\ IsFiniteSet(Creators)
  /\ MaxRunways \in Nat /\ Lanes \in Nat \ {0} /\ MaxOpens \in Nat

VARIABLES
  parallel,     (* runways.size(); none until start                        *)
  opens,        (* Qps::opens of each runway                               *)
  closes,       (* Qps::closes of each runway                              *)
  pc,           (* where each creator is                                   *)
  it, best,     (* min_element's iterator and smallest so far              *)
  held,         (* LaneClient::connections: the runway of each             *)
  lost,         (* per runway, sockets whose object was dropped unclosed   *)
  disturbed,    (* history: scans during which another socket was counted  *)
  raced         (* history: creators that used a disturbed scan            *)

vars == <<parallel, opens, closes, pc, it, best, held, lost, disturbed, raced>>

Runways == 1..MaxRunways
Started == 1..parallel

Goto(t, from, to) == pc[t] = from /\ pc' = [pc EXCEPT ![t] = to]
Scanning(t) == pc[t] = "scan"
-----------------------------------------------------------------------------
(* Mutation: the loop of start runs once too often. *)
StartOneMore(n) ==
  /\ parallel = 0
  /\ parallel' = n + 1
  /\ UNCHANGED <<opens, closes, pc, it, best, held, lost, disturbed, raced>>

(* Leopard::start: the loop runs to the argument, even when it is not      *)
(* positive and the member has been set to the number of processors.       *)
Start(n) ==
  /\ parallel = 0
  /\ parallel' = n
  /\ UNCHANGED <<opens, closes, pc, it, best, held, lost, disturbed, raced>>

(* Leopard::create enters min_element.  Without runways it throws: the     *)
(* LaneClient is gone, and nothing has changed.                            *)
Begin(t) ==
  /\ parallel > 0
  /\ Len(held[t]) < Lanes
  /\ Goto(t, "idle", "scan")
  /\ best' = [best EXCEPT ![t] = 1]
  /\ it' = [it EXCEPT ![t] = 2]
  /\ disturbed' = disturbed \ {t}
  /\ UNCHANGED <<parallel, opens, closes, held, lost, raced>>

(* Mutation: the comparison is x->size() <= y->size(). *)
LessOrEqual(x, y) == opens[x] <= opens[y]
(* Mutation: the comparison is the other way round. *)
Greater(x, y) == opens[x] > opens[y]

(* The comparison: a difference of unsigned sizes, true unless it is zero. *)
Less(x, y) == opens[x] # opens[y]

(* One turn of min_element's loop. *)
Compare(t) ==
  /\ Scanning(t) /\ it[t] \in Started
  /\ best' = [best EXCEPT ![t] = IF Less(it[t], best[t]) THEN it[t] ELSE best[t]]
  /\ it' = [it EXCEPT ![t] = it[t] + 1]
  /\ UNCHANGED <<parallel, opens, closes, pc, held, lost, disturbed, raced>>

(* new ClientConnection: the constructor of Socket counts it. *)
Socket(t) ==
  /\ it[t] \notin Started
  /\ Goto(t, "scan", "connect")
  /\ opens' = [opens EXCEPT ![best[t]] = opens[best[t]] + 1]
  /\ disturbed' = disturbed \cup {u \in Creators \ {t} : Scanning(u)}
  /\ raced' = raced \cup (disturbed \cap {t})
  /\ UNCHANGED <<parallel, closes, it, best, held, lost>>

(* ::connect succeeds; Runway::create adds the socket to the epoll, and    *)
(* LaneClient::create goes on to the next connection.                      *)
Connected(t) ==
  /\ Goto(t, "connect", "idle")
  /\ held' = [held EXCEPT ![t] = Append(held[t], best[t])]
  /\ UNCHANGED <<parallel, opens, closes, it, best, lost, disturbed, raced>>

(* ::socket or ::connect throws through Leopard::create; unwinding         *)
(* LaneClient::create closes the connections made so far.  The new one is  *)
(* in no list: a socket that failed to connect stays open.                 *)
SocketFails(t) ==
  /\ it[t] \notin Started
  /\ Goto(t, "scan", "close")
  /\ UNCHANGED <<parallel, opens, closes, it, best, held, lost, disturbed, raced>>

ConnectFails(t) ==
  /\ Goto(t, "connect", "close")
  /\ lost' = [lost EXCEPT ![best[t]] = lost[best[t]] + 1]
  /\ UNCHANGED <<parallel, opens, closes, it, best, held, disturbed, raced>>

(* The owner drops a complete client. *)
Drop(t) ==
  /\ Len(held[t]) = Lanes
  /\ Goto(t, "idle", "close")
  /\ UNCHANGED <<parallel, opens, closes, it, best, held, lost, disturbed, raced>>

(* Mutation: ~LaneClient forgets the others after the first. *)
CloseFirst(t) ==
  /\ pc[t] = "close" /\ held[t] # <<>>
  /\ closes' = [closes EXCEPT ![Head(held[t])] = closes[Head(held[t])] + 1]
  /\ held' = [held EXCEPT ![t] = <<>>]
  /\ UNCHANGED <<parallel, opens, pc, it, best, lost, disturbed, raced>>

(* ~LaneClient: Connection::close(normal) on each connection. *)
Close(t) ==
  /\ pc[t] = "close" /\ held[t] # <<>>
  /\ closes' = [closes EXCEPT ![Head(held[t])] = closes[Head(held[t])] + 1]
  /\ held' = [held EXCEPT ![t] = Tail(held[t])]
  /\ UNCHANGED <<parallel, opens, pc, it, best, lost, disturbed, raced>>
Closed(t) ==
  /\ held[t] = <<>>
  /\ Goto(t, "close", "idle")
  /\ UNCHANGED <<parallel, opens, closes, it, best, held, lost, disturbed, raced>>
-----------------------------------------------------------------------------
Total(f) == LET sum[n \in 0..MaxRunways] == IF n = 0 THEN 0 ELSE f[n] + sum[n - 1]
            IN  sum[MaxRunways]

Init ==
  /\ parallel = 0
  /\ opens = [r \in Runways |-> 0]
  /\ closes = [r \in Runways |-> 0]
  /\ pc = [t \in Creators |-> "idle"]
  /\ it = [t \in Creators |-> 1]
  /\ best = [t \in Creators |-> 1]
  /\ held = [t \in Creators |-> <<>>]
  /\ lost = [r \in Runways |-> 0]
  /\ disturbed = {} /\ raced = {}

Thread(t) ==
  \/ Begin(t) \/ Compare(t) \/ Connected(t) \/ SocketFails(t) \/ ConnectFails(t)
  \/ Socket(t) /\ Total(opens) < MaxOpens
  \/ Drop(t) \/ Close(t) \/ Closed(t)

Next ==
  \/ \E n \in Runways : Start(n)
  \/ \E t \in Creators : Thread(t)

Spec == Init /\ [][Next]_vars
-----------------------------------------------------------------------------
TypeOK ==
  /\ parallel \in 0..MaxRunways
  /\ opens \in [Runways -> Nat]
  /\ closes \in [Runways -> Nat]
  /\ lost \in [Runways -> Nat]
  /\ pc \in [Creators -> {"idle", "scan", "connect", "close"}]
  /\ it \in [Creators -> 1..MaxRunways + 1]
  /\ best \in [Creators -> Runways \cup {1}]
  /\ held \in [Creators -> Seq(Runways)]
  /\ disturbed \subseteq Creators
  /\ raced \subseteq Creators

(* What min_element computes with "different" for "less": the first runway *)
(* of the last group of equal sizes.                                       *)
StartsLastGroup(r) ==
  /\ \A q \in Started : q >= r => opens[q] = opens[r]
  /\ r > 1 => opens[r - 1] # opens[r]

(* A scan that no other creation disturbs ends at the first runway of the  *)
(* last group of equal sizes, whatever the sizes are: not at the smallest. *)
ChoosesLastGroup ==
  \A t \in Creators : Scanning(t) /\ it[t] \notin Started /\ t \notin disturbed
    => StartsLastGroup(best[t])

(* Still the load is even: as long as no creation used a scan that another *)
(* creation disturbed, the sizes differ by at most one.  After one such    *)
(* race the last group can be the largest, and then it is chosen for ever. *)
Balanced ==
  raced = {} => \A q, r \in Started : opens[q] <= opens[r] + 1

(* Connections that are in a LaneClient or are being connected. *)
Using(r) ==
  {use \in Creators \X (0..Lanes) :
     LET t == use[1]
         i == use[2]
     IN  \/ i \in DOMAIN held[t] /\ held[t][i] = r
         \/ i = 0 /\ pc[t] = "connect" /\ best[t] = r}

(* opens - closes, the column "conns" of Metrix, counts the connections in *)
(* use and the sockets of failed connects, which nobody can close any more *)
(* ; a failure never loses a connection that had been made before it.      *)
ConnsCountsLost ==
  \A r \in Runways : opens[r] = closes[r] + Cardinality(Using(r)) + lost[r]
=============================================================================

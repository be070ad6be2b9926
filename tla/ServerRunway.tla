---------------------------- MODULE ServerRunway ----------------------------
(***************************************************************************)
(* A server's runway from accept to delete (leopard/src Runway.cpp,        *)
(* Connection.cpp, Socket.cpp): it accepts, reads and closes connections,  *)
(* handler threads answer on them or close them for want of a route, and   *)
(* both count in Qps.  close ends with "delete this"; nobody tells the     *)
(* others.  What the program does after the use of a deleted connection is *)
(* undefined: the model stops there.                                       *)
(***************************************************************************)
EXTENDS Integers, Sequences, FiniteSets, Functions

CONSTANTS
  Clients,      (* peers, one connection each                              *)
  Listener,     (* the listening socket as an epoll event                  *)
  MaxMsgs,      (* bound: messages in all                                  *)
  MaxFails      (* bound: accepts that fail                                *)

ASSUME RunwayAssumption ==
  /\ IsFiniteSet(Clients) /\ Listener \notin Clients
  /\ MaxMsgs \in Nat /\ MaxFails \in Nat

VARIABLES
  backlog,      (* kernel: connections waiting for accept                  *)
  edge,         (* kernel: an event of the listening socket is pending     *)
  merged,       (* history: arrivals that found an event pending already   *)
  failed,       (* history: accepts that failed                            *)
  inbox, ended, (* kernel: messages not yet read; how the peer ended       *)
  watched,      (* kernel: descriptors in the epoll                        *)
  ready,        (* kernel: descriptors with an event pending               *)
  open,         (* kernel: accepted descriptors that are open              *)
  conn,         (* the Connection object of each client                    *)
  batch,        (* what epoll_wait returned and is not yet handled         *)
  cur,          (* the connection the runway is at                         *)
  pc,           (* of the runway and of the handler threads                *)
  deleter,      (* history: who deleted each connection                    *)
  stale,        (* a deleted connection was used: by whom, deleted by whom *)
  opens, closes, errors,   (* Qps                                          *)
  doubled       (* history: closes that failed with EBADF                  *)

kernel == <<backlog, edge, merged, failed, inbox, ended, watched, ready, open>>
counters == <<opens, closes, errors, doubled>>
objects == <<conn, deleter, stale>>
vars == <<kernel, objects, batch, cur, pc, counters>>

Runway == <<Listener, 0>>
Handlers == Clients \X (1..MaxMsgs)
Threads == Handlers \cup {Runway}
Target(u) == IF u = Runway THEN cur ELSE u[1]
Return(u) == IF u = Runway THEN "next" ELSE "done"

Goto(u, from, to) == pc[u] = from /\ pc' = [pc EXCEPT ![u] = to]
(* u is at this place, and the connection it uses there exists. *)
At(u, place) == pc[u] = place /\ conn[Target(u)] = "object"
Handled(c) == Cardinality({i \in 1..MaxMsgs : pc[<<c, i>>] # "none"})
Written == Cardinality({h \in Handlers : h[2] <= Handled(h[1]) + Len(inbox[h[1]])})
Readable(c) == inbox[c] # <<>> \/ ended[c] # "no"
-----------------------------------------------------------------------------
(* Mutation: the listening socket is not counted in the first place. *)
BootUncounted ==
  /\ Goto(Runway, "boot", "bound")
  /\ UNCHANGED <<kernel, objects, batch, cur, counters>>

(* Runway::run: the listening socket is counted by Socket's constructor    *)
(* and then taken out again; any system call may throw, and the loop runs  *)
(* all the same.                                                           *)
BootSocket ==
  /\ Goto(Runway, "boot", "bound")
  /\ opens' = opens + 1
  /\ UNCHANGED <<kernel, objects, batch, cur, closes, errors, doubled>>

BootUncount ==
  /\ Goto(Runway, "bound", "listen")
  /\ opens' = opens - 1
  /\ UNCHANGED <<kernel, objects, batch, cur, closes, errors, doubled>>

BootListen ==
  /\ Goto(Runway, "listen", "next")
  /\ UNCHANGED <<kernel, objects, batch, cur, counters>>

BootFails ==
  /\ pc[Runway] \in {"boot", "listen"}
  /\ pc' = [pc EXCEPT ![Runway] = "deaf"]
  /\ UNCHANGED <<kernel, objects, batch, cur, counters>>
-----------------------------------------------------------------------------
(* The peers. *)

Waiting(c) == \E i \in 1..Len(backlog) : backlog[i] = c
Known(c) == Waiting(c) \/ c \in open

(* A connection is established: one more in the backlog, and an event,     *)
(* unless one is pending.                                                  *)
Arrive(c) ==
  /\ pc[Runway] \notin {"boot", "bound", "listen", "deaf"}
  /\ ~Waiting(c) /\ conn[c] = "none"
  /\ backlog' = Append(backlog, c)
  /\ edge' = TRUE
  /\ merged' = IF edge THEN merged + 1 ELSE merged
  /\ UNCHANGED <<failed, inbox, ended, watched, ready, open, objects, batch, cur, pc, counters>>

Notify(c) == ready' = IF c \in watched THEN ready \cup {c} ELSE ready

PeerWrites(c, kind) ==
  /\ Known(c) /\ ended[c] = "no"
  /\ Written < MaxMsgs
  /\ inbox' = [inbox EXCEPT ![c] = Append(inbox[c], kind)]
  /\ Notify(c)
  /\ UNCHANGED <<backlog, edge, merged, failed, ended, watched, open, objects, batch, cur, pc, counters>>

(* The peer closes, or the connection breaks. *)
PeerEnds(c, how) ==
  /\ Known(c) /\ ended[c] = "no"
  /\ ended' = [ended EXCEPT ![c] = how]
  /\ Notify(c)
  /\ UNCHANGED <<backlog, edge, merged, failed, inbox, watched, open, objects, batch, cur, pc, counters>>
-----------------------------------------------------------------------------
(* The runway. *)

(* epoll_wait hands over everything pending, in some order; an event says  *)
(* at this moment whether there is something to read.                      *)
Pending == ready \cup {x \in {Listener} : edge}

Wait ==
  /\ pc[Runway] = "next" /\ batch = <<>>
  /\ Pending # {}
  /\ \E s \in Bijection(1..Cardinality(Pending), Pending) :
       batch' = [i \in 1..Cardinality(Pending) |->
                   [of |-> s[i], in |-> s[i] \in Clients /\ Readable(s[i])]]
  /\ edge' = FALSE /\ ready' = {}
  /\ UNCHANGED <<backlog, merged, failed, inbox, ended, watched, open, objects, cur, pc, counters>>

(* acceptSocket: one accept for one event. *)
Accept ==
  /\ pc[Runway] = "next" /\ batch # <<>> /\ Head(batch).of = Listener
  /\ backlog # <<>>
  /\ LET c == Head(backlog)
     IN  /\ cur' = c
         /\ conn' = [conn EXCEPT ![c] = "fd"]
         /\ open' = open \cup {c}
  /\ backlog' = Tail(backlog)
  /\ pc' = [pc EXCEPT ![Runway] = "new"]
  /\ batch' = Tail(batch)
  /\ UNCHANGED <<edge, merged, failed, inbox, ended, watched, ready, deleter, stale, counters>>

(* accept throws (too many open files): the event is used up. *)
AcceptFails ==
  /\ pc[Runway] = "next" /\ batch # <<>> /\ Head(batch).of = Listener
  /\ failed < MaxFails
  /\ failed' = failed + 1
  /\ batch' = Tail(batch)
  /\ UNCHANGED <<backlog, edge, merged, inbox, ended, watched, ready, open, objects, cur, pc, counters>>

(* new Connection(client_fd, this) counts the socket. *)
NewConnection ==
  /\ Goto(Runway, "new", "add")
  /\ conn' = [conn EXCEPT ![cur] = "object"]
  /\ opens' = opens + 1
  /\ UNCHANGED <<kernel, deleter, stale, batch, cur, closes, errors, doubled>>

(* Mutation: the new connection is not added to the epoll. *)
AddNothing ==
  /\ Goto(Runway, "add", "next")
  /\ UNCHANGED <<kernel, objects, batch, cur, counters>>

(* epoll->add: the socket can be written, so there is an event at once. *)
Add ==
  /\ Goto(Runway, "add", "next")
  /\ watched' = watched \cup {cur}
  /\ ready' = ready \cup {cur}
  /\ UNCHANGED <<backlog, edge, merged, failed, inbox, ended, open, objects, batch, cur, counters>>

(* __acceptEvent: the pointer in the event is used to begin with. *)
Dispatch ==
  /\ pc[Runway] = "next" /\ batch # <<>> /\ Head(batch).of # Listener
  /\ conn[Head(batch).of] = "object"
  /\ cur' = Head(batch).of
  /\ batch' = Tail(batch)
  /\ pc' = [pc EXCEPT ![Runway] = IF Head(batch).in THEN "recv" ELSE "send"]
  /\ UNCHANGED <<kernel, objects, counters>>

(* recv brings a message, which gets a thread of its own. *)
RecvMessage ==
  /\ At(Runway, "recv")
  /\ cur \in open /\ inbox[cur] # <<>>
  /\ inbox' = [inbox EXCEPT ![cur] = Tail(inbox[cur])]
  /\ pc' = [pc EXCEPT ![Runway] = "mod_in", ![<<cur, Handled(cur) + 1>>] = Head(inbox[cur])]
  /\ UNCHANGED <<backlog, edge, merged, failed, ended, watched, ready, open, objects, batch, cur, counters>>

(* EAGAIN, or EBADF once a handler has closed the descriptor, which throws *)
(* and goes to close like any other error.                                 *)
RecvNothing ==
  /\ At(Runway, "recv")
  /\ cur \in open /\ inbox[cur] = <<>> /\ ended[cur] = "no"
  /\ Goto(Runway, "recv", "mod_in_out")
  /\ UNCHANGED <<kernel, objects, batch, cur, counters>>

RecvEnd ==
  /\ At(Runway, "recv")
  /\ cur \in open => inbox[cur] = <<>> /\ ended[cur] # "no"
  /\ Goto(Runway, "recv", "close")
  /\ UNCHANGED <<kernel, objects, batch, cur, counters>>

(* epoll_mod_in queues an event at once, for the socket can be written;    *)
(* the loop goes on if something was received.                             *)
EpollModIn ==
  /\ At(Runway, "mod_in") \/ At(Runway, "mod_in_out")
  /\ Notify(cur)
  /\ pc' = [pc EXCEPT ![Runway] = IF pc[Runway] = "mod_in" THEN "recv" ELSE "next"]
  /\ UNCHANGED <<backlog, edge, merged, failed, inbox, ended, watched, open, objects, batch, cur, counters>>

(* Connection::send, called by the runway for EPOLLOUT and by a handler. *)
Send(u) ==
  /\ At(u, "send")
  /\ Goto(u, "send", Return(u))
  /\ UNCHANGED <<kernel, objects, batch, cur, counters>>
-----------------------------------------------------------------------------
(* A handler thread: acceptRequest, saccept. *)

Route(h) ==
  /\ \/ At(h, "routed") /\ Goto(h, "routed", "push")
     \/ At(h, "unrouted") /\ Goto(h, "unrouted", "close")
  /\ UNCHANGED <<kernel, objects, batch, cur, counters>>

Push(h) ==
  /\ At(h, "push")
  /\ Goto(h, "push", "send")
  /\ UNCHANGED <<kernel, objects, batch, cur, counters>>
-----------------------------------------------------------------------------
(* Connection::close. *)

(* Mutation: the exception of a failed close leaves the loop over what     *)
(* epoll_wait returned, and not only the handling of one event.            *)
CloseFdLeavesLoop(u) ==
  LET c == Target(u)
  IN  /\ At(u, "close")
      /\ \/ /\ c \in open
            /\ open' = open \ {c}
            /\ watched' = watched \ {c} /\ ready' = ready \ {c}
            /\ Goto(u, "close", "count")
            /\ UNCHANGED <<batch, counters>>
         \/ /\ c \notin open
            /\ errors' = errors + 1 /\ doubled' = doubled + 1
            /\ batch' = IF u = Runway THEN <<>> ELSE batch
            /\ Goto(u, "close", Return(u))
            /\ UNCHANGED <<opens, closes, watched, ready, open>>
      /\ UNCHANGED <<backlog, edge, merged, failed, inbox, ended, objects, cur>>

(* epoll_del and ::close.  A descriptor that another thread has closed     *)
(* gives EBADF, which is counted as an error and thrown out of close.      *)
CloseFd(u) ==
  LET c == Target(u)
  IN  /\ At(u, "close")
      /\ \/ /\ c \in open
            /\ open' = open \ {c}
            /\ watched' = watched \ {c} /\ ready' = ready \ {c}
            /\ Goto(u, "close", "count")
            /\ UNCHANGED counters
         \/ /\ c \notin open
            /\ errors' = errors + 1 /\ doubled' = doubled + 1
            /\ Goto(u, "close", Return(u))
            /\ UNCHANGED <<opens, closes, watched, ready, open>>
      /\ UNCHANGED <<backlog, edge, merged, failed, inbox, ended, objects, batch, cur>>

(* The runway's close after the end of the stream is normal, all others    *)
(* are errors.                                                             *)
Normal(u) == u = Runway /\ ended[cur] = "fin"

(* Mutation: a close by error is counted in both columns. *)
CountTwice(u) ==
  /\ At(u, "count")
  /\ closes' = closes + 1
  /\ errors' = IF Normal(u) THEN errors ELSE errors + 1
  /\ Goto(u, "count", "delete")
  /\ UNCHANGED <<kernel, objects, batch, cur, opens, doubled>>

CountClose(u) ==
  /\ At(u, "count")
  /\ closes' = IF Normal(u) THEN closes + 1 ELSE closes
  /\ errors' = IF Normal(u) THEN errors ELSE errors + 1
  /\ Goto(u, "count", "delete")
  /\ UNCHANGED <<kernel, objects, batch, cur, opens, doubled>>

(* Mutation: acceptRecive goes round its loop again after a normal close. *)
DeleteAndLoop(u) ==
  /\ At(u, "delete")
  /\ conn' = [conn EXCEPT ![Target(u)] = "deleted"]
  /\ deleter' = [deleter EXCEPT ![Target(u)] = u]
  /\ Goto(u, "delete", IF Normal(u) THEN "recv" ELSE Return(u))
  /\ UNCHANGED <<kernel, stale, batch, cur, counters>>

(* delete this *)
Delete(u) ==
  /\ At(u, "delete")
  /\ conn' = [conn EXCEPT ![Target(u)] = "deleted"]
  /\ deleter' = [deleter EXCEPT ![Target(u)] = u]
  /\ Goto(u, "delete", Return(u))
  /\ UNCHANGED <<kernel, stale, batch, cur, counters>>

(* The places where a thread follows its pointer to the connection. *)
Uses(u, c) ==
  \/ /\ pc[u] \in {"recv", "mod_in", "mod_in_out", "send", "routed", "unrouted", "push", "close",
                   "count", "delete"}
     /\ Target(u) = c
  \/ u = Runway /\ pc[u] = "next" /\ batch # <<>> /\ Head(batch).of = c

UseDeleted(u, c) ==
  /\ Uses(u, c) /\ conn[c] = "deleted"
  /\ stale' = {<<u, deleter[c]>>}
  /\ UNCHANGED <<kernel, conn, deleter, batch, cur, pc, counters>>
-----------------------------------------------------------------------------
Init ==
  /\ backlog = <<>> /\ edge = FALSE /\ merged = 0 /\ failed = 0
  /\ inbox = [c \in Clients |-> <<>>] /\ ended = [c \in Clients |-> "no"]
  /\ watched = {} /\ ready = {} /\ open = {}
  /\ conn = [c \in Clients |-> "none"]
  /\ batch = <<>> /\ cur \in Clients
  /\ pc = [u \in Threads |-> IF u = Runway THEN "boot" ELSE "none"]
  /\ deleter = [c \in Clients |-> Runway] /\ stale = {}
  /\ opens = 0 /\ closes = 0 /\ errors = 0 /\ doubled = 0

Closing(u) == CloseFd(u) \/ CountClose(u) \/ Delete(u)

RunwayStep ==
  \/ BootSocket \/ BootUncount \/ BootListen \/ BootFails
  \/ Wait \/ Accept \/ AcceptFails \/ NewConnection \/ Add \/ Dispatch
  \/ RecvMessage \/ RecvNothing \/ RecvEnd \/ EpollModIn
  \/ Send(Runway) \/ Closing(Runway) \/ \E c \in Clients : UseDeleted(Runway, c)

HandlerStep(h) ==
  Route(h) \/ Push(h) \/ Send(h) \/ Closing(h) \/ \E c \in Clients : UseDeleted(h, c)

Peer(c) ==
  \/ Arrive(c)
  \/ \E kind \in {"routed", "unrouted"} : PeerWrites(c, kind)
  \/ \E how \in {"fin", "rst"} : PeerEnds(c, how)

Next ==
  /\ stale = {}
  /\ RunwayStep \/ (\E h \in Handlers : HandlerStep(h)) \/ (\E c \in Clients : Peer(c))

Spec == Init /\ [][Next]_vars

(* The loop of the runway runs for ever and waits a second at most. *)
FairSpec == Spec /\ WF_vars(stale = {} /\ RunwayStep)
-----------------------------------------------------------------------------
Places == {"boot", "bound", "listen", "deaf", "none", "next", "new", "add", "recv", "mod_in",
           "mod_in_out", "send", "routed", "unrouted", "push", "close", "count", "delete", "done"}
Kinds == {"routed", "unrouted"}

TypeOK ==
  /\ backlog \in Seq(Clients) /\ edge \in BOOLEAN /\ merged \in Nat /\ failed \in Nat
  /\ inbox \in [Clients -> Seq(Kinds)] /\ ended \in [Clients -> {"no", "fin", "rst"}]
  /\ watched \subseteq open /\ ready \subseteq watched /\ open \subseteq Clients
  /\ conn \in [Clients -> {"none", "fd", "object", "deleted"}]
  /\ batch \in Seq([of : Clients \cup {Listener}, in : BOOLEAN]) /\ cur \in Clients
  /\ pc \in [Threads -> Places] /\ deleter \in [Clients -> Threads]
  /\ stale \subseteq Threads \X Threads
  /\ opens \in Nat /\ closes \in Nat /\ errors \in Nat /\ doubled \in Nat

Listening == \E i \in 1..Len(batch) : batch[i].of = Listener
One(b) == IF b THEN 1 ELSE 0

(* No event of the listening socket is lost, whatever goes wrong with the  *)
(* connections handled along with it (a close that throws, a deleted       *)
(* object): a client waits with no event pending only for an arrival that  *)
(* found one pending already or for an accept that failed, one client for  *)
(* each of those.  These are stranded until a further arrival.             *)
BacklogLaw ==
  Len(backlog) = merged + failed + One(edge) + One(Listening)

(* The number of active connections, opens - closes - errors, is that of   *)
(* the open descriptors but for the steps between a system call and its    *)
(* count; and one too low, for ever, for every descriptor that two threads *)
(* were closing at the same time.                                          *)
ActiveLaw ==
  opens - closes - errors + doubled =
    Cardinality(open) + Cardinality({u \in Threads : pc[u] \in {"bound", "count"}})
      - Cardinality({u \in Threads : pc[u] = "new"})

(* No thread uses a connection it has deleted itself; the runway deletes   *)
(* one under a handler only after the peer has ended the stream.           *)
StaleOnlyThroughOthers ==
  \A use \in stale :
    /\ use[1] # use[2]
    /\ use[2] = Runway => ended[Target(use[1])] # "no"

(* A connection whose peer has ended is closed in the end: with edge-      *)
(* triggered events no end of stream is overlooked, whenever it comes.     *)
EndedIsClosed ==
  \A c \in Clients : c \in open /\ ended[c] # "no" ~> c \notin open \/ stale # {}
=============================================================================

----------------------------- MODULE Invocation -----------------------------
(***************************************************************************)
(* A client's invocations and the answers to them (leopard/src             *)
(* LaneClient.cpp, ClientConnection.cpp, ClientWaitor.cpp and prot/).      *)
(*                                                                         *)
(* Each caller has a LaneClient of its own, as the callers in dsc and      *)
(* test-client do, with Lanes connections used in turn.  The message id    *)
(* counter and the callbacks are shared by all of them.  Every request is  *)
(* answered by a thread of the server and every answer is handled by a     *)
(* thread of the client, in any order: SendPath and ReceivePath move the   *)
(* bytes between them.  The server has a function for every path; it may   *)
(* throw, as a callback may, and Connection::acceptRequest only logs that. *)
(*                                                                         *)
(* The two std::maps are read while a caller inserts, without a lock.  A   *)
(* lookup during an insertion may miss what is there; other outcomes of    *)
(* that race, such as a crash, are not modelled.                           *)
(***************************************************************************)
EXTENDS Integers, Sequences

CONSTANTS
  Callers,    (* threads that invoke                                       *)
  Paths,      (* the paths they invoke                                     *)
  Lanes,      (* parallel: connections of a LaneClient                     *)
  MaxCalls    (* bound: invocations of each caller                         *)

ASSUME InvocationAssumption == Lanes \in Nat \ {0} /\ MaxCalls \in [Callers -> Nat]

VARIABLES
  seq,        (* LeopardHeader::seq                                        *)
  callbacks,  (* TcpRequest::requestCallbacks: whose callback a path has   *)
  index,      (* LaneClient::index of each caller                          *)
  pc,         (* where each caller is in invoke                            *)
  calls,      (* of each caller, its invocations                           *)
  waitors,    (* ClientConnection::waitors of each lane: message id and    *)
              (* the number of the call that waits for it                  *)
  lost        (* the connections deleted by close(no_router); the caller   *)
              (* still has a pointer to them, what it does then is left out *)

vars == <<seq, callbacks, index, pc, calls, waitors, lost>>

None == <<>>                        (* no callback                         *)
NoCall == 0                         (* no waiter                           *)
LaneIds == 0..Lanes - 1
Ids == UNION {{<<c, k>> : k \in 1..Len(calls[c])} : c \in Callers}

(* at: how far the message has come.  found: the waiter its answer found.  *)
(* ran: the call whose callback its answer runs.                           *)
Call == [path: Paths, lane: LaneIds, id: Nat,
         status: {"unborn", "waiting", "succeed", "nohint"},
         at: {"invoke", "sent", "answered", "unanswered", "found", "called", "thrown",
              "nohint", "done"},
         found: Nat, ran: {None} \cup (Callers \X Nat)]

Last(c) == Len(calls[c])
Now(c) == calls[c][Last(c)]
Answer(i) == calls[i[1]][i[2]]
Waiting(c, l) == waitors[c][l]

(* Change call k of caller c. *)
With(c, k, call) == calls' = [calls EXCEPT ![c][k] = call]
-----------------------------------------------------------------------------
(* LaneClient::invoke, one step for each access to shared state. *)

(* Mutation: the callback is registered when the message is on its way. *)
AfterRegistLast(step) ==
  CASE step = "idle"   -> "create"
    [] step = "create" -> "load"
    [] step = "load"   -> "csend"
    [] step = "csend"  -> "regist"
    [] step = "regist" -> "waiter"
    [] step = "waiter" -> "idle"

(* The order in which invoke does things. *)
After(step) ==
  CASE step = "idle"   -> "regist"
    [] step = "regist" -> "create"
    [] step = "create" -> "load"
    [] step = "load"   -> "csend"
    [] step = "csend"  -> "waiter"
    [] step = "waiter" -> "idle"

Advance(c, step) == pc[c] = step /\ pc' = [pc EXCEPT ![c] = After(step)]

(* Mutation: the index does not wrap. *)
LaneUnwrapped(i) == i

(* next: the lanes in turn. *)
NextLane(i) == i % Lanes

(* invoke begins: next chooses the connection. *)
Invoke(c, path) ==
  LET i == NextLane(index[c])
  IN /\ Last(c) < MaxCalls[c]
     /\ Advance(c, "idle")
     /\ <<c, i>> \notin lost
     /\ index' = [index EXCEPT ![c] = i + 1]
     /\ calls' = [calls EXCEPT ![c] = Append(@,
          [path |-> path, lane |-> i, id |-> 0, status |-> "unborn",
           at |-> "invoke", found |-> NoCall, ran |-> None])]
     /\ UNCHANGED <<seq, callbacks, waitors, lost>>

(* TcpRequest::regist: std::map::insert keeps an entry that is there. *)
Regist(c) ==
  LET path == Now(c).path
  IN /\ Advance(c, "regist")
     /\ callbacks' = IF callbacks[path] = None
                     THEN [callbacks EXCEPT ![path] = <<c, Last(c)>>]
                     ELSE callbacks
     /\ UNCHANGED <<seq, index, calls, waitors, lost>>

(* A path is being inserted. *)
Registering == \E c \in Callers : pc[c] = "regist" /\ callbacks[Now(c).path] = None

(* Mutation: the counter stands still. *)
CreateStuck(c) ==
  /\ Advance(c, "create")
  /\ UNCHANGED <<seq, callbacks, index, calls, waitors, lost>>

(* LeopardHeader::create: seq++ ... *)
CreateSeq(c) ==
  /\ Advance(c, "create")
  /\ seq' = seq + 1
  /\ UNCHANGED <<callbacks, index, calls, waitors, lost>>

(* ... and then i = seq.load(), which another caller may have moved on. *)
CreateLoad(c) ==
  /\ Advance(c, "load")
  /\ With(c, Last(c), [Now(c) EXCEPT !.id = seq])
  /\ UNCHANGED <<seq, callbacks, index, waitors, lost>>

(* csend: the message is pushed and sent. *)
CSend(c) ==
  /\ Advance(c, "csend")
  /\ <<c, Now(c).lane>> \notin lost
  /\ With(c, Last(c), [Now(c) EXCEPT !.at = "sent"])
  /\ UNCHANGED <<seq, callbacks, index, waitors, lost>>

(* crateWaiter, once the message is on its way. *)
CrateWaiter(c) ==
  LET call == Now(c)
      others == {w \in Waiting(c, call.lane) : w[1] # call.id}
  IN /\ Advance(c, "waiter")
     /\ <<c, call.lane>> \notin lost
     /\ waitors' = [waitors EXCEPT ![c][call.lane] = others \cup {<<call.id, Last(c)>>}]
     /\ With(c, Last(c), [call EXCEPT !.status = "waiting"])
     /\ UNCHANGED <<seq, callbacks, index, lost>>
-----------------------------------------------------------------------------
(* LeopardProtocal::saccept: the answer carries the id and the path of the *)
(* request.  There is none when the function throws.                       *)
SAccept(i) ==
  /\ Answer(i).at = "sent"
  /\ <<i[1], Answer(i).lane>> \notin lost
  /\ \E end \in {"answered", "unanswered"} :
       With(i[1], i[2], [Answer(i) EXCEPT !.at = end])
  /\ UNCHANGED <<seq, callbacks, index, pc, waitors, lost>>

(* LeopardProtocal::caccept, in the thread that handles answer i. *)

(* findWaiter: by message id on the connection the answer came by; nothing *)
(* if there is none yet.                                                   *)
FindWaiter(i) ==
  LET c == i[1]
      call == Answer(i)
      hits == {w[2] : w \in {v \in Waiting(c, call.lane) : v[1] = call.id}}
      inserting == pc[c] = "waiter" /\ Now(c).lane = call.lane
  IN /\ call.at = "answered"
     /\ <<c, call.lane>> \notin lost
     /\ \E w \in hits \cup (IF hits = {} \/ inserting THEN {NoCall} ELSE {}) :
          With(c, i[2], [call EXCEPT !.at = "found", !.found = w])
     /\ UNCHANGED <<seq, callbacks, index, pc, waitors, lost>>

(* Mutation: the waiter is notified before the callback runs. *)
NotifyEarly(i) ==
  LET c == i[1]
      call == Answer(i)
  IN /\ call.at = "found" /\ call.found # NoCall
     /\ calls' = [calls EXCEPT ![c][call.found].status = "succeed"]
     /\ UNCHANGED <<seq, callbacks, index, pc, waitors, lost>>

(* TcpRequest::find by the path; the callback runs and returns, or throws, *)
(* which ends the thread.  Without a callback the connection is closed.    *)
RunCallback(i) ==
  LET c == i[1]
      call == Answer(i)
      hits == {callbacks[call.path]} \cup (IF Registering THEN {None} ELSE {})
  IN /\ call.at = "found"
     /\ <<c, call.lane>> \notin lost
     /\ \E who \in hits :
          /\ \E end \in IF who = None THEN {"nohint"} ELSE {"called", "thrown"} :
               With(c, i[2], [call EXCEPT !.at = end, !.ran = who])
          /\ lost' = IF who = None THEN lost \cup {<<c, call.lane>>} ELSE lost
     /\ UNCHANGED <<seq, callbacks, index, pc, waitors>>

(* notify, if there was a waiter. *)
Notify(i) ==
  LET c == i[1]
      call == Answer(i)
      outcome == IF call.at = "called" THEN "succeed" ELSE "nohint"
  IN /\ call.at \in {"called", "nohint"}
     /\ calls' = [calls EXCEPT ![c] = [k \in DOMAIN calls[c] |->
          [calls[c][k] EXCEPT
             !.status = IF k = call.found THEN outcome ELSE calls[c][k].status,
             !.at = IF k = i[2] THEN "done" ELSE calls[c][k].at]]]
     /\ UNCHANGED <<seq, callbacks, index, pc, waitors, lost>>
-----------------------------------------------------------------------------
Init ==
  /\ seq = 0 /\ callbacks = [p \in Paths |-> None]
  /\ index = [c \in Callers |-> 0]
  /\ pc = [c \in Callers |-> "idle"]
  /\ calls = [c \in Callers |-> <<>>]
  /\ waitors = [c \in Callers |-> [l \in LaneIds |-> {}]]
  /\ lost = {}

InvokeStep(c) == Regist(c) \/ CreateSeq(c) \/ CreateLoad(c) \/ CSend(c) \/ CrateWaiter(c)
AnswerStep(i) == SAccept(i) \/ FindWaiter(i) \/ RunCallback(i) \/ Notify(i)

Next ==
  \/ \E c \in Callers : (\E path \in Paths : Invoke(c, path)) \/ InvokeStep(c)
  \/ \E i \in Ids : AnswerStep(i)

Spec == Init /\ [][Next]_vars

(* No thread stops halfway, on the client or on the server. *)
FairSpec ==
  /\ Spec
  /\ \A c \in Callers : WF_vars(InvokeStep(c))
  /\ \A c \in Callers : \A k \in 1..MaxCalls[c] :
       WF_vars(<<c, k>> \in Ids /\ AnswerStep(<<c, k>>))
-----------------------------------------------------------------------------
(* Every variable has its type, and every waiter is of a call made.        *)
TypeOK ==
  /\ seq \in Nat
  /\ callbacks \in [Paths -> {None} \cup (Callers \X Nat)]
  /\ index \in [Callers -> 0..Lanes]
  /\ pc \in [Callers -> {"idle", "regist", "create", "load", "csend", "waiter"}]
  /\ calls \in [Callers -> Seq(Call)]
  /\ waitors \in [Callers -> [LaneIds -> SUBSET (Nat \X Nat)]]
  /\ \A c \in Callers : \A l \in LaneIds : \A w \in waitors[c][l] : w[2] \in 1..Len(calls[c])
  /\ lost \subseteq Callers \X LaneIds

(* A wait that ends well has the answer: a waiter is told succeed only     *)
(* when the callback has returned from the answer to that same call, even  *)
(* if two callers were given the same message id.                          *)
SucceedIsAnswered ==
  \A i \in Ids : Answer(i).status = "succeed" => Answer(i).at = "done" /\ Answer(i).found = i[2]

(* The callback of an answer is there: no answer closes its connection for *)
(* want of one, unless a caller is registering another path just then.     *)
HintUnlessRacing ==
  [][\A i \in Ids : Answer(i).at # "nohint" /\ Answer(i)'.at = "nohint" =>
       \E c \in Callers : pc[c] = "regist" /\ Now(c).path # Answer(i).path]_vars

(* Every request comes to an end: its waiter is notified, and left to its  *)
(* timeout only if the answer missed it, if the server's function or the   *)
(* callback threw, or if the connection is lost.                           *)
AnswerEnds ==
  \A c \in Callers : \A k \in 1..MaxCalls[c] :
    (k <= Len(calls[c]) /\ calls[c][k].at = "sent")
      ~> /\ k <= Len(calls[c])
         /\ \/ calls[c][k].at = "done" /\ calls[c][k].found = NoCall
            \/ calls[c][k].status \in {"succeed", "nohint"}
            \/ calls[c][k].at \in {"unanswered", "thrown"}
            \/ <<c, calls[c][k].lane>> \in lost

(* What LeopardProtocal.cpp:36 reports as an error does not happen: an     *)
(* answer finds the waiter of its call.  The run overtaken refutes it.     *)
WaiterIsThere ==
  \A i \in Ids : Answer(i).at \notin {"invoke", "sent", "answered", "unanswered"} => Answer(i).found # NoCall

(* The callback is that of the message, as TcpRequest.hpp:25 has it: the   *)
(* answer to a call runs the callback that call gave.  The run by_path     *)
(* refutes it.                                                             *)
OwnCallback ==
  \A i \in Ids : Answer(i).ran # None => Answer(i).ran = i
=============================================================================

-------------------------- MODULE InvocationProofs --------------------------
(***************************************************************************)
(* Proofs about Invocation, for any callers, paths and connections, and    *)
(* any number of calls.                                                    *)
(***************************************************************************)
EXTENDS Invocation, TLAPS

Places == {"idle", "regist", "create", "load", "csend", "waiter"}

(* The types; WaiterInv has the rest of TypeOK.                            *)
Types ==
  /\ seq \in Nat
  /\ callbacks \in [Paths -> {None} \cup (Callers \X Nat)]
  /\ index \in [Callers -> 0..Lanes]
  /\ pc \in [Callers -> Places]
  /\ calls \in [Callers -> Seq(Call)]
  /\ waitors \in [Callers -> [LaneIds -> SUBSET (Nat \X Nat)]]
  /\ lost \subseteq Callers \X LaneIds

(* Call k of caller c has its message id. *)
Assigned(c, k) == k < Len(calls[c]) \/ pc[c] \in {"idle", "csend", "waiter"}

(* The ids of one caller grow, and a caller about to read the counter has  *)
(* raised it above those it was given before.                              *)
IdInv ==
  \A c \in Callers :
    /\ pc[c] # "idle" => Len(calls[c]) >= 1
    /\ \A k \in 1..Len(calls[c]) : Assigned(c, k) => calls[c][k].id <= seq
    /\ \A j, k \in 1..Len(calls[c]) :
         j < k /\ Assigned(c, k) => calls[c][j].id < calls[c][k].id
    /\ pc[c] = "load" => \A j \in 1..Len(calls[c]) - 1 : calls[c][j].id < seq

(* A message has not left before it was sent. *)
SentInv ==
  \A c \in Callers :
    pc[c] \in {"regist", "create", "load", "csend"} => calls[c][Len(calls[c])].at = "invoke"

(* A waiter is filed under the id of its call. *)
WaiterInv ==
  \A c \in Callers : \A l \in LaneIds : \A w \in waitors[c][l] :
    w[2] \in 1..Len(calls[c]) /\ Assigned(c, w[2]) /\ calls[c][w[2]].id = w[1]

(* An answer finds its own waiter or none, and succeed means it is done. *)
AnswerInv ==
  \A c \in Callers : \A k \in 1..Len(calls[c]) :
    /\ calls[c][k].found \in {NoCall, k}
    /\ calls[c][k].status = "succeed" => calls[c][k].at = "done" /\ calls[c][k].found = k

IInv == Types /\ IdInv /\ SentInv /\ WaiterInv /\ AnswerInv
-----------------------------------------------------------------------------
(* The fields of a call that the proofs look at.                           *)
LEMMA CallField ==
  ASSUME NEW x \in Call
  PROVE  x.id \in Nat /\ x.found \in Nat /\ x.lane \in LaneIds /\ x.path \in Paths
BY DEF Call

(* The same, of the calls that have been made.                             *)
LEMMA CallFields ==
  ASSUME calls \in [Callers -> Seq(Call)], NEW c \in Callers
  PROVE  /\ Len(calls[c]) \in Nat
         /\ \A k \in 1..Len(calls[c]) :
              /\ calls[c][k] \in Call
              /\ calls[c][k].id \in Nat /\ calls[c][k].found \in Nat
              /\ calls[c][k].lane \in LaneIds /\ calls[c][k].path \in Paths
<1>1. calls[c] \in Seq(Call)
  OBVIOUS
<1>2. Len(calls[c]) \in Nat /\ \A k \in 1..Len(calls[c]) : calls[c][k] \in Call
  BY <1>1
<1> QED BY <1>2, CallField

(* With changes one call and no other.                                     *)
LEMMA WithType ==
  ASSUME calls \in [Callers -> Seq(Call)], NEW c \in Callers,
         NEW k \in 1..Len(calls[c]), NEW x \in Call, With(c, k, x)
  PROVE  /\ calls' \in [Callers -> Seq(Call)]
         /\ \A d \in Callers : Len(calls'[d]) = Len(calls[d])
         /\ calls'[c][k] = x
         /\ \A d \in Callers : \A j \in 1..Len(calls[d]) :
              d # c \/ j # k => calls'[d][j] = calls[d][j]
<1>1. calls' = [calls EXCEPT ![c] = [calls[c] EXCEPT ![k] = x]]
  BY DEF With
<1>2. [calls[c] EXCEPT ![k] = x] \in Seq(Call) /\ Len([calls[c] EXCEPT ![k] = x]) = Len(calls[c])
  OBVIOUS
<1>3. calls'[c] = [calls[c] EXCEPT ![k] = x] /\ \A d \in Callers : d # c => calls'[d] = calls[d]
  BY <1>1
<1> QED BY <1>1, <1>2, <1>3

(* A step of one caller moves no other.                                    *)
LEMMA AdvanceType ==
  ASSUME pc \in [Callers -> Places], NEW c \in Callers, NEW step \in Places, Advance(c, step)
  PROVE  /\ pc[c] = step /\ pc'[c] = After(step)
         /\ pc' \in [Callers -> Places]
         /\ \A d \in Callers : d # c => pc'[d] = pc[d]
BY DEF Advance, After, Places

(* The thread of an answer changes no id, no place and no waiter.          *)
LEMMA AnswerKeepsIds ==
  ASSUME IInv, calls' \in [Callers -> Seq(Call)],
         UNCHANGED <<seq, callbacks, index, pc, waitors>>, lost' \subseteq Callers \X LaneIds,
         \A d \in Callers : Len(calls'[d]) = Len(calls[d]),
         \A d \in Callers : \A j \in 1..Len(calls[d]) :
           /\ calls'[d][j].id = calls[d][j].id
           /\ calls[d][j].at = "invoke" => calls'[d][j].at = "invoke"
  PROVE  Types' /\ IdInv' /\ SentInv' /\ WaiterInv'
<1>1. Types'
  BY DEF IInv, Types
<1>2. \A d \in Callers : \A j \in 1..Len(calls[d]) : Assigned(d, j)' <=> Assigned(d, j)
  BY DEF Assigned
<1>3. IdInv'
  <2> SUFFICES ASSUME NEW c \in Callers
               PROVE  /\ pc[c] # "idle" => Len(calls[c]) >= 1
                      /\ \A k \in 1..Len(calls[c]) : Assigned(c, k) => calls'[c][k].id <= seq
                      /\ \A j, k \in 1..Len(calls[c]) :
                           j < k /\ Assigned(c, k) => calls'[c][j].id < calls'[c][k].id
                      /\ pc[c] = "load" => \A j \in 1..Len(calls[c]) - 1 : calls'[c][j].id < seq
    BY <1>2 DEF IdInv
  <2>1. Len(calls[c]) \in Nat
    BY DEF IInv, Types
  <2> QED BY <2>1 DEF IInv, IdInv
<1>4. SentInv'
  <2> SUFFICES ASSUME NEW c \in Callers, pc'[c] \in {"regist", "create", "load", "csend"}
               PROVE  calls'[c][Len(calls'[c])].at = "invoke"
    BY DEF SentInv
  <2>1. Len(calls[c]) \in 1..Len(calls[c])
    BY DEF IInv, IdInv, Types
  <2>2. calls[c][Len(calls[c])].at = "invoke"
    BY DEF IInv, SentInv
  <2> QED BY <2>1, <2>2
<1>5. WaiterInv'
  BY <1>2 DEF IInv, WaiterInv
<1> QED BY <1>1, <1>3, <1>4, <1>5
-----------------------------------------------------------------------------
LEMMA InvokeStart ==
  ASSUME IInv, NEW c \in Callers, NEW path \in Paths, Invoke(c, path)
  PROVE  IInv'
<1> DEFINE new == [path |-> path, lane |-> NextLane(index[c]), id |-> 0, status |-> "unborn",
                   at |-> "invoke", found |-> NoCall, ran |-> None]
<1>1. UNCHANGED <<seq, callbacks, waitors, lost>> /\ Advance(c, "idle")
      /\ calls' = [calls EXCEPT ![c] = Append(calls[c], new)]
      /\ index' = [index EXCEPT ![c] = NextLane(index[c]) + 1]
  BY DEF Invoke
<1>t. pc \in [Callers -> Places] /\ calls \in [Callers -> Seq(Call)] /\ index \in [Callers -> 0..Lanes]
  BY DEF IInv, Types
<1>2. /\ pc[c] = "idle" /\ pc'[c] = "regist" /\ pc' \in [Callers -> Places]
      /\ \A d \in Callers : d # c => pc'[d] = pc[d]
  <2>1. "idle" \in Places /\ After("idle") = "regist"
    BY DEF Places, After
  <2> QED BY <1>1, <1>t, <2>1, AdvanceType
<1>3. NextLane(index[c]) \in LaneIds
  BY <1>t, InvocationAssumption DEF NextLane, LaneIds
<1>4. new \in Call /\ new.at = "invoke" /\ new.found = NoCall /\ new.status = "unborn" /\ new.id = 0
  BY <1>3 DEF Call, NoCall, None
<1> HIDE DEF new
<1>5. /\ calls' \in [Callers -> Seq(Call)]
      /\ calls'[c] = Append(calls[c], new)
      /\ \A d \in Callers : d # c => calls'[d] = calls[d]
  BY <1>1, <1>4, <1>t
<1>6. /\ Len(calls[c]) \in Nat /\ Len(calls'[c]) = Len(calls[c]) + 1
      /\ calls'[c][Len(calls[c]) + 1] = new
      /\ \A k \in 1..Len(calls[c]) : calls'[c][k] = calls[c][k]
  BY <1>4, <1>5, <1>t
<1>7. Types'
  <2>1. NextLane(index[c]) + 1 \in 0..Lanes
    BY <1>3, InvocationAssumption DEF LaneIds
  <2>2. index' \in [Callers -> 0..Lanes]
    BY <1>1, <1>t, <2>1
  <2> QED BY <1>1, <1>2, <1>5, <2>2 DEF IInv, Types
<1>8. /\ \A k \in 1..Len(calls[c]) : Assigned(c, k) /\ Assigned(c, k)'
      /\ \A k \in {Len(calls[c]) + 1} : ~Assigned(c, k)'
      /\ \A d \in Callers : d # c => \A k \in 1..Len(calls[d]) : Assigned(d, k)' <=> Assigned(d, k)
  BY <1>2, <1>5, <1>6 DEF Assigned
<1>9. IdInv'
  <2> SUFFICES ASSUME NEW d \in Callers
               PROVE  /\ pc'[d] # "idle" => Len(calls'[d]) >= 1
                      /\ \A k \in 1..Len(calls'[d]) : Assigned(d, k)' => calls'[d][k].id <= seq'
                      /\ \A j, k \in 1..Len(calls'[d]) :
                           j < k /\ Assigned(d, k)' => calls'[d][j].id < calls'[d][k].id
                      /\ pc'[d] = "load" => \A j \in 1..Len(calls'[d]) - 1 : calls'[d][j].id < seq'
    BY DEF IdInv
  <2>1. CASE d = c
    <3>1. Len(calls'[c]) >= 1 /\ pc'[c] # "load"
      BY <1>2, <1>6
    <3>2. ASSUME NEW k \in 1..Len(calls'[c]), Assigned(c, k)'
          PROVE  k \in 1..Len(calls[c])
      <4>1. k # Len(calls[c]) + 1
        BY <3>2, <1>8
      <4> QED BY <4>1, <1>6
    <3>3. \A k \in 1..Len(calls'[c]) : Assigned(c, k)' => calls'[c][k].id <= seq'
      BY <3>2, <1>1, <1>6, <1>8 DEF IInv, IdInv
    <3>4. ASSUME NEW j \in 1..Len(calls'[c]), NEW k \in 1..Len(calls'[c]), j < k, Assigned(c, k)'
          PROVE  calls'[c][j].id < calls'[c][k].id
      <4>1. k \in 1..Len(calls[c]) /\ j \in 1..Len(calls[c]) /\ Assigned(c, k)
        BY <3>2, <3>4, <1>6, <1>8
      <4> QED BY <4>1, <3>4, <1>6 DEF IInv, IdInv
    <3> QED BY <2>1, <3>1, <3>3, <3>4
  <2>2. CASE d # c
    BY <2>2, <1>1, <1>2, <1>5, <1>8 DEF IInv, IdInv
  <2> QED BY <2>1, <2>2
<1>10. SentInv'
  <2> SUFFICES ASSUME NEW d \in Callers, pc'[d] \in {"regist", "create", "load", "csend"}
               PROVE  calls'[d][Len(calls'[d])].at = "invoke"
    BY DEF SentInv
  <2>1. CASE d = c
    BY <2>1, <1>4, <1>6
  <2>2. CASE d # c
    BY <2>2, <1>2, <1>5 DEF IInv, SentInv
  <2> QED BY <2>1, <2>2
<1>11. WaiterInv'
  <2> SUFFICES ASSUME NEW d \in Callers, NEW l \in LaneIds, NEW w \in waitors[d][l]
               PROVE  w[2] \in 1..Len(calls'[d]) /\ Assigned(d, w[2])' /\ calls'[d][w[2]].id = w[1]
    BY <1>1 DEF WaiterInv
  <2>1. w[2] \in 1..Len(calls[d]) /\ Assigned(d, w[2]) /\ calls[d][w[2]].id = w[1]
    BY DEF IInv, WaiterInv
  <2>2. CASE d = c
    BY <2>1, <2>2, <1>6, <1>8
  <2>3. CASE d # c
    BY <2>1, <2>3, <1>5, <1>8
  <2> QED BY <2>2, <2>3
<1>12. AnswerInv'
  <2> SUFFICES ASSUME NEW d \in Callers, NEW k \in 1..Len(calls'[d])
               PROVE  /\ calls'[d][k].found \in {NoCall, k}
                      /\ calls'[d][k].status = "succeed" =>
                           calls'[d][k].at = "done" /\ calls'[d][k].found = k
    BY DEF AnswerInv
  <2>1. CASE d = c /\ k = Len(calls[c]) + 1
    BY <2>1, <1>4, <1>6
  <2>2. CASE d = c /\ k # Len(calls[c]) + 1
    <3>1. k \in 1..Len(calls[c]) /\ calls'[d][k] = calls[c][k]
      BY <2>2, <1>6
    <3> QED BY <2>2, <3>1 DEF IInv, AnswerInv
  <2>3. CASE d # c
    BY <2>3, <1>5 DEF IInv, AnswerInv
  <2> QED BY <2>1, <2>2, <2>3
<1> QED BY <1>7, <1>9, <1>10, <1>11, <1>12 DEF IInv

(* regist and seq++ change no call.                                        *)
LEMMA CallerMoves ==
  ASSUME IInv, NEW c \in Callers, Regist(c) \/ CreateSeq(c)
  PROVE  IInv'
<1>t. seq \in Nat /\ pc \in [Callers -> Places] /\ calls \in [Callers -> Seq(Call)]
  BY DEF IInv, Types
<1>1. UNCHANGED <<calls, waitors, index, lost>> /\ seq' \in Nat /\ seq <= seq'
      /\ (Advance(c, "regist") \/ (Advance(c, "create") /\ seq' = seq + 1))
  BY <1>t DEF Regist, CreateSeq
<1>2. /\ pc[c] \in {"regist", "create"} /\ pc'[c] \in {"create", "load"}
      /\ pc'[c] = "load" => seq' = seq + 1
      /\ pc' \in [Callers -> Places]
      /\ \A d \in Callers : d # c => pc'[d] = pc[d]
  <2>1. /\ "regist" \in Places /\ After("regist") = "create"
        /\ "create" \in Places /\ After("create") = "load"
    BY DEF Places, After
  <2> QED BY <1>1, <1>t, <2>1, AdvanceType
<1>3. Types'
  <2>1. callbacks' \in [Paths -> {None} \cup (Callers \X Nat)]
    <3>1. callbacks \in [Paths -> {None} \cup (Callers \X Nat)] /\ <<c, Len(calls[c])>> \in Callers \X Nat
      BY <1>t DEF IInv, Types
    <3> QED BY <3>1 DEF Regist, CreateSeq, Last
  <2> QED BY <1>1, <1>2, <2>1 DEF IInv, Types
<1>4. \A d \in Callers : \A k \in 1..Len(calls[d]) : Assigned(d, k)' <=> Assigned(d, k)
  BY <1>1, <1>2 DEF Assigned
<1>5. IdInv'
  <2> SUFFICES ASSUME NEW d \in Callers
               PROVE  /\ pc'[d] # "idle" => Len(calls[d]) >= 1
                      /\ \A k \in 1..Len(calls[d]) : Assigned(d, k) => calls[d][k].id <= seq'
                      /\ \A j, k \in 1..Len(calls[d]) :
                           j < k /\ Assigned(d, k) => calls[d][j].id < calls[d][k].id
                      /\ pc'[d] = "load" => \A j \in 1..Len(calls[d]) - 1 : calls[d][j].id < seq'
    BY <1>1, <1>4 DEF IdInv
  <2>1. Len(calls[d]) \in Nat /\ \A k \in 1..Len(calls[d]) : calls[d][k].id \in Nat
    BY <1>t, CallFields
  <2>2. pc'[d] # "idle" => Len(calls[d]) >= 1
    BY <1>2 DEF IInv, IdInv
  <2>3. ASSUME NEW k \in 1..Len(calls[d]), Assigned(d, k)
        PROVE  calls[d][k].id <= seq'
    <3>1. calls[d][k].id <= seq
      BY <2>3 DEF IInv, IdInv
    <3> QED BY <3>1, <2>1, <1>1, <1>t
  <2>4. ASSUME pc'[d] = "load", NEW j \in 1..Len(calls[d]) - 1
        PROVE  calls[d][j].id < seq'
    <3>1. Assigned(d, j) /\ j \in 1..Len(calls[d])
      BY <2>1 DEF Assigned
    <3>2. calls[d][j].id <= seq
      BY <3>1 DEF IInv, IdInv
    <3>3. CASE d = c
      BY <3>1, <3>2, <3>3, <2>1, <2>4, <1>2, <1>t
    <3>4. CASE d # c
      <4>1. calls[d][j].id < seq
        BY <3>4, <2>4, <1>2 DEF IInv, IdInv
      <4> QED BY <4>1, <3>1, <2>1, <1>1, <1>t
    <3> QED BY <3>3, <3>4
  <2> QED BY <2>2, <2>3, <2>4 DEF IInv, IdInv
<1>6. SentInv' /\ WaiterInv' /\ AnswerInv'
  BY <1>1, <1>2, <1>4 DEF IInv, SentInv, WaiterInv, AnswerInv
<1> QED BY <1>3, <1>5, <1>6 DEF IInv

(* The counter is read: the id of the new call is above those before it.   *)
LEMMA CallerLoads ==
  ASSUME IInv, NEW c \in Callers, CreateLoad(c)
  PROVE  IInv'
<1> DEFINE n == Len(calls[c])
<1> DEFINE x == [calls[c][n] EXCEPT !.id = seq]
<1>t. seq \in Nat /\ pc \in [Callers -> Places] /\ calls \in [Callers -> Seq(Call)]
  BY DEF IInv, Types
<1>1. UNCHANGED <<seq, callbacks, waitors, index, lost>> /\ Advance(c, "load") /\ With(c, n, x)
  BY DEF CreateLoad, Last, Now
<1>2. /\ pc[c] = "load" /\ pc'[c] = "csend" /\ pc' \in [Callers -> Places]
      /\ \A d \in Callers : d # c => pc'[d] = pc[d]
  <2>1. "load" \in Places /\ After("load") = "csend"
    BY DEF Places, After
  <2> QED BY <1>1, <1>t, <2>1, AdvanceType
<1>3. n \in 1..Len(calls[c]) /\ calls[c][n] \in Call
  BY <1>2, <1>t, CallFields DEF IInv, IdInv
<1>4. /\ x \in Call /\ x.id = seq /\ x.at = calls[c][n].at /\ x.found = calls[c][n].found
      /\ x.status = calls[c][n].status
  BY <1>3, <1>t DEF Call
<1> HIDE DEF x
<1>5. /\ calls' \in [Callers -> Seq(Call)] /\ calls'[c][n] = x
      /\ \A d \in Callers : Len(calls'[d]) = Len(calls[d])
      /\ \A d \in Callers : \A j \in 1..Len(calls[d]) :
           d # c \/ j # n => calls'[d][j] = calls[d][j]
  BY <1>1, <1>3, <1>4, <1>t, WithType
<1>6. Types'
  BY <1>1, <1>2, <1>5 DEF IInv, Types
<1>7. \A d \in Callers : \A k \in 1..Len(calls[d]) :
        /\ d # c => (Assigned(d, k)' <=> Assigned(d, k))
        /\ d = c => (Assigned(d, k) <=> k # n)
  BY <1>2, <1>3, <1>5 DEF Assigned
<1>8. \A j \in 1..n : j # n => calls[c][j].id < seq
  <2> SUFFICES ASSUME NEW j \in 1..n, j # n
               PROVE  calls[c][j].id < seq
    OBVIOUS
  <2>1. j \in 1..Len(calls[c]) - 1
    BY <1>3
  <2> QED BY <2>1, <1>2 DEF IInv, IdInv
<1>9. IdInv'
  <2> SUFFICES ASSUME NEW d \in Callers
               PROVE  /\ pc'[d] # "idle" => Len(calls'[d]) >= 1
                      /\ \A k \in 1..Len(calls'[d]) : Assigned(d, k)' => calls'[d][k].id <= seq'
                      /\ \A j, k \in 1..Len(calls'[d]) :
                           j < k /\ Assigned(d, k)' => calls'[d][j].id < calls'[d][k].id
                      /\ pc'[d] = "load" => \A j \in 1..Len(calls'[d]) - 1 : calls'[d][j].id < seq'
    BY DEF IdInv
  <2>1. CASE d = c
    <3>1. Len(calls'[c]) = n /\ n >= 1 /\ n \in Nat /\ pc'[c] # "load" /\ seq' = seq
      BY <1>1, <1>2, <1>3, <1>5
    <3>2. ASSUME NEW k \in 1..n
          PROVE  calls'[c][k].id <= seq
      <4>1. CASE k = n
        BY <4>1, <1>4, <1>5, <1>t
      <4>2. CASE k # n
        <5>1. calls'[c][k].id = calls[c][k].id /\ calls[c][k].id < seq /\ calls[c][k].id \in Nat
          BY <4>2, <1>5, <1>8, <1>t, CallFields
        <5> QED BY <5>1, <1>t
      <4> HIDE DEF n
      <4> QED BY <4>1, <4>2
    <3>3. ASSUME NEW j \in 1..n, NEW k \in 1..n, j < k
          PROVE  calls'[c][j].id < calls'[c][k].id
      <4>1. j # n /\ calls'[c][j] = calls[c][j]
        <5>1. \A m \in 1..n : m # n => calls'[c][m] = calls[c][m]
          BY <1>5
        <5> HIDE DEF n
        <5>2. n \in Nat
          BY <3>1
        <5>3. j # n
          BY <5>2, <3>3
        <5> QED BY <5>1, <5>3
      <4>2. CASE k = n
        BY <4>1, <4>2, <1>4, <1>5, <1>8
      <4>3. CASE k # n
        <5>1. calls'[c][k] = calls[c][k] /\ Assigned(c, k)
          BY <4>3, <1>5, <1>7
        <5> QED BY <3>3, <4>1, <5>1 DEF IInv, IdInv
      <4> QED BY <4>2, <4>3
    <3> HIDE DEF n
    <3> QED BY <2>1, <3>1, <3>2, <3>3
  <2>2. CASE d # c
    <3>1. /\ pc'[d] = pc[d] /\ Len(calls'[d]) = Len(calls[d]) /\ seq' = seq /\ Len(calls[d]) \in Nat
          /\ \A k \in 1..Len(calls[d]) : calls'[d][k] = calls[d][k]
          /\ \A k \in 1..Len(calls[d]) : Assigned(d, k)' <=> Assigned(d, k)
      BY <2>2, <1>1, <1>2, <1>5, <1>7, <1>t, CallFields
    <3>2. \A k \in 1..Len(calls[d]) - 1 : k \in 1..Len(calls[d])
      BY <3>1
    <3> QED BY <3>1, <3>2 DEF IInv, IdInv
  <2> QED BY <2>1, <2>2
<1>10. SentInv'
  <2> SUFFICES ASSUME NEW d \in Callers, pc'[d] \in {"regist", "create", "load", "csend"}
               PROVE  calls'[d][Len(calls'[d])].at = "invoke"
    BY DEF SentInv
  <2>1. CASE d = c
    BY <2>1, <1>2, <1>4, <1>5 DEF IInv, SentInv
  <2>2. CASE d # c
    <3>1. Len(calls[d]) \in 1..Len(calls[d]) /\ pc[d] = pc'[d]
      BY <2>2, <1>2, <1>t, CallFields DEF IInv, IdInv
    <3> QED BY <2>2, <3>1, <1>5 DEF IInv, SentInv
  <2> QED BY <2>1, <2>2
<1>11. WaiterInv'
  <2> SUFFICES ASSUME NEW d \in Callers, NEW l \in LaneIds, NEW w \in waitors[d][l]
               PROVE  w[2] \in 1..Len(calls'[d]) /\ Assigned(d, w[2])' /\ calls'[d][w[2]].id = w[1]
    BY <1>1 DEF WaiterInv
  <2>1. w[2] \in 1..Len(calls[d]) /\ Assigned(d, w[2]) /\ calls[d][w[2]].id = w[1]
    BY DEF IInv, WaiterInv
  <2>2. d = c => Assigned(d, w[2])'
    BY <1>2 DEF Assigned
  <2> QED BY <2>1, <2>2, <1>5, <1>7
<1>12. AnswerInv'
  <2> SUFFICES ASSUME NEW d \in Callers, NEW k \in 1..Len(calls[d])
               PROVE  /\ calls'[d][k].found \in {NoCall, k}
                      /\ calls'[d][k].status = "succeed" =>
                           calls'[d][k].at = "done" /\ calls'[d][k].found = k
    BY <1>5 DEF AnswerInv
  <2>1. /\ calls'[d][k].found = calls[d][k].found /\ calls'[d][k].at = calls[d][k].at
        /\ calls'[d][k].status = calls[d][k].status
    BY <1>4, <1>5
  <2> QED BY <2>1 DEF IInv, AnswerInv
<1> QED BY <1>6, <1>9, <1>10, <1>11, <1>12 DEF IInv

(* Once a caller has its message id, its next steps change no id.          *)
LEMMA CallerSends ==
  ASSUME IInv, NEW c \in Callers, NEW x \in Call, With(c, Len(calls[c]), x),
         \/ Advance(c, "csend") /\ x = [calls[c][Len(calls[c])] EXCEPT !.at = "sent"]
         \/ Advance(c, "waiter") /\ x = [calls[c][Len(calls[c])] EXCEPT !.status = "waiting"],
         seq' = seq
  PROVE  /\ pc' \in [Callers -> Places] /\ calls' \in [Callers -> Seq(Call)]
         /\ IdInv' /\ SentInv' /\ AnswerInv'
         /\ Len(calls[c]) \in 1..Len(calls[c]) /\ Assigned(c, Len(calls[c]))
         /\ \A d \in Callers : Len(calls'[d]) = Len(calls[d])
         /\ \A d \in Callers : \A k \in 1..Len(calls[d]) :
              /\ Assigned(d, k)' <=> Assigned(d, k)
              /\ calls'[d][k].id = calls[d][k].id
<1> DEFINE n == Len(calls[c])
<1>t. pc \in [Callers -> Places] /\ calls \in [Callers -> Seq(Call)]
  BY DEF IInv, Types
<1>1. /\ pc[c] \in {"csend", "waiter"} /\ pc'[c] \in {"waiter", "idle"}
      /\ pc' \in [Callers -> Places]
      /\ \A d \in Callers : d # c => pc'[d] = pc[d]
      /\ Advance(c, "csend") => pc[c] = "csend"
  <2>1. /\ "csend" \in Places /\ After("csend") = "waiter"
        /\ "waiter" \in Places /\ After("waiter") = "idle"
    BY DEF Places, After
  <2>2. CASE Advance(c, "csend")
    BY <2>1, <2>2, <1>t, AdvanceType
  <2>3. CASE Advance(c, "waiter")
    <3>1. pc[c] = "waiter"
      BY <2>1, <2>3, <1>t, AdvanceType
    <3>2. ~Advance(c, "csend")
      BY <3>1 DEF Advance
    <3> QED BY <2>1, <2>3, <3>1, <3>2, <1>t, AdvanceType
  <2> QED BY <2>2, <2>3
<1>2. n \in 1..Len(calls[c]) /\ calls[c][n] \in Call
  BY <1>1, <1>t, CallFields DEF IInv, IdInv
<1>3. /\ calls' \in [Callers -> Seq(Call)] /\ calls'[c][n] = x
      /\ \A d \in Callers : Len(calls'[d]) = Len(calls[d])
      /\ \A d \in Callers : \A j \in 1..Len(calls[d]) :
           d # c \/ j # n => calls'[d][j] = calls[d][j]
  BY <1>2, <1>t, WithType
<1>4. /\ x.id = calls[c][n].id /\ x.found = calls[c][n].found
      /\ x.status = "succeed" => x.at = calls[c][n].at /\ calls[c][n].status = "succeed"
  <2>1. CASE x = [calls[c][n] EXCEPT !.at = "sent"] /\ Advance(c, "csend")
    <3>1. x.id = calls[c][n].id /\ x.found = calls[c][n].found /\ x.status = calls[c][n].status
      BY <2>1, <1>2 DEF Call
    <3>2. calls[c][n].at = "invoke"
      BY <2>1, <1>1 DEF IInv, SentInv
    <3>3. calls[c][n].status # "succeed"
      BY <3>2, <1>2 DEF IInv, AnswerInv
    <3> QED BY <3>1, <3>3
  <2>2. CASE x = [calls[c][n] EXCEPT !.status = "waiting"]
    BY <2>2, <1>2 DEF Call
  <2> QED BY <2>1, <2>2
<1>5. \A d \in Callers : \A k \in 1..Len(calls[d]) :
        (Assigned(d, k)' <=> Assigned(d, k)) /\ calls'[d][k].id = calls[d][k].id
  <2> SUFFICES ASSUME NEW d \in Callers, NEW k \in 1..Len(calls[d])
               PROVE  (Assigned(d, k)' <=> Assigned(d, k)) /\ calls'[d][k].id = calls[d][k].id
    OBVIOUS
  <2>1. Assigned(d, k)' <=> Assigned(d, k)
    <3>1. CASE d = c
      BY <3>1, <1>1 DEF Assigned
    <3>2. CASE d # c
      BY <3>2, <1>1, <1>3 DEF Assigned
    <3> QED BY <3>1, <3>2
  <2>2. calls'[d][k].id = calls[d][k].id
    BY <1>3, <1>4
  <2> QED BY <2>1, <2>2
<1>6. IdInv'
  <2> SUFFICES ASSUME NEW d \in Callers
               PROVE  /\ pc'[d] # "idle" => Len(calls[d]) >= 1
                      /\ \A k \in 1..Len(calls[d]) : Assigned(d, k) => calls[d][k].id <= seq
                      /\ \A j, k \in 1..Len(calls[d]) :
                           j < k /\ Assigned(d, k) => calls[d][j].id < calls[d][k].id
                      /\ pc'[d] = "load" => \A j \in 1..Len(calls[d]) - 1 : calls'[d][j].id < seq
    BY <1>3, <1>5 DEF IdInv
  <2>1. pc'[d] # "idle" => pc[d] # "idle"
    BY <1>1
  <2>2. ASSUME pc'[d] = "load", NEW j \in 1..Len(calls[d]) - 1
        PROVE  calls'[d][j].id < seq
    <3>1. pc[d] = "load" /\ j \in 1..Len(calls[d])
      BY <2>2, <1>1, <1>t, CallFields
    <3> QED BY <3>1, <1>5 DEF IInv, IdInv
  <2> QED BY <2>1, <2>2 DEF IInv, IdInv
<1>7. SentInv'
  <2> SUFFICES ASSUME NEW d \in Callers, pc'[d] \in {"regist", "create", "load", "csend"}
               PROVE  calls'[d][Len(calls'[d])].at = "invoke"
    BY DEF SentInv
  <2>1. d # c /\ pc[d] = pc'[d]
    BY <1>1
  <2>2. Len(calls[d]) \in 1..Len(calls[d])
    BY <2>1, <1>t, CallFields DEF IInv, IdInv
  <2> QED BY <2>1, <2>2, <1>3 DEF IInv, SentInv
<1>8. AnswerInv'
  <2> SUFFICES ASSUME NEW d \in Callers, NEW k \in 1..Len(calls[d])
               PROVE  /\ calls'[d][k].found \in {NoCall, k}
                      /\ calls'[d][k].status = "succeed" =>
                           calls'[d][k].at = "done" /\ calls'[d][k].found = k
    BY <1>3 DEF AnswerInv
  <2>1. CASE d = c /\ k = n
    BY <2>1, <1>2, <1>3, <1>4 DEF IInv, AnswerInv
  <2>2. CASE d # c \/ k # n
    BY <2>2, <1>3 DEF IInv, AnswerInv
  <2> QED BY <2>1, <2>2
<1>9. Assigned(c, n)
  BY <1>1 DEF Assigned
<1> QED BY <1>1, <1>2, <1>3, <1>5, <1>6, <1>7, <1>8, <1>9

LEMMA MessageLeaves ==
  ASSUME IInv, NEW c \in Callers, CSend(c)
  PROVE  IInv'
<1> DEFINE x == [calls[c][Len(calls[c])] EXCEPT !.at = "sent"]
<1>1. UNCHANGED <<seq, callbacks, waitors, index, lost>> /\ Advance(c, "csend") /\ With(c, Len(calls[c]), x)
  BY DEF CSend, Last, Now
<1>2. x \in Call
  <2>1. pc[c] = "csend"
    BY <1>1 DEF Advance
  <2>2. calls \in [Callers -> Seq(Call)] /\ Len(calls[c]) >= 1
    BY <2>1 DEF IInv, IdInv, Types
  <2>3. Len(calls[c]) \in 1..Len(calls[c])
    BY <2>2, CallFields
  <2>4. calls[c][Len(calls[c])] \in Call
    BY <2>2, <2>3, CallFields
  <2> QED BY <2>4 DEF Call
<1>3. /\ pc' \in [Callers -> Places] /\ calls' \in [Callers -> Seq(Call)]
      /\ IdInv' /\ SentInv' /\ AnswerInv'
      /\ \A d \in Callers : Len(calls'[d]) = Len(calls[d])
      /\ \A d \in Callers : \A k \in 1..Len(calls[d]) :
           (Assigned(d, k)' <=> Assigned(d, k)) /\ calls'[d][k].id = calls[d][k].id
  <2> HIDE DEF IdInv, SentInv, AnswerInv
  <2> QED BY <1>1, <1>2, CallerSends
<1>4. Types'
  BY <1>1, <1>3 DEF IInv, Types
<1>5. WaiterInv'
  <2> SUFFICES ASSUME NEW d \in Callers, NEW l \in LaneIds, NEW w \in waitors[d][l]
               PROVE  w[2] \in 1..Len(calls'[d]) /\ Assigned(d, w[2])' /\ calls'[d][w[2]].id = w[1]
    BY <1>1 DEF WaiterInv
  <2>1. w[2] \in 1..Len(calls[d]) /\ Assigned(d, w[2]) /\ calls[d][w[2]].id = w[1]
    BY DEF IInv, WaiterInv
  <2> QED BY <2>1, <1>3
<1> QED BY <1>3, <1>4, <1>5 DEF IInv

LEMMA WaiterIsFiled ==
  ASSUME IInv, NEW c \in Callers, CrateWaiter(c)
  PROVE  IInv'
<1> DEFINE n == Len(calls[c])
<1> DEFINE call == calls[c][n]
<1> DEFINE x == [call EXCEPT !.status = "waiting"]
<1> DEFINE filed == {w \in waitors[c][call.lane] : w[1] # call.id} \cup {<<call.id, n>>}
<1>1. /\ UNCHANGED <<seq, callbacks, index, lost>> /\ Advance(c, "waiter") /\ With(c, n, x)
      /\ waitors' = [waitors EXCEPT ![c][call.lane] = filed]
  BY DEF CrateWaiter, Last, Now, Waiting
<1>2. call \in Call /\ n \in Nat
  <2>1. pc[c] = "waiter"
    BY <1>1 DEF Advance
  <2>2. calls \in [Callers -> Seq(Call)] /\ Len(calls[c]) >= 1
    BY <2>1 DEF IInv, IdInv, Types
  <2>3. Len(calls[c]) \in 1..Len(calls[c])
    BY <2>2, CallFields
  <2> QED BY <2>2, <2>3, CallFields
<1>3. x \in Call /\ call.id \in Nat /\ call.lane \in LaneIds
  BY <1>2 DEF Call
<1>4. /\ pc' \in [Callers -> Places] /\ calls' \in [Callers -> Seq(Call)]
      /\ IdInv' /\ SentInv' /\ AnswerInv'
      /\ n \in 1..Len(calls[c]) /\ Assigned(c, n)
      /\ \A d \in Callers : Len(calls'[d]) = Len(calls[d])
      /\ \A d \in Callers : \A k \in 1..Len(calls[d]) :
           (Assigned(d, k)' <=> Assigned(d, k)) /\ calls'[d][k].id = calls[d][k].id
  BY <1>1, <1>3, CallerSends
<1>5. /\ waitors' \in [Callers -> [LaneIds -> SUBSET (Nat \X Nat)]]
      /\ \A d \in Callers : \A l \in LaneIds : \A w \in waitors'[d][l] :
           w \in waitors[d][l] \/ (d = c /\ w = <<call.id, n>>)
  <2>1. filed \in SUBSET (Nat \X Nat) /\ waitors \in [Callers -> [LaneIds -> SUBSET (Nat \X Nat)]]
    BY <1>2, <1>3 DEF IInv, Types
  <2>2. \A w \in filed : w \in waitors[c][call.lane] \/ w = <<call.id, n>>
    OBVIOUS
  <2> HIDE DEF filed, call, n
  <2> QED BY <1>1, <1>3, <2>1, <2>2
<1>6. Types'
  BY <1>1, <1>4, <1>5 DEF IInv, Types
<1>7. WaiterInv'
  <2> SUFFICES ASSUME NEW d \in Callers, NEW l \in LaneIds, NEW w \in waitors'[d][l]
               PROVE  w[2] \in 1..Len(calls'[d]) /\ Assigned(d, w[2])' /\ calls'[d][w[2]].id = w[1]
    BY DEF WaiterInv
  <2>1. w[2] \in 1..Len(calls[d]) /\ Assigned(d, w[2]) /\ calls[d][w[2]].id = w[1]
    <3>1. CASE w \in waitors[d][l]
      BY <3>1 DEF IInv, WaiterInv
    <3>2. CASE d = c /\ w = <<call.id, n>>
      BY <3>2, <1>4
    <3> QED BY <3>1, <3>2, <1>5
  <2> QED BY <2>1, <1>4
<1> QED BY <1>4, <1>6, <1>7 DEF IInv
-----------------------------------------------------------------------------
(* The thread of an answer, until it notifies, changes its own call.       *)
LEMMA AnswerMoves ==
  ASSUME IInv, NEW c \in Callers, NEW k \in 1..Len(calls[c]), NEW x \in Call, With(c, k, x),
         UNCHANGED <<seq, callbacks, index, pc, waitors>>, lost' \subseteq Callers \X LaneIds,
         calls[c][k].at # "invoke", x.id = calls[c][k].id, x.found \in {NoCall, k},
         x.status # "succeed"
  PROVE  IInv'
<1>1. /\ calls' \in [Callers -> Seq(Call)] /\ calls'[c][k] = x
      /\ \A d \in Callers : Len(calls'[d]) = Len(calls[d])
      /\ \A d \in Callers : \A j \in 1..Len(calls[d]) :
           d # c \/ j # k => calls'[d][j] = calls[d][j]
  BY WithType DEF IInv, Types
<1>2. \A d \in Callers : \A j \in 1..Len(calls[d]) :
        /\ calls'[d][j].id = calls[d][j].id
        /\ calls[d][j].at = "invoke" => calls'[d][j].at = "invoke"
  BY <1>1
<1>3. Types' /\ IdInv' /\ SentInv' /\ WaiterInv'
  BY <1>1, <1>2, AnswerKeepsIds
<1>4. AnswerInv'
  <2> SUFFICES ASSUME NEW d \in Callers, NEW j \in 1..Len(calls[d])
               PROVE  /\ calls'[d][j].found \in {NoCall, j}
                      /\ calls'[d][j].status = "succeed" =>
                           calls'[d][j].at = "done" /\ calls'[d][j].found = j
    BY <1>1 DEF AnswerInv
  <2>1. CASE d = c /\ j = k
    BY <2>1, <1>1
  <2>2. CASE d # c \/ j # k
    BY <2>2, <1>1 DEF IInv, AnswerInv
  <2> QED BY <2>1, <2>2
<1> QED BY <1>3, <1>4 DEF IInv

(* The ids of one caller are distinct, so an answer finds no other's waiter. *)
LEMMA HitsAreOwn ==
  ASSUME IInv, NEW c \in Callers, NEW k \in 1..Len(calls[c]), calls[c][k].at # "invoke",
         NEW l \in LaneIds, NEW w \in waitors[c][l], w[1] = calls[c][k].id
  PROVE  w[2] = k
<1>1. w[2] \in 1..Len(calls[c]) /\ Assigned(c, w[2]) /\ calls[c][w[2]].id = calls[c][k].id
  BY DEF IInv, WaiterInv
<1>2. Len(calls[c]) \in Nat /\ calls[c][k].id \in Nat
  BY CallFields DEF IInv, Types
<1>3. Assigned(c, k)
  <2>1. CASE k = Len(calls[c])
    <3>1. pc[c] \notin {"regist", "create", "load", "csend"}
      BY <2>1 DEF IInv, SentInv
    <3>2. pc[c] \in Places
      BY DEF IInv, Types
    <3> QED BY <3>1, <3>2 DEF Assigned, Places
  <2>2. CASE k # Len(calls[c])
    BY <2>2, <1>2 DEF Assigned
  <2> QED BY <2>1, <2>2
<1>4. ~(w[2] < k)
  <2> SUFFICES ASSUME w[2] < k PROVE FALSE
    OBVIOUS
  <2>1. calls[c][w[2]].id < calls[c][k].id
    BY <1>1, <1>3 DEF IInv, IdInv
  <2> QED BY <2>1, <1>1, <1>2
<1>5. ~(k < w[2])
  <2> SUFFICES ASSUME k < w[2] PROVE FALSE
    OBVIOUS
  <2>1. calls[c][k].id < calls[c][w[2]].id
    BY <1>1 DEF IInv, IdInv
  <2> QED BY <2>1, <1>1, <1>2
<1>6. w[2] \in Int /\ k \in Int
  BY <1>1
<1> HIDE DEF IInv
<1> QED BY <1>4, <1>5, <1>6

LEMMA ServerAnswers ==
  ASSUME IInv, NEW c \in Callers, NEW k \in 1..Len(calls[c]), SAccept(<<c, k>>)
  PROVE  IInv'
<1>0. PICK end \in {"answered", "unanswered"} : With(c, k, [calls[c][k] EXCEPT !.at = end])
  BY DEF SAccept, Answer
<1> DEFINE x == [calls[c][k] EXCEPT !.at = end]
<1>1. /\ calls[c][k].at = "sent" /\ With(c, k, x)
      /\ UNCHANGED <<seq, callbacks, index, pc, waitors, lost>>
  BY <1>0 DEF SAccept, Answer
<1>2. calls[c][k] \in Call
  BY CallFields DEF IInv, Types
<1>3. /\ x \in Call /\ x.id = calls[c][k].id /\ x.found = calls[c][k].found
      /\ x.status = calls[c][k].status
  BY <1>2 DEF Call
<1>4. calls[c][k].found \in {NoCall, k} /\ calls[c][k].status # "succeed"
  BY <1>1 DEF IInv, AnswerInv
<1>5. lost' \subseteq Callers \X LaneIds
  BY <1>1 DEF IInv, Types
<1> HIDE DEF x
<1> QED BY <1>1, <1>3, <1>4, <1>5, AnswerMoves

LEMMA WaiterIsFound ==
  ASSUME IInv, NEW c \in Callers, NEW k \in 1..Len(calls[c]), FindWaiter(<<c, k>>)
  PROVE  IInv'
<1> DEFINE call == calls[c][k]
<1> DEFINE hits == {w[2] : w \in {v \in waitors[c][call.lane] : v[1] = call.id}}
<1>1. PICK f \in hits \cup {NoCall} : With(c, k, [call EXCEPT !.at = "found", !.found = f])
  BY DEF FindWaiter, Answer, Waiting
<1> DEFINE x == [call EXCEPT !.at = "found", !.found = f]
<1>2. call.at = "answered" /\ UNCHANGED <<seq, callbacks, index, pc, waitors, lost>>
  BY DEF FindWaiter, Answer
<1>3. call \in Call /\ call.lane \in LaneIds
  BY CallFields DEF IInv, Types
<1>4. f \in {NoCall, k}
  BY <1>2, <1>3, HitsAreOwn
<1>5. f \in Nat /\ call.status # "succeed"
  BY <1>2, <1>4 DEF IInv, AnswerInv, NoCall
<1>6. x \in Call /\ x.id = call.id /\ x.found = f /\ x.status = call.status
  BY <1>3, <1>5 DEF Call
<1>7. lost' \subseteq Callers \X LaneIds
  BY <1>2 DEF IInv, Types
<1>8. With(c, k, x)
  BY <1>1
<1> HIDE DEF x, hits
<1> QED BY <1>2, <1>4, <1>5, <1>6, <1>7, <1>8, AnswerMoves

LEMMA CallbackRuns ==
  ASSUME IInv, NEW c \in Callers, NEW k \in 1..Len(calls[c]), RunCallback(<<c, k>>)
  PROVE  IInv'
<1> DEFINE call == calls[c][k]
<1>1. /\ call.at = "found" /\ UNCHANGED <<seq, callbacks, index, pc, waitors>>
      /\ lost' \in {lost, lost \cup {<<c, call.lane>>}}
  BY DEF RunCallback, Answer
<1>2. PICK who \in {callbacks[call.path], None} : \E end \in {"nohint", "called", "thrown"} :
        With(c, k, [call EXCEPT !.at = end, !.ran = who])
  BY DEF RunCallback, Answer
<1>9. PICK end \in {"nohint", "called", "thrown"} : With(c, k, [call EXCEPT !.at = end, !.ran = who])
  BY <1>2
<1> DEFINE x == [call EXCEPT !.at = end, !.ran = who]
<1>3. call \in Call /\ call.lane \in LaneIds /\ call.path \in Paths
  BY CallFields DEF IInv, Types
<1>4. who \in {None} \cup (Callers \X Nat)
  BY <1>3 DEF IInv, Types
<1>5. x \in Call /\ x.id = call.id /\ x.found = call.found /\ x.status = call.status
  BY <1>3, <1>4 DEF Call
<1>6. call.found \in {NoCall, k} /\ call.status # "succeed"
  BY <1>1 DEF IInv, AnswerInv
<1>7. lost' \subseteq Callers \X LaneIds
  BY <1>1, <1>3 DEF IInv, Types
<1>8. With(c, k, x)
  BY <1>9
<1> HIDE DEF x
<1> QED BY <1>1, <1>5, <1>6, <1>7, <1>8, AnswerMoves

LEMMA WaiterIsNotified ==
  ASSUME IInv, NEW c \in Callers, NEW k \in 1..Len(calls[c]), Notify(<<c, k>>)
  PROVE  IInv'
<1> DEFINE call == calls[c][k]
<1> DEFINE x(j) == [calls[c][j] EXCEPT
                      !.status = IF j = call.found
                                 THEN IF call.at = "called" THEN "succeed" ELSE "nohint"
                                 ELSE calls[c][j].status,
                      !.at = IF j = k THEN "done" ELSE calls[c][j].at]
<1>1. /\ call.at \in {"called", "nohint"}
      /\ UNCHANGED <<seq, callbacks, index, pc, waitors, lost>>
      /\ calls' = [calls EXCEPT ![c] = [j \in DOMAIN calls[c] |-> x(j)]]
  BY DEF Notify, Answer
<1>2. calls \in [Callers -> Seq(Call)] /\ lost' \subseteq Callers \X LaneIds
  BY <1>1 DEF IInv, Types
<1>3. call.found \in {NoCall, k} /\ call.status # "succeed"
  BY <1>1 DEF IInv, AnswerInv
<1>4. \A j \in 1..Len(calls[c]) :
        /\ x(j) \in Call /\ x(j).id = calls[c][j].id /\ x(j).found = calls[c][j].found
        /\ j # k => x(j).at = calls[c][j].at /\ x(j).status = calls[c][j].status
        /\ x(k).at = "done"
        /\ x(k).status = "succeed" => call.found = k
  <2> SUFFICES ASSUME NEW j \in 1..Len(calls[c])
               PROVE  /\ x(j) \in Call /\ x(j).id = calls[c][j].id /\ x(j).found = calls[c][j].found
                      /\ j # k => x(j).at = calls[c][j].at /\ x(j).status = calls[c][j].status
                      /\ x(k).at = "done"
                      /\ x(k).status = "succeed" => call.found = k
    OBVIOUS
  <2>1. calls[c][j] \in Call /\ call \in Call
    BY <1>2, CallFields
  <2>2. x(j) \in Call
    <3> DEFINE st == IF j = call.found
                     THEN IF call.at = "called" THEN "succeed" ELSE "nohint"
                     ELSE calls[c][j].status
    <3> DEFINE at == IF j = k THEN "done" ELSE calls[c][j].at
    <3>1. st \in {"unborn", "waiting", "succeed", "nohint"}
      BY <2>1 DEF Call
    <3>2. at \in {"invoke", "sent", "answered", "unanswered", "found", "called", "thrown", "nohint", "done"}
      BY <2>1 DEF Call
    <3>3. x(j) = [calls[c][j] EXCEPT !.status = st, !.at = at]
      OBVIOUS
    <3> HIDE DEF st, at, x
    <3> QED BY <2>1, <3>1, <3>2, <3>3 DEF Call
  <2>3. x(j).id = calls[c][j].id /\ x(j).found = calls[c][j].found
    BY <2>1 DEF Call
  <2>4. j # k => x(j).at = calls[c][j].at /\ x(j).status = calls[c][j].status
    <3>1. j # k => j # call.found
      BY <1>3 DEF NoCall
    <3> QED BY <2>1, <3>1 DEF Call
  <2>5. x(k).at = "done" /\ (x(k).status = "succeed" => call.found = k)
    BY <2>1, <1>3 DEF Call
  <2> QED BY <2>2, <2>3, <2>4, <2>5
<1> HIDE DEF x
<1>5. /\ calls' \in [Callers -> Seq(Call)]
      /\ \A d \in Callers : Len(calls'[d]) = Len(calls[d])
      /\ \A d \in Callers : d # c => calls'[d] = calls[d]
      /\ \A j \in 1..Len(calls[c]) : calls'[c][j] = x(j)
  <2>1. calls[c] \in Seq(Call) /\ DOMAIN calls[c] = 1..Len(calls[c]) /\ Len(calls[c]) \in Nat
    BY <1>2
  <2> DEFINE s == [j \in 1..Len(calls[c]) |-> x(j)]
  <2>2. s \in Seq(Call) /\ Len(s) = Len(calls[c])
    BY <1>4, <2>1
  <2>3. calls' = [calls EXCEPT ![c] = s]
    BY <1>1, <2>1
  <2>4. \A j \in 1..Len(calls[c]) : s[j] = x(j)
    OBVIOUS
  <2> HIDE DEF s
  <2> QED BY <1>2, <2>2, <2>3, <2>4
<1>6. \A d \in Callers : \A j \in 1..Len(calls[d]) :
        /\ calls'[d][j].id = calls[d][j].id
        /\ calls[d][j].at = "invoke" => calls'[d][j].at = "invoke"
  BY <1>1, <1>4, <1>5
<1>7. Types' /\ IdInv' /\ SentInv' /\ WaiterInv'
  BY <1>1, <1>2, <1>5, <1>6, AnswerKeepsIds
<1>8. AnswerInv'
  <2> SUFFICES ASSUME NEW d \in Callers, NEW j \in 1..Len(calls[d])
               PROVE  /\ calls'[d][j].found \in {NoCall, j}
                      /\ calls'[d][j].status = "succeed" =>
                           calls'[d][j].at = "done" /\ calls'[d][j].found = j
    BY <1>5 DEF AnswerInv
  <2>1. CASE d = c /\ j = k
    BY <2>1, <1>3, <1>4, <1>5
  <2>2. CASE d = c /\ j # k
    BY <2>2, <1>4, <1>5 DEF IInv, AnswerInv
  <2>3. CASE d # c
    BY <2>3, <1>5 DEF IInv, AnswerInv
  <2> QED BY <2>1, <2>2, <2>3
<1> QED BY <1>7, <1>8 DEF IInv
-----------------------------------------------------------------------------
LEMMA InitIInv == Init => IInv
<1> SUFFICES ASSUME Init PROVE IInv
  OBVIOUS
<1>1. /\ \A c \in Callers : calls[c] = <<>> /\ pc[c] = "idle"
      /\ \A c \in Callers : \A l \in LaneIds : waitors[c][l] = {}
      /\ Len(<<>>) = 0
  BY DEF Init
<1>2. Types
  <2>1. calls \in [Callers -> Seq(Call)]
    <3>1. <<>> \in Seq(Call)
      OBVIOUS
    <3> QED BY <3>1 DEF Init
  <2>2. index \in [Callers -> 0..Lanes] /\ seq \in Nat /\ pc \in [Callers -> Places]
    BY InvocationAssumption DEF Init, Places
  <2>3. waitors \in [Callers -> [LaneIds -> SUBSET (Nat \X Nat)]] /\ lost \subseteq Callers \X LaneIds
    BY DEF Init
  <2>4. callbacks \in [Paths -> {None} \cup (Callers \X Nat)]
    BY DEF Init
  <2> QED BY <2>1, <2>2, <2>3, <2>4 DEF Types
<1>3. IdInv
  <2>1. ASSUME NEW c \in Callers
        PROVE  1..Len(calls[c]) = {}
    <3>1. Len(calls[c]) = 0
      BY <1>1
    <3> QED BY <3>1
  <2>2. \A c \in Callers : pc[c] = "idle"
    BY <1>1
  <2> QED BY <2>1, <2>2 DEF IdInv
<1>4. SentInv /\ WaiterInv
  BY <1>1 DEF SentInv, WaiterInv
<1>5. AnswerInv
  <2>1. ASSUME NEW c \in Callers
        PROVE  1..Len(calls[c]) = {}
    <3>1. Len(calls[c]) = 0
      BY <1>1
    <3> QED BY <3>1
  <2> QED BY <2>1 DEF AnswerInv
<1> QED BY <1>2, <1>3, <1>4, <1>5 DEF IInv

LEMMA NextIInv == IInv /\ [Next]_vars => IInv'
<1> SUFFICES ASSUME IInv, [Next]_vars PROVE IInv'
  OBVIOUS
<1>1. CASE \E c \in Callers, path \in Paths : Invoke(c, path)
  BY <1>1, InvokeStart
<1>2. CASE \E c \in Callers : InvokeStep(c)
  BY <1>2, CallerMoves, CallerLoads, MessageLeaves, WaiterIsFiled DEF InvokeStep
<1>3. CASE \E i \in Ids : AnswerStep(i)
  <2>1. PICK c \in Callers : \E k \in 1..Len(calls[c]) : AnswerStep(<<c, k>>)
    BY <1>3 DEF Ids
  <2>2. PICK k \in 1..Len(calls[c]) : AnswerStep(<<c, k>>)
    BY <2>1
  <2> QED BY <2>2, ServerAnswers, WaiterIsFound, CallbackRuns, WaiterIsNotified DEF AnswerStep
<1>4. CASE UNCHANGED vars
  BY <1>4 DEF vars, IInv, Types, IdInv, SentInv, WaiterInv, AnswerInv, Assigned
<1> QED BY <1>1, <1>2, <1>3, <1>4 DEF Next

(* The inductive invariant holds in every state of the program.            *)
THEOREM Invariance == Spec => []IInv
BY InitIInv, NextIInv, PTL DEF Spec

(* Every variable has its type, and every waiter is of a call made.        *)
THEOREM TypeCorrect == Spec => []TypeOK
<1>1. IInv => TypeOK
  BY DEF IInv, Types, WaiterInv, TypeOK, Places
<1> QED BY <1>1, Invariance, PTL

(* A wait that ends well has the answer (caccept): a waiter is told        *)
(* succeed only when the callback has returned from the answer to that     *)
(* same call, however the callers' message ids collide.                    *)
THEOREM SucceedHasItsAnswer == Spec => []SucceedIsAnswered
<1>1. IInv => SucceedIsAnswered
  <2> SUFFICES ASSUME IInv, NEW c \in Callers, NEW k \in 1..Len(calls[c]),
                      calls[c][k].status = "succeed"
               PROVE  calls[c][k].at = "done" /\ calls[c][k].found = k
    BY DEF SucceedIsAnswered, Ids, Answer
  <2> QED BY DEF IInv, AnswerInv
<1> QED BY <1>1, Invariance, PTL
-----------------------------------------------------------------------------
(* The path of a call is inserted before its message is built, and is      *)
(* never taken out again.                                                  *)
CallbackInv ==
  \A c \in Callers : \A k \in 1..Len(calls[c]) :
    callbacks[calls[c][k].path] # None \/ (k = Len(calls[c]) /\ pc[c] = "regist")

(* What With leaves alone, whatever the new call is. *)
LEMMA WithKeeps ==
  ASSUME calls \in [Callers -> Seq(Call)], NEW c \in Callers,
         NEW k \in 1..Len(calls[c]), NEW x, With(c, k, x)
  PROVE  /\ \A d \in Callers : Len(calls'[d]) = Len(calls[d])
         /\ calls'[c][k] = x
         /\ \A d \in Callers : \A j \in 1..Len(calls[d]) :
              d # c \/ j # k => calls'[d][j] = calls[d][j]
<1>1. calls' = [calls EXCEPT ![c] = [calls[c] EXCEPT ![k] = x]]
  BY DEF With
<1>2. /\ calls[c] \in Seq(Call)
      /\ calls'[c] = [calls[c] EXCEPT ![k] = x] /\ \A d \in Callers : d # c => calls'[d] = calls[d]
  BY <1>1
<1>3. Len([calls[c] EXCEPT ![k] = x]) = Len(calls[c]) /\ [calls[c] EXCEPT ![k] = x][k] = x
      /\ \A j \in 1..Len(calls[c]) : j # k => [calls[c] EXCEPT ![k] = x][j] = calls[c][j]
  BY <1>2
<1> QED BY <1>2, <1>3

(* No step takes a call away or changes its path, its lane or, once it is  *)
(* sent, its id; and each thing that may happen to it is of one action.    *)
Keeps(d, j) ==
  /\ Len(calls[d]) <= Len(calls'[d])
  /\ calls'[d][j].path = calls[d][j].path /\ calls'[d][j].lane = calls[d][j].lane
  /\ calls[d][j].at # "invoke" => calls'[d][j].at # "invoke" /\ calls'[d][j].id = calls[d][j].id
  /\ calls[d][j].at = "invoke" /\ calls'[d][j].at # "invoke" => CSend(d) /\ j = Len(calls[d])
  /\ calls[d][j].at = "answered" /\ calls'[d][j].at = "found" => FindWaiter(<<d, j>>)
  /\ calls[d][j].at # "nohint" /\ calls'[d][j].at = "nohint" => RunCallback(<<d, j>>)
  /\ calls'[d][j].ran # calls[d][j].ran => RunCallback(<<d, j>>)

(* The steps of a caller that change its last call. *)
LEMMA CallerKeeps ==
  ASSUME IInv, NEW c \in Callers, CreateLoad(c) \/ CSend(c) \/ CrateWaiter(c), NEW d \in Callers
  PROVE  Len(calls'[d]) = Len(calls[d]) /\ \A j \in 1..Len(calls[d]) : Keeps(d, j)
<1>t. calls \in [Callers -> Seq(Call)]
  BY DEF IInv, Types
<1> DEFINE n == Len(calls[c])
<1>1. n \in 1..Len(calls[c]) /\ calls[c][n] \in Call
  <2>1. pc[c] # "idle"
    BY DEF CreateLoad, CSend, CrateWaiter, Advance
  <2> QED BY <1>t, <2>1, CallFields DEF IInv, IdInv
<1>2. PICK x : /\ With(c, n, x)
               /\ \/ x = [calls[c][n] EXCEPT !.id = seq] /\ pc[c] = "load"
                  \/ x = [calls[c][n] EXCEPT !.at = "sent"] /\ CSend(c) /\ pc[c] = "csend"
                  \/ x = [calls[c][n] EXCEPT !.status = "waiting"]
  BY DEF CreateLoad, CSend, CrateWaiter, Now, Last, Advance
<1>3. /\ x.path = calls[c][n].path /\ x.lane = calls[c][n].lane /\ x.ran = calls[c][n].ran
      /\ x.at # calls[c][n].at => x.at = "sent" /\ CSend(c)
      /\ calls[c][n].at # "invoke" => x.id = calls[c][n].id /\ x.at # "invoke"
  <2>1. pc[c] \in {"load", "csend"} => calls[c][n].at = "invoke"
    BY DEF IInv, SentInv
  <2> HIDE DEF n
  <2> QED BY <1>1, <1>2, <2>1 DEF Call
<1>4. /\ \A e \in Callers : Len(calls'[e]) = Len(calls[e])
      /\ calls'[c][n] = x
      /\ \A e \in Callers : \A i \in 1..Len(calls[e]) : e # c \/ i # n => calls'[e][i] = calls[e][i]
  <2> HIDE DEF n
  <2> QED BY <1>t, <1>1, <1>2, WithKeeps DEF n
<1>5. Len(calls[d]) \in Nat
  BY <1>t
<1> SUFFICES ASSUME NEW j \in 1..Len(calls[d]) PROVE Keeps(d, j)
  BY <1>4
<1>6. CASE d = c /\ j = n
  <2>1. calls'[d][j] = x /\ calls[d][j] = calls[c][n] /\ Len(calls[d]) <= Len(calls'[d])
    BY <1>4, <1>5, <1>6
  <2> QED BY <1>3, <1>6, <2>1 DEF Keeps
<1>7. CASE d # c \/ j # n
  <2>1. calls'[d][j] = calls[d][j] /\ Len(calls[d]) <= Len(calls'[d])
    BY <1>4, <1>5, <1>7
  <2> QED BY <2>1 DEF Keeps
<1> QED BY <1>6, <1>7

LEMMA AnswerKeeps ==
  ASSUME IInv, NEW c \in Callers, NEW k \in 1..Len(calls[c]), AnswerStep(<<c, k>>), NEW d \in Callers
  PROVE  Len(calls'[d]) = Len(calls[d]) /\ \A j \in 1..Len(calls[d]) : Keeps(d, j)
<1>t. calls \in [Callers -> Seq(Call)] /\ Len(calls[d]) \in Nat /\ calls[c][k] \in Call
  BY CallFields DEF IInv, Types
<1>1. ASSUME NEW x, With(c, k, x), calls[c][k].at # "invoke", x.at # "invoke",
             x.path = calls[c][k].path, x.lane = calls[c][k].lane, x.id = calls[c][k].id,
             x.at = "found" => FindWaiter(<<c, k>>),
             x.at = "nohint" \/ x.ran # calls[c][k].ran => RunCallback(<<c, k>>)
      PROVE  Len(calls'[d]) = Len(calls[d]) /\ \A j \in 1..Len(calls[d]) : Keeps(d, j)
  <2>1. /\ \A e \in Callers : Len(calls'[e]) = Len(calls[e])
        /\ calls'[c][k] = x
        /\ \A e \in Callers : \A i \in 1..Len(calls[e]) : e # c \/ i # k => calls'[e][i] = calls[e][i]
    BY <1>1, <1>t, WithKeeps
  <2>2. Len(calls'[d]) = Len(calls[d]) /\ Len(calls[d]) <= Len(calls'[d])
    BY <1>t, <2>1
  <2> SUFFICES ASSUME NEW j \in 1..Len(calls[d]) PROVE Keeps(d, j)
    BY <2>2
  <2>3. CASE d = c /\ j = k
    <3>1. calls'[d][j] = x /\ calls[d][j] = calls[c][k]
      BY <2>1, <2>3
    <3> QED BY <1>1, <2>2, <2>3, <3>1 DEF Keeps
  <2>4. CASE d # c \/ j # k
    <3>1. calls'[d][j] = calls[d][j]
      BY <2>1, <2>4
    <3> QED BY <2>2, <3>1 DEF Keeps
  <2> QED BY <2>3, <2>4
<1>2. CASE SAccept(<<c, k>>)
  <2>0. PICK end \in {"answered", "unanswered"} : With(c, k, [calls[c][k] EXCEPT !.at = end])
    BY <1>2 DEF SAccept, Answer
  <2> DEFINE x == [calls[c][k] EXCEPT !.at = end]
  <2>1. With(c, k, x)
    BY <2>0
  <2>2. /\ x.path = calls[c][k].path /\ x.lane = calls[c][k].lane /\ x.id = calls[c][k].id
        /\ x.at \in {"answered", "unanswered"} /\ x.ran = calls[c][k].ran
    BY <1>t DEF Call
  <2>3. calls[c][k].at = "sent"
    BY <1>2 DEF SAccept, Answer
  <2> HIDE DEF x
  <2> QED BY <1>1, <2>1, <2>2, <2>3
<1>3. CASE FindWaiter(<<c, k>>)
  <2>1. PICK f : With(c, k, [calls[c][k] EXCEPT !.at = "found", !.found = f])
    BY <1>3 DEF FindWaiter, Answer
  <2> DEFINE x == [calls[c][k] EXCEPT !.at = "found", !.found = f]
  <2>2. /\ x.path = calls[c][k].path /\ x.lane = calls[c][k].lane /\ x.id = calls[c][k].id
        /\ x.at = "found" /\ x.ran = calls[c][k].ran
    BY <1>t DEF Call
  <2>3. calls[c][k].at = "answered" /\ With(c, k, x)
    BY <1>3, <2>1 DEF FindWaiter, Answer
  <2> HIDE DEF x
  <2> QED BY <1>1, <1>3, <2>2, <2>3
<1>4. CASE RunCallback(<<c, k>>)
  <2>0. PICK who \in {callbacks[calls[c][k].path], None} : \E end \in {"nohint", "called", "thrown"} :
          With(c, k, [calls[c][k] EXCEPT !.at = end, !.ran = who])
    BY <1>4 DEF RunCallback, Answer
  <2>1. PICK end \in {"nohint", "called", "thrown"} : With(c, k, [calls[c][k] EXCEPT !.at = end, !.ran = who])
    BY <2>0
  <2> DEFINE x == [calls[c][k] EXCEPT !.at = end, !.ran = who]
  <2>2. /\ x.path = calls[c][k].path /\ x.lane = calls[c][k].lane /\ x.id = calls[c][k].id
        /\ x.at \in {"nohint", "called", "thrown"}
    BY <1>t DEF Call
  <2>3. calls[c][k].at = "found" /\ With(c, k, x)
    BY <1>4, <2>1 DEF RunCallback, Answer
  <2> HIDE DEF x
  <2> QED BY <1>1, <1>4, <2>2, <2>3
<1>5. CASE Notify(<<c, k>>)
  <2> DEFINE status(i) == IF i = calls[c][k].found
                          THEN IF calls[c][k].at = "called" THEN "succeed" ELSE "nohint"
                          ELSE calls[c][i].status
             at(i) == IF i = k THEN "done" ELSE calls[c][i].at
             s == [i \in DOMAIN calls[c] |-> [calls[c][i] EXCEPT !.status = status(i), !.at = at(i)]]
  <2>1. calls' = [calls EXCEPT ![c] = s]
    BY <1>5 DEF Notify, Answer
  <2>2. calls[c] \in Seq(Call) /\ DOMAIN calls[c] = 1..Len(calls[c]) /\ Len(calls[c]) \in Nat
    BY <1>t
  <2>3. DOMAIN s = 1..Len(calls[c]) /\ Len(s) = Len(calls[c])
    BY <2>2
  <2> DEFINE Same(i) == /\ s[i].path = calls[c][i].path /\ s[i].lane = calls[c][i].lane
                        /\ s[i].id = calls[c][i].id /\ s[i].ran = calls[c][i].ran
                        /\ s[i].at = calls[c][i].at \/ (s[i].at = "done" /\ calls[c][i].at # "invoke")
  <2>4. \A i \in 1..Len(calls[c]) : Same(i)
    <3> SUFFICES ASSUME NEW i \in 1..Len(calls[c]) PROVE Same(i)
      OBVIOUS
    <3>1. calls[c][i] \in Call
      BY <1>t, CallFields
    <3>2. s[i] = [calls[c][i] EXCEPT !.status = status(i), !.at = at(i)]
      BY <2>2
    <3>3. at(i) = calls[c][i].at \/ (at(i) = "done" /\ calls[c][i].at # "invoke")
      BY <1>5 DEF Notify, Answer
    <3> HIDE DEF status, at, s
    <3> QED BY <3>1, <3>2, <3>3 DEF Call
  <2>5. calls'[c] = s /\ \A e \in Callers : e # c => calls'[e] = calls[e]
    BY <1>t, <2>1
  <2> HIDE DEF s
  <2>6. Len(calls'[d]) = Len(calls[d]) /\ Len(calls[d]) <= Len(calls'[d])
    BY <1>t, <2>3, <2>5
  <2>7. ASSUME NEW j \in 1..Len(calls[d])
        PROVE  Keeps(d, j)
    <3>1. CASE d = c
      <4>1. calls'[d][j] = s[j] /\ Same(j)
        BY <2>4, <2>5, <3>1
      <4> HIDE DEF Same
      <4> QED BY <2>6, <3>1, <4>1 DEF Keeps, Same
    <3>2. CASE d # c
      <4>1. calls'[d][j] = calls[d][j]
        BY <2>5, <3>2
      <4> QED BY <2>6, <4>1 DEF Keeps
    <3> QED BY <3>1, <3>2
  <2> QED BY <2>6, <2>7
<1> QED BY <1>2, <1>3, <1>4, <1>5 DEF AnswerStep

(* A new call begins at regist and has run nothing; regist is left by      *)
(* Regist only.                                                            *)
Grows(d) ==
  /\ \A j \in 1..Len(calls[d]) : Keeps(d, j)
  /\ \/ Len(calls'[d]) = Len(calls[d])
     \/ /\ Len(calls'[d]) = Len(calls[d]) + 1 /\ calls'[d][Len(calls[d]) + 1].ran = None
        /\ pc[d] = "idle" /\ pc'[d] = "regist"
  /\ pc[d] = "regist" => pc'[d] = "regist" \/ Regist(d)

LEMMA StepKeeps ==
  ASSUME IInv, [Next]_vars, NEW d \in Callers
  PROVE  Grows(d)
<1>t. calls \in [Callers -> Seq(Call)] /\ Len(calls[d]) \in Nat /\ pc \in [Callers -> Places]
  BY DEF IInv, Types
<1>1. ASSUME NEW c \in Callers, NEW path \in Paths, Invoke(c, path) PROVE Grows(d)
  <2> DEFINE new == [path |-> path, lane |-> NextLane(index[c]), id |-> 0, status |-> "unborn",
                     at |-> "invoke", found |-> NoCall, ran |-> None]
  <2>1. calls' = [calls EXCEPT ![c] = Append(calls[c], new)] /\ new.ran = None
    BY <1>1 DEF Invoke
  <2> HIDE DEF new
  <2>2. /\ Len(Append(calls[d], new)) = Len(calls[d]) + 1
        /\ Append(calls[d], new)[Len(calls[d]) + 1] = new
        /\ \A j \in 1..Len(calls[d]) : Append(calls[d], new)[j] = calls[d][j]
    BY <1>t
  <2>3. calls'[d] = IF d = c THEN Append(calls[d], new) ELSE calls[d]
    BY <1>t, <2>1
  <2>4. pc[c] = "idle" /\ pc' = [pc EXCEPT ![c] = "regist"]
    <3>1. After("idle") = "regist"
      BY DEF After
    <3> QED BY <1>1, <3>1 DEF Invoke, Advance
  <2>5. \A j \in 1..Len(calls[d]) : Keeps(d, j)
    <3>1. Len(calls[d]) <= Len(calls'[d]) /\ \A j \in 1..Len(calls[d]) : calls'[d][j] = calls[d][j]
      BY <1>t, <2>2, <2>3
    <3> QED BY <3>1 DEF Keeps
  <2> QED BY <1>t, <2>1, <2>2, <2>3, <2>4, <2>5 DEF Grows
<1>2. ASSUME UNCHANGED calls PROVE \A j \in 1..Len(calls[d]) : Keeps(d, j)
  BY <1>t, <1>2 DEF Keeps
<1>3. ASSUME NEW c \in Callers, InvokeStep(c) PROVE Grows(d)
  <2>1. CASE Regist(c) \/ CreateSeq(c)
    <3>1. UNCHANGED calls
      BY <2>1 DEF Regist, CreateSeq
    <3>2. pc[d] = "regist" => pc'[d] = "regist" \/ Regist(d)
      BY <1>t, <2>1 DEF Regist, CreateSeq, Advance
    <3> QED BY <1>2, <3>1, <3>2 DEF Grows
  <2>2. CASE CreateLoad(c) \/ CSend(c) \/ CrateWaiter(c)
    <3>1. pc[d] = "regist" => pc'[d] = "regist"
      BY <1>t, <2>2 DEF CreateLoad, CSend, CrateWaiter, Advance
    <3>2. Len(calls'[d]) = Len(calls[d]) /\ \A j \in 1..Len(calls[d]) : Keeps(d, j)
      BY <2>2, CallerKeeps
    <3> QED BY <3>1, <3>2 DEF Grows
  <2> QED BY <1>3, <2>1, <2>2 DEF InvokeStep
<1>4. ASSUME NEW i \in Ids, AnswerStep(i) PROVE Grows(d)
  <2>1. PICK c \in Callers : \E k \in 1..Len(calls[c]) : i = <<c, k>>
    BY DEF Ids
  <2>2. Len(calls'[d]) = Len(calls[d]) /\ \A j \in 1..Len(calls[d]) : Keeps(d, j)
    BY <1>4, <2>1, AnswerKeeps
  <2>3. UNCHANGED pc
    BY <1>4 DEF AnswerStep, SAccept, FindWaiter, RunCallback, Notify
  <2> QED BY <2>2, <2>3 DEF Grows
<1>5. CASE UNCHANGED vars
  <2>1. UNCHANGED <<calls, pc>>
    BY <1>5 DEF vars
  <2> QED BY <1>2, <2>1 DEF Grows
<1> QED BY <1>1, <1>3, <1>4, <1>5 DEF Next

(* insert keeps an entry that is there. *)
LEMMA CallbackStays ==
  ASSUME IInv, [Next]_vars, NEW path \in Paths
  PROVE  callbacks[path] # None => callbacks'[path] = callbacks[path]
<1>t. callbacks \in [Paths -> {None} \cup (Callers \X Nat)]
  BY DEF IInv, Types
<1>1. ASSUME NEW c \in Callers, Regist(c) PROVE callbacks[path] # None => callbacks'[path] = callbacks[path]
  BY <1>t, <1>1 DEF Regist
<1>2. CASE UNCHANGED callbacks
  BY <1>2
<1>3. \/ \E c \in Callers : Regist(c)
      \/ UNCHANGED callbacks
  BY DEF Next, vars, InvokeStep, AnswerStep, Invoke, CreateSeq, CreateLoad, CSend, CrateWaiter, SAccept,
         FindWaiter, RunCallback, Notify
<1> QED BY <1>1, <1>2, <1>3

LEMMA CallbackStep == IInv /\ CallbackInv /\ [Next]_vars => CallbackInv'
<1> SUFFICES ASSUME IInv, CallbackInv, [Next]_vars,
                    NEW d \in Callers, NEW j \in 1..Len(calls'[d])
             PROVE  callbacks'[calls'[d][j].path] # None \/ (j = Len(calls'[d]) /\ pc'[d] = "regist")
  BY DEF CallbackInv
<1>t. calls \in [Callers -> Seq(Call)] /\ Len(calls[d]) \in Nat
  BY DEF IInv, Types
<1>1. Grows(d)
  BY StepKeeps
<1>2. CASE j \in 1..Len(calls[d]) /\ callbacks[calls[d][j].path] # None
  <2>1. calls[d][j].path \in Paths /\ calls'[d][j].path = calls[d][j].path
    BY <1>1, <1>2, <1>t, CallFields DEF Keeps, Grows
  <2> QED BY <1>2, <2>1, CallbackStays
<1>3. CASE j \in 1..Len(calls[d]) /\ j = Len(calls[d]) /\ pc[d] = "regist"
  <2>1. calls'[d][j].path = calls[d][j].path /\ calls[d][j].path \in Paths /\ Len(calls'[d]) = Len(calls[d])
    BY <1>1, <1>3, <1>t, CallFields DEF Keeps, Grows
  <2>2. CASE Regist(d)
    <3>1. callbacks \in [Paths -> {None} \cup (Callers \X Nat)] /\ <<d, Len(calls[d])>> # None
      BY DEF IInv, Types, None
    <3>2. callbacks' = IF callbacks[calls[d][j].path] = None
                       THEN [callbacks EXCEPT ![calls[d][j].path] = <<d, Len(calls[d])>>]
                       ELSE callbacks
      BY <1>3, <2>2 DEF Regist, Now, Last
    <3> QED BY <2>1, <3>1, <3>2
  <2>3. CASE pc'[d] = "regist"
    BY <1>3, <2>1, <2>3
  <2> QED BY <1>1, <1>3, <2>2, <2>3 DEF Grows
<1>4. CASE j \notin 1..Len(calls[d])
  <2>1. j = Len(calls'[d]) /\ Len(calls'[d]) # Len(calls[d])
    BY <1>1, <1>4, <1>t DEF Grows
  <2> QED BY <1>1, <2>1 DEF Grows
<1> QED BY <1>2, <1>3, <1>4 DEF CallbackInv

(* The callback of an answer is there (TcpRequest::find in caccept): no    *)
(* answer closes its connection for want of one, unless a caller is        *)
(* registering another path just then.                                     *)
THEOREM HintIsThere == Spec => HintUnlessRacing
<1> DEFINE Hint(i) ==
      Answer(i).at # "nohint" /\ Answer(i)'.at = "nohint" =>
        \E c \in Callers : pc[c] = "regist" /\ Now(c).path # Answer(i).path
<1>1. Init => CallbackInv
  <2>1. ASSUME Init, NEW c \in Callers PROVE 1..Len(calls[c]) = {}
    <3>1. calls[c] = <<>> /\ Len(<<>>) = 0
      BY <2>1 DEF Init
    <3> QED BY <3>1
  <2> QED BY <2>1 DEF CallbackInv
<1>2. IInv /\ CallbackInv /\ [Next]_vars => \A i \in Ids : Hint(i)
  <2> SUFFICES ASSUME IInv, CallbackInv, [Next]_vars, NEW d \in Callers, NEW j \in 1..Len(calls[d]),
                      calls[d][j].at # "nohint", calls'[d][j].at = "nohint"
               PROVE  \E c \in Callers : pc[c] = "regist" /\ Now(c).path # calls[d][j].path
    BY DEF Ids, Answer
  <2>1. RunCallback(<<d, j>>)
    BY StepKeeps DEF Grows, Keeps
  <2>2. calls[d][j].at = "found" /\ calls[d][j] \in Call /\ calls \in [Callers -> Seq(Call)]
    BY <2>1, CallFields DEF RunCallback, Answer, IInv, Types
  <2>3. callbacks[calls[d][j].path] # None
    <3>1. ASSUME j = Len(calls[d]), pc[d] = "regist" PROVE FALSE
      BY <2>2, <3>1 DEF IInv, SentInv
    <3> QED BY <3>1 DEF CallbackInv
  <2>4. Registering
    <3> SUFFICES ASSUME ~Registering PROVE FALSE
      OBVIOUS
    <3>1. PICK end \in {"called", "thrown"} :
            With(d, j, [calls[d][j] EXCEPT !.at = end, !.ran = callbacks[calls[d][j].path]])
      BY <2>1, <2>3 DEF RunCallback, Answer
    <3> DEFINE x == [calls[d][j] EXCEPT !.at = end, !.ran = callbacks[calls[d][j].path]]
    <3>2. x.at # "nohint"
      BY <2>2 DEF Call
    <3>3. calls'[d][j] = x
      <4> HIDE DEF x
      <4> QED BY <2>2, <3>1, WithKeeps DEF x
    <3> QED BY <3>2, <3>3
  <2> QED BY <2>3, <2>4 DEF Registering
<1>3. IInv /\ CallbackInv /\ [Next]_vars => CallbackInv'
  BY CallbackStep
<1> QED
  BY <1>1, <1>2, <1>3, Invariance, PTL DEF Spec, HintUnlessRacing
-----------------------------------------------------------------------------
(* A call that has been sent has its waiter filed, under its id and on its *)
(* lane, as soon as crateWaiter is past; nothing takes the waiter out.     *)
Filed(c, k) == <<calls[c][k].id, k>> \in waitors[c][calls[c][k].lane]

FiledInv ==
  \A c \in Callers : \A k \in 1..Len(calls[c]) :
    calls[c][k].at # "invoke" => Filed(c, k) \/ (k = Len(calls[c]) /\ pc[c] = "waiter")

(* Waiters are changed by crateWaiter, which leaves other ids alone; and   *)
(* waiter is left by CrateWaiter only.                                     *)
LEMMA WaitersStay ==
  ASSUME IInv, [Next]_vars, NEW d \in Callers
  PROVE  /\ CrateWaiter(d) \/ waitors'[d] = waitors[d]
         /\ pc[d] = "waiter" => pc'[d] = "waiter" \/ CrateWaiter(d)
<1>t. waitors \in [Callers -> [LaneIds -> SUBSET (Nat \X Nat)]] /\ pc \in [Callers -> Places]
  BY DEF IInv, Types
<1>1. ASSUME NEW c \in Callers, CrateWaiter(c) PROVE CrateWaiter(d) \/ (waitors'[d] = waitors[d] /\ pc'[d] = pc[d])
  BY <1>1, <1>t DEF CrateWaiter, Advance
<1>2. ASSUME NEW c \in Callers, \/ \E path \in Paths : Invoke(c, path)
                                \/ Regist(c) \/ CreateSeq(c) \/ CreateLoad(c) \/ CSend(c)
      PROVE  UNCHANGED waitors /\ (pc[d] = "waiter" => pc'[d] = "waiter")
  BY <1>2, <1>t DEF Invoke, Regist, CreateSeq, CreateLoad, CSend, Advance
<1>3. ASSUME NEW i \in Ids, AnswerStep(i) PROVE UNCHANGED <<waitors, pc>>
  BY <1>3 DEF AnswerStep, SAccept, FindWaiter, RunCallback, Notify
<1>4. CASE UNCHANGED vars
  BY <1>4 DEF vars
<1> QED BY <1>1, <1>2, <1>3, <1>4 DEF Next, InvokeStep

LEMMA FiledStep == IInv /\ FiledInv /\ [Next]_vars => FiledInv'
<1> SUFFICES ASSUME IInv, FiledInv, [Next]_vars,
                    NEW d \in Callers, NEW j \in 1..Len(calls'[d]), calls'[d][j].at # "invoke"
             PROVE  Filed(d, j)' \/ (j = Len(calls'[d]) /\ pc'[d] = "waiter")
  BY DEF FiledInv
<1>t. /\ calls \in [Callers -> Seq(Call)] /\ Len(calls[d]) \in Nat /\ pc \in [Callers -> Places]
      /\ waitors \in [Callers -> [LaneIds -> SUBSET (Nat \X Nat)]]
  BY DEF IInv, Types
<1>1. Grows(d) /\ IInv'
  BY StepKeeps, NextIInv
<1>2. j \in 1..Len(calls[d])
  <2> SUFFICES ASSUME j \notin 1..Len(calls[d]) PROVE FALSE
    OBVIOUS
  <2>1. j = Len(calls'[d]) /\ pc'[d] = "regist"
    BY <1>1, <1>t DEF Grows
  <2>2. calls'[d][j].at = "invoke"
    BY <1>1, <2>1 DEF IInv, SentInv
  <2> QED BY <2>2
<1>3. Keeps(d, j)
  BY <1>1, <1>2 DEF Grows
<1>4. CASE calls[d][j].at = "invoke"
  <2>1. CSend(d) /\ j = Len(calls[d])
    BY <1>3, <1>4 DEF Keeps
  <2>2. pc[d] = "csend" /\ pc'[d] = "waiter"
    <3>1. After("csend") = "waiter"
      BY DEF After
    <3> QED BY <1>t, <2>1, <3>1 DEF CSend, Advance
  <2>3. Len(calls'[d]) = Len(calls[d])
    BY <1>1, <2>2 DEF Grows
  <2> QED BY <2>1, <2>2, <2>3
<1>5. CASE calls[d][j].at # "invoke"
  <2>1. calls'[d][j].id = calls[d][j].id /\ calls'[d][j].lane = calls[d][j].lane
    BY <1>3, <1>5 DEF Keeps
  <2>2. calls[d][j].lane \in LaneIds /\ calls[d][j].id \in Nat
    BY <1>t, <1>2, CallFields
  <2>3. Filed(d, j) \/ (j = Len(calls[d]) /\ pc[d] = "waiter")
    BY <1>2, <1>5 DEF FiledInv
  <2>4. CASE CrateWaiter(d)
    <3> DEFINE n == Len(calls[d])
               call == calls[d][n]
               filed == {w \in waitors[d][call.lane] : w[1] # call.id} \cup {<<call.id, n>>}
    <3>1. pc[d] = "waiter" /\ waitors' = [waitors EXCEPT ![d][call.lane] = filed]
      BY <2>4 DEF CrateWaiter, Advance, Last, Now, Waiting
    <3>2. n \in 1..Len(calls[d]) /\ call \in Call
      <4>1. Len(calls[d]) >= 1
        BY <3>1 DEF IInv, IdInv
      <4> QED BY <1>t, <4>1, CallFields
    <3>3. call.lane \in LaneIds
      BY <3>2 DEF Call
    <3>4. waitors'[d][call.lane] = filed /\ \A l \in LaneIds : l # call.lane => waitors'[d][l] = waitors[d][l]
      <4> HIDE DEF call, filed
      <4> QED BY <1>t, <3>1, <3>3
    <3>5. CASE j = n
      BY <2>1, <3>4, <3>5 DEF Filed
    <3>6. CASE j # n
      <4>1. calls[d][j].id # call.id
        <5>1. Assigned(d, n) /\ j < n
          BY <1>2, <1>t, <3>1, <3>6 DEF Assigned
        <5>2. calls[d][j].id < call.id
          BY <1>2, <3>2, <5>1 DEF IInv, IdInv
        <5> QED BY <1>t, <2>2, <3>2, <5>2, CallFields
      <4>2. <<calls[d][j].id, j>> \in waitors[d][calls[d][j].lane]
        BY <2>3, <3>6 DEF Filed
      <4>3. <<calls[d][j].id, j>> \in waitors'[d][calls[d][j].lane]
        BY <2>2, <3>4, <4>1, <4>2
      <4> QED BY <2>1, <4>3 DEF Filed
    <3> QED BY <3>5, <3>6
  <2>5. CASE ~CrateWaiter(d)
    <3>1. waitors'[d] = waitors[d] /\ (pc[d] = "waiter" => pc'[d] = "waiter")
      BY <2>5, WaitersStay
    <3>2. CASE Filed(d, j)
      BY <2>1, <3>1, <3>2 DEF Filed
    <3>3. CASE j = Len(calls[d]) /\ pc[d] = "waiter"
      <4>1. Len(calls'[d]) = Len(calls[d])
        BY <1>1, <3>3 DEF Grows
      <4> QED BY <3>1, <3>3, <4>1
    <3> QED BY <2>3, <3>2, <3>3
  <2> QED BY <2>4, <2>5
<1> QED BY <1>4, <1>5

(* "When is it null?", asks LeopardProtocal.cpp:36: an answer finds no     *)
(* waiter only while its caller stands between csend and the end of        *)
(* crateWaiter, for a call on the very connection of the answer.           *)
MissedWhileFiling ==
  [][\A i \in Ids :
       Answer(i).at = "answered" /\ Answer(i)'.at = "found" /\ Answer(i)'.found = NoCall =>
         pc[i[1]] = "waiter" /\ Now(i[1]).lane = Answer(i).lane]_vars

(* The log line's question has this one answer, however many clients call. *)
THEOREM NullOnlyWhileFiling == Spec => MissedWhileFiling
<1> DEFINE Missed(i) ==
      Answer(i).at = "answered" /\ Answer(i)'.at = "found" /\ Answer(i)'.found = NoCall =>
        pc[i[1]] = "waiter" /\ Now(i[1]).lane = Answer(i).lane
<1>1. Init => FiledInv
  <2>1. ASSUME Init, NEW c \in Callers PROVE 1..Len(calls[c]) = {}
    <3>1. calls[c] = <<>> /\ Len(<<>>) = 0
      BY <2>1 DEF Init
    <3> QED BY <3>1
  <2> QED BY <2>1 DEF FiledInv
<1>2. IInv /\ FiledInv /\ [Next]_vars => \A i \in Ids : Missed(i)
  <2> SUFFICES ASSUME IInv, FiledInv, [Next]_vars, NEW d \in Callers, NEW j \in 1..Len(calls[d]),
                      calls[d][j].at = "answered", calls'[d][j].at = "found", calls'[d][j].found = NoCall
               PROVE  pc[d] = "waiter" /\ calls[d][Len(calls[d])].lane = calls[d][j].lane
    BY DEF Ids, Answer, Now, Last
  <2>1. FindWaiter(<<d, j>>)
    BY StepKeeps DEF Grows, Keeps
  <2> DEFINE call == calls[d][j]
             hits == {w[2] : w \in {v \in waitors[d][call.lane] : v[1] = call.id}}
             inserting == pc[d] = "waiter" /\ calls[d][Len(calls[d])].lane = call.lane
  <2>2. PICK f \in hits \cup (IF hits = {} \/ inserting THEN {NoCall} ELSE {}) :
          With(d, j, [call EXCEPT !.at = "found", !.found = f])
    BY <2>1 DEF FindWaiter, Answer, Waiting, Now, Last
  <2>3. calls \in [Callers -> Seq(Call)] /\ call \in Call
    BY CallFields DEF IInv, Types
  <2>4. f = NoCall
    <3> DEFINE x == [call EXCEPT !.at = "found", !.found = f]
    <3>1. x.found = f
      BY <2>3 DEF Call
    <3>2. calls'[d][j] = x
      <4>1. With(d, j, x)
        BY <2>2
      <4> HIDE DEF x, call, hits, inserting
      <4> QED BY <2>3, <4>1, WithKeeps
    <3> QED BY <3>1, <3>2
  <2>5. NoCall \notin hits
    <3>1. \A w \in hits : w \in 1..Len(calls[d])
      <4>1. call.lane \in LaneIds
        BY <2>3 DEF Call
      <4> QED BY <4>1 DEF IInv, WaiterInv
    <3> QED BY <3>1 DEF NoCall
  <2>6. CASE inserting
    BY <2>6
  <2>7. CASE ~inserting
    <3>1. hits = {}
      <4> HIDE DEF hits, inserting
      <4> QED BY <2>4, <2>5, <2>7
    <3>2. ~Filed(d, j)
      <4>1. ASSUME Filed(d, j) PROVE j \in hits
        <5>1. <<call.id, j>> \in {v \in waitors[d][call.lane] : v[1] = call.id}
          BY <4>1 DEF Filed
        <5>2. <<call.id, j>>[2] = j
          OBVIOUS
        <5> QED BY <5>1, <5>2
      <4> QED BY <3>1, <4>1
    <3> QED BY <2>7, <3>2 DEF FiledInv
  <2> QED BY <2>6, <2>7
<1>3. IInv /\ FiledInv /\ [Next]_vars => [\A i \in Ids : Missed(i)]_vars
  BY <1>2
<1> HIDE DEF Missed
<1>4. Spec => [][\A i \in Ids : Missed(i)]_vars
  BY <1>1, <1>3, FiledStep, Invariance, PTL DEF Spec
<1> QED BY <1>4 DEF MissedWhileFiling, Missed

-----------------------------------------------------------------------------
(* The first callback registered for a path is of a call of that path, and *)
(* an answer runs it.                                                      *)
FirstInv ==
  \A path \in Paths : callbacks[path] # None =>
    \E c \in Callers : \E k \in 1..Len(calls[c]) : callbacks[path] = <<c, k>> /\ calls[c][k].path = path

RanInv ==
  \A c \in Callers : \A k \in 1..Len(calls[c]) :
    calls[c][k].ran # None => calls[c][k].ran = callbacks[calls[c][k].path]

LEMMA FirstStep == IInv /\ FirstInv /\ [Next]_vars => FirstInv'
<1> SUFFICES ASSUME IInv, FirstInv, [Next]_vars, NEW path \in Paths, callbacks'[path] # None
             PROVE  \E c \in Callers : \E k \in 1..Len(calls'[c]) :
                      callbacks'[path] = <<c, k>> /\ calls'[c][k].path = path
  BY DEF FirstInv
<1>t. /\ calls \in [Callers -> Seq(Call)] /\ callbacks \in [Paths -> {None} \cup (Callers \X Nat)]
      /\ \A c \in Callers : Len(calls[c]) \in Nat
  BY DEF IInv, Types
<1>1. ASSUME NEW c \in Callers, NEW k \in 1..Len(calls[c]), calls[c][k].path = path, callbacks'[path] = <<c, k>>
      PROVE  k \in 1..Len(calls'[c]) /\ calls'[c][k].path = path
  <2>1. Grows(c) /\ Len(calls[c]) \in Nat
    BY <1>t, StepKeeps
  <2>2. Len(calls'[c]) \in {Len(calls[c]), Len(calls[c]) + 1}
    BY <2>1 DEF Grows
  <2>3. calls'[c][k].path = calls[c][k].path
    BY <2>1 DEF Grows, Keeps
  <2> QED BY <1>1, <2>1, <2>2, <2>3
<1>2. CASE callbacks[path] # None
  <2>1. PICK c \in Callers : \E k \in 1..Len(calls[c]) : callbacks[path] = <<c, k>> /\ calls[c][k].path = path
    BY <1>2 DEF FirstInv
  <2>2. callbacks'[path] = callbacks[path]
    BY <1>2, CallbackStays
  <2> QED BY <1>1, <2>1, <2>2
<1>3. CASE callbacks[path] = None
  <2>1. PICK c \in Callers : Regist(c)
    BY <1>3 DEF Next, vars, InvokeStep, AnswerStep, Invoke, CreateSeq, CreateLoad, CSend, CrateWaiter, SAccept,
                FindWaiter, RunCallback, Notify
  <2> DEFINE n == Len(calls[c])
  <2>2. calls[c][n].path = path /\ callbacks'[path] = <<c, n>>
    BY <1>t, <1>3, <2>1 DEF Regist, Now, Last
  <2>3. n \in 1..Len(calls[c])
    <3>1. pc[c] # "idle"
      BY <2>1 DEF Regist, Advance
    <3> QED BY <1>t, <3>1 DEF IInv, IdInv
  <2> HIDE DEF n
  <2> QED BY <1>1, <2>2, <2>3
<1> QED BY <1>2, <1>3

LEMMA RanStep == IInv /\ RanInv /\ [Next]_vars => RanInv'
<1> SUFFICES ASSUME IInv, RanInv, [Next]_vars,
                    NEW d \in Callers, NEW j \in 1..Len(calls'[d]), calls'[d][j].ran # None
             PROVE  calls'[d][j].ran = callbacks'[calls'[d][j].path]
  BY DEF RanInv
<1>t. calls \in [Callers -> Seq(Call)] /\ Len(calls[d]) \in Nat
  BY DEF IInv, Types
<1>1. Grows(d)
  BY StepKeeps
<1>2. j \in 1..Len(calls[d])
  BY <1>1, <1>t DEF Grows
<1>3. Keeps(d, j) /\ calls[d][j] \in Call /\ calls[d][j].path \in Paths
  BY <1>1, <1>2, <1>t, CallFields DEF Grows
<1>4. CASE calls'[d][j].ran = calls[d][j].ran
  <2>1. calls[d][j].ran = callbacks[calls[d][j].path]
    BY <1>2, <1>4 DEF RanInv
  <2> QED BY <1>3, <1>4, <2>1, CallbackStays DEF Keeps
<1>5. CASE calls'[d][j].ran # calls[d][j].ran
  <2>1. RunCallback(<<d, j>>)
    BY <1>3, <1>5 DEF Keeps
  <2>0. PICK who \in {callbacks[calls[d][j].path], None} : \E end \in {"nohint", "called", "thrown"} :
          With(d, j, [calls[d][j] EXCEPT !.at = end, !.ran = who])
    BY <2>1 DEF RunCallback, Answer
  <2>2. PICK end \in {"nohint", "called", "thrown"} : With(d, j, [calls[d][j] EXCEPT !.at = end, !.ran = who])
    BY <2>0
  <2> DEFINE x == [calls[d][j] EXCEPT !.at = end, !.ran = who]
  <2>3. x.ran = who
    BY <1>3 DEF Call
  <2>4. calls'[d][j] = x
    <3>1. With(d, j, x)
      BY <2>2
    <3> HIDE DEF x
    <3> QED BY <1>t, <1>2, <3>1, WithKeeps
  <2>5. who = callbacks[calls[d][j].path]
    BY <2>3, <2>4
  <2>6. callbacks' = callbacks
    BY <2>1 DEF RunCallback
  <2> HIDE DEF x
  <2> QED BY <1>3, <2>3, <2>4, <2>5, <2>6 DEF Keeps
<1> QED BY <1>4, <1>5

(* What TcpRequest.hpp:25 regrets, and no more than that: the answer to a  *)
(* call runs the callback of a call of the same path, and all answers of a *)
(* path, whoever called, run the same one.                                 *)
OneCallbackPerPath ==
  /\ \A i \in Ids : Answer(i).ran # None =>
       \E first \in Ids : Answer(i).ran = first /\ Answer(first).path = Answer(i).path
  /\ \A i, j \in Ids : Answer(i).ran # None /\ Answer(j).ran # None /\ Answer(i).path = Answer(j).path =>
       Answer(i).ran = Answer(j).ran

(* Callbacks go by path in every instance, and by nothing coarser.         *)
THEOREM PathsShareACallback == Spec => []OneCallbackPerPath
<1>1. Init => FirstInv /\ RanInv
  <2>1. ASSUME Init, NEW c \in Callers PROVE 1..Len(calls[c]) = {}
    <3>1. calls[c] = <<>> /\ Len(<<>>) = 0
      BY <2>1 DEF Init
    <3> QED BY <3>1
  <2>2. ASSUME Init, NEW path \in Paths PROVE callbacks[path] = None
    BY <2>2 DEF Init
  <2> QED BY <2>1, <2>2 DEF FirstInv, RanInv
<1>2. IInv /\ FirstInv /\ RanInv => OneCallbackPerPath
  <2> SUFFICES ASSUME IInv, FirstInv, RanInv PROVE OneCallbackPerPath
    OBVIOUS
  <2>1. ASSUME NEW i \in Ids, Answer(i).ran # None
        PROVE  Answer(i).ran = callbacks[Answer(i).path] /\ Answer(i).path \in Paths
    <3>1. PICK c \in Callers : \E k \in 1..Len(calls[c]) : i = <<c, k>>
      BY DEF Ids
    <3>2. \A k \in 1..Len(calls[c]) : calls[c][k].path \in Paths
      BY CallFields DEF IInv, Types
    <3> QED BY <2>1, <3>1, <3>2 DEF RanInv, Answer
  <2>2. ASSUME NEW i \in Ids, Answer(i).ran # None
        PROVE  \E first \in Ids : Answer(i).ran = first /\ Answer(first).path = Answer(i).path
    <3>1. PICK c \in Callers : \E k \in 1..Len(calls[c]) :
            callbacks[Answer(i).path] = <<c, k>> /\ calls[c][k].path = Answer(i).path
      BY <2>1, <2>2 DEF FirstInv
    <3>2. PICK k \in 1..Len(calls[c]) : callbacks[Answer(i).path] = <<c, k>> /\ calls[c][k].path = Answer(i).path
      BY <3>1
    <3>3. <<c, k>> \in Ids /\ Answer(<<c, k>>).path = Answer(i).path
      BY <3>2 DEF Ids, Answer
    <3> QED BY <2>1, <2>2, <3>2, <3>3
  <2> QED BY <2>1, <2>2 DEF OneCallbackPerPath
<1> QED BY <1>1, <1>2, FirstStep, RanStep, Invariance, PTL DEF Spec
=============================================================================

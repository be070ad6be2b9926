------------------------- MODULE RunwayChoiceProofs -------------------------
(***************************************************************************)
(* Proofs about RunwayChoice, for any number of runways and creators.  The *)
(* sizes always form two levels, the higher one first: that is why "go on  *)
(* to whatever differs" finds the smallest, until a race breaks the shape. *)
(***************************************************************************)
EXTENDS RunwayChoice, FiniteSetTheorems, TLAPS

(* Where the scans and the connections in progress are. *)
PlaceInv ==
  \A t \in Creators :
    /\ pc[t] \in {"scan", "connect"} => best[t] \in Started
    /\ pc[t] = "scan" => best[t] < it[t] /\ it[t] <= parallel + 1

(* What an undisturbed scan has found so far: where the group of equal     *)
(* sizes begins that reaches up to the iterator.                           *)
Found(t) ==
  /\ \A k \in Runways : best[t] <= k /\ k < it[t] => opens[k] = opens[best[t]]
  /\ best[t] > 1 => opens[best[t] - 1] # opens[best[t]]

ScanInv == \A t \in Creators : pc[t] = "scan" /\ t \notin disturbed => Found(t)

(* The runways up to a have k + 1 sockets, the others k. *)
TwoLevels(k, a) ==
  \A r \in Started : opens[r] = IF r <= a THEN k + 1 ELSE k

LevelInv ==
  /\ parallel = 0 => \A r \in Runways : opens[r] = 0
  /\ parallel > 0 /\ raced = {} => \E k \in Nat : \E a \in 0..parallel - 1 : TwoLevels(k, a)

IInv == TypeOK /\ PlaceInv /\ ScanInv /\ LevelInv

(* The numbers an action compares. *)
LEMMA Numbers ==
  ASSUME IInv, NEW t \in Creators
  PROVE  /\ MaxRunways \in Nat /\ parallel \in Nat /\ parallel <= MaxRunways
         /\ Started \subseteq Runways
         /\ it[t] \in Nat /\ 1 <= it[t] /\ it[t] <= MaxRunways + 1
         /\ pc[t] = "scan" => /\ best[t] \in Nat /\ 1 <= best[t] /\ best[t] < it[t]
                              /\ best[t] \in Runways /\ it[t] <= parallel + 1 /\ parallel > 0
<1>1. MaxRunways \in Nat /\ parallel \in 0..MaxRunways
  BY ChoiceAssumption DEF IInv, TypeOK
<1>2. it[t] \in 1..MaxRunways + 1
  BY DEF IInv, TypeOK
<1>3. pc[t] = "scan" => best[t] \in 1..parallel /\ best[t] < it[t] /\ it[t] <= parallel + 1
  BY DEF IInv, PlaceInv, Started
<1> QED
  BY <1>1, <1>2, <1>3 DEF Started, Runways

(* The steps that leave the scans and the sizes alone. *)
LEMMA Elsewhere ==
  ASSUME IInv, NEW t \in Creators, UNCHANGED <<parallel, opens, it, best, disturbed, raced>>,
         NEW a \in {"idle", "scan", "connect", "close"}, NEW b \in {"idle", "close"}, Goto(t, a, b)
  PROVE  /\ pc' \in [Creators -> {"idle", "scan", "connect", "close"}]
         /\ PlaceInv' /\ ScanInv' /\ LevelInv'
<1>1. pc' = [pc EXCEPT ![t] = b] /\ pc \in [Creators -> {"idle", "scan", "connect", "close"}]
  BY DEF Goto, IInv, TypeOK
<1>2. \A u \in Creators : pc'[u] = IF u = t THEN b ELSE pc[u]
  BY <1>1
<1>3. PlaceInv'
  BY <1>2 DEF IInv, PlaceInv, Started
<1>4. ScanInv'
  BY <1>2 DEF IInv, ScanInv, Found
<1>5. LevelInv'
  BY DEF IInv, LevelInv, TwoLevels, Started
<1> QED
  BY <1>1, <1>3, <1>4, <1>5

(* start: the runways appear, all without sockets. *)
LEMMA StartStep ==
  ASSUME IInv, NEW n \in Runways, Start(n)
  PROVE  IInv'
<1>1. /\ parallel = 0 /\ parallel' = n
      /\ UNCHANGED <<opens, closes, pc, it, best, held, lost, disturbed, raced>>
  BY DEF Start
<1>2. n \in Nat /\ 1 <= n /\ n <= MaxRunways /\ MaxRunways \in Nat
  BY ChoiceAssumption DEF Runways
<1>3. TypeOK'
  BY <1>1, <1>2 DEF IInv, TypeOK
<1>4. \A t \in Creators : pc[t] \notin {"scan", "connect"}
  BY <1>1 DEF IInv, PlaceInv, Started
<1>5. PlaceInv' /\ ScanInv'
  BY <1>1, <1>4 DEF PlaceInv, ScanInv
<1>6. LevelInv'
  <2>1. \A r \in 1..n : opens[r] = 0
    BY <1>1, <1>2 DEF IInv, LevelInv, Runways
  <2>2. TwoLevels(0, 0)'
    BY <1>1, <1>2, <2>1 DEF TwoLevels, Started
  <2> QED
    BY <1>1, <1>2, <2>2 DEF LevelInv
<1> QED
  BY <1>3, <1>5, <1>6 DEF IInv

(* create enters min_element. *)
LEMMA BeginStep ==
  ASSUME IInv, NEW t \in Creators, Begin(t)
  PROVE  IInv'
<1>1. /\ parallel > 0 /\ pc[t] = "idle" /\ pc' = [pc EXCEPT ![t] = "scan"]
      /\ best' = [best EXCEPT ![t] = 1] /\ it' = [it EXCEPT ![t] = 2]
      /\ disturbed' = disturbed \ {t}
      /\ UNCHANGED <<parallel, opens, closes, held, lost, raced>>
  BY DEF Begin, Goto
<1>2. parallel \in Nat /\ parallel <= MaxRunways /\ MaxRunways \in Nat
  BY Numbers
<1>3. TypeOK'
  BY <1>1, <1>2 DEF IInv, TypeOK
<1>4. \A u \in Creators : /\ pc'[u] = IF u = t THEN "scan" ELSE pc[u]
                          /\ best'[u] = IF u = t THEN 1 ELSE best[u]
                          /\ it'[u] = IF u = t THEN 2 ELSE it[u]
  BY <1>1 DEF IInv, TypeOK
<1>5. PlaceInv'
  BY <1>1, <1>2, <1>4 DEF IInv, PlaceInv, Started
<1>6. ScanInv'
  <2> SUFFICES ASSUME NEW u \in Creators, pc'[u] = "scan", u \notin disturbed'
               PROVE  Found(u)'
    BY DEF ScanInv
  <2>1. CASE u = t
    <3>1. \A k \in Runways : 1 <= k /\ k < 2 => k = 1
      BY DEF Runways
    <3> QED
      BY <1>1, <1>4, <2>1, <3>1 DEF Found
  <2>2. CASE u # t
    BY <1>1, <1>4, <2>2 DEF IInv, ScanInv, Found
  <2> QED
    BY <2>1, <2>2
<1>7. LevelInv'
  BY <1>1 DEF IInv, LevelInv, TwoLevels, Started
<1> QED
  BY <1>3, <1>5, <1>6, <1>7 DEF IInv

(* One comparison. *)
LEMMA CompareStep ==
  ASSUME IInv, NEW t \in Creators, Compare(t)
  PROVE  IInv'
<1> DEFINE b == IF opens[it[t]] # opens[best[t]] THEN it[t] ELSE best[t]
<1>1. /\ pc[t] = "scan" /\ it[t] \in Started
      /\ best' = [best EXCEPT ![t] = b] /\ it' = [it EXCEPT ![t] = it[t] + 1]
      /\ UNCHANGED <<parallel, opens, closes, pc, held, lost, disturbed, raced>>
  BY DEF Compare, Scanning, Less
<1>2. /\ parallel \in Nat /\ parallel <= MaxRunways /\ MaxRunways \in Nat
      /\ it[t] \in Nat /\ best[t] \in Nat /\ 1 <= best[t] /\ best[t] < it[t] /\ it[t] <= parallel
      /\ it[t] \in Runways /\ best[t] \in Runways
  BY <1>1, Numbers DEF Started
<1>b. b \in Runways /\ b <= it[t] /\ b \in Started
  BY <1>2 DEF Started
<1>3. TypeOK'
  <2>1. it[t] + 1 \in 1..MaxRunways + 1
    BY <1>2
  <2> QED
    BY <1>1, <1>b, <2>1 DEF IInv, TypeOK
<1>4. \A u \in Creators : /\ best'[u] = IF u = t THEN b ELSE best[u]
                          /\ it'[u] = IF u = t THEN it[t] + 1 ELSE it[u]
  BY <1>1 DEF IInv, TypeOK
<1>5. PlaceInv'
  <2> SUFFICES ASSUME NEW u \in Creators
               PROVE  /\ pc[u] \in {"scan", "connect"} => best'[u] \in Started
                      /\ pc[u] = "scan" => best'[u] < it'[u] /\ it'[u] <= parallel + 1
    BY <1>1 DEF PlaceInv, Started
  <2>1. CASE u = t
    BY <1>1, <1>2, <1>4, <1>b, <2>1
  <2>2. CASE u # t
    BY <1>4, <2>2 DEF IInv, PlaceInv
  <2> QED
    BY <2>1, <2>2
<1>6. ScanInv'
  <2> SUFFICES ASSUME NEW u \in Creators, pc[u] = "scan", u \notin disturbed
               PROVE  Found(u)'
    BY <1>1 DEF ScanInv
  <2>0. Found(u)
    BY DEF IInv, ScanInv
  <2>1. CASE u # t
    BY <1>1, <1>4, <2>0, <2>1 DEF Found
  <2>2. CASE u = t /\ opens[it[t]] # opens[best[t]]
    <3>1. best'[t] = it[t] /\ it'[t] = it[t] + 1
      BY <1>4, <2>2
    <3>2. opens[it[t] - 1] = opens[best[t]]
      <4>1. it[t] - 1 \in Runways /\ best[t] <= it[t] - 1 /\ it[t] - 1 < it[t]
        BY <1>2 DEF Runways
      <4> QED
        BY <2>0, <2>2, <4>1 DEF Found
    <3>3. \A k \in Runways : it[t] <= k /\ k < it[t] + 1 => k = it[t]
      BY <1>2 DEF Runways
    <3> QED
      BY <1>1, <2>2, <3>1, <3>2, <3>3 DEF Found
  <2>3. CASE u = t /\ opens[it[t]] = opens[best[t]]
    <3>1. best'[t] = best[t] /\ it'[t] = it[t] + 1
      BY <1>4, <2>3
    <3>2. \A k \in Runways : k < it[t] + 1 => k < it[t] \/ k = it[t]
      BY <1>2 DEF Runways
    <3> QED
      BY <1>1, <2>0, <2>3, <3>1, <3>2 DEF Found
  <2> QED
    BY <2>1, <2>2, <2>3
<1>7. LevelInv'
  BY <1>1 DEF IInv, LevelInv, TwoLevels, Started
<1> QED
  BY <1>3, <1>5, <1>6, <1>7 DEF IInv

(* A finished scan that nothing disturbed has found the last group. *)
LEMMA FoundIsLast ==
  ASSUME IInv, NEW t \in Creators, pc[t] = "scan", it[t] \notin Started, t \notin disturbed
  PROVE  StartsLastGroup(best[t])
<1>1. /\ parallel \in Nat /\ parallel <= MaxRunways /\ MaxRunways \in Nat
      /\ it[t] \in Nat /\ 1 <= it[t] /\ it[t] <= parallel + 1
  BY Numbers
<1>2. it[t] = parallel + 1
  BY <1>1 DEF Started
<1>3. \A q \in Started : q \in Runways /\ q < it[t]
  BY <1>1, <1>2 DEF Started, Runways
<1>4. Found(t)
  BY DEF IInv, ScanInv
<1> QED
  BY <1>3, <1>4 DEF Found, StartsLastGroup

(* On two levels the last group is the lower one, or everything. *)
LEMMA LastIsLow ==
  ASSUME parallel \in Nat, parallel > 0, NEW k \in Nat, NEW a \in 0..parallel - 1,
         TwoLevels(k, a), NEW b \in Started, StartsLastGroup(b)
  PROVE  b = a + 1
<1>1. parallel \in Started /\ a + 1 \in Started /\ opens[parallel] = k /\ opens[a + 1] = k
  BY DEF TwoLevels, Started
<1>2. opens[b] = k
  BY <1>1 DEF StartsLastGroup, Started
<1>3. b >= a + 1
  BY <1>2 DEF TwoLevels, Started
<1>4. ASSUME b > a + 1 PROVE FALSE
  <2>1. b - 1 \in Started /\ b > 1 /\ ~(b - 1 <= a)
    BY <1>4 DEF Started
  <2>2. opens[b - 1] = k
    BY <2>1 DEF TwoLevels
  <2> QED
    BY <1>2, <2>1, <2>2 DEF StartsLastGroup
<1> QED
  BY <1>3, <1>4 DEF Started

(* The new socket is counted. *)
LEMMA SocketStep ==
  ASSUME IInv, NEW t \in Creators, Socket(t)
  PROVE  IInv'
<1>1. /\ it[t] \notin Started /\ pc[t] = "scan" /\ pc' = [pc EXCEPT ![t] = "connect"]
      /\ opens' = [opens EXCEPT ![best[t]] = opens[best[t]] + 1]
      /\ disturbed' = disturbed \cup {u \in Creators \ {t} : pc[u] = "scan"}
      /\ raced' = raced \cup (disturbed \cap {t})
      /\ UNCHANGED <<parallel, closes, it, best, held, lost>>
  BY DEF Socket, Goto, Scanning
<1>2. /\ parallel \in Nat /\ parallel <= MaxRunways /\ MaxRunways \in Nat
      /\ best[t] \in Started /\ best[t] \in Runways /\ best[t] \in Nat /\ parallel > 0
      /\ opens \in [Runways -> Nat] /\ Started \subseteq Runways
  BY <1>1, Numbers DEF IInv, TypeOK, PlaceInv
<1>3. TypeOK'
  BY <1>1, <1>2 DEF IInv, TypeOK
<1>4. \A u \in Creators : pc'[u] = IF u = t THEN "connect" ELSE pc[u]
  BY <1>1 DEF IInv, TypeOK
<1>5. PlaceInv'
  BY <1>1, <1>2, <1>4 DEF IInv, PlaceInv, Started
<1>6. ScanInv'
  BY <1>1, <1>4 DEF ScanInv
<1>7. LevelInv'
  <2>1. CASE raced' = {}
    <3>1. t \notin disturbed /\ raced = {}
      BY <1>1, <2>1
    <3>2. PICK k \in Nat : \E a \in 0..parallel - 1 : TwoLevels(k, a)
      BY <1>2, <3>1 DEF IInv, LevelInv
    <3>3. PICK a \in 0..parallel - 1 : TwoLevels(k, a)
      BY <3>2
    <3>4. best[t] = a + 1
      <4>1. StartsLastGroup(best[t])
        BY <1>1, <3>1, FoundIsLast
      <4> QED
        BY <1>2, <3>3, <4>1, LastIsLow
    <3>5. \A r \in Started : opens'[r] = IF r <= a + 1 THEN k + 1 ELSE k
      <4> SUFFICES ASSUME NEW r \in Started
                   PROVE  opens'[r] = IF r <= a + 1 THEN k + 1 ELSE k
        OBVIOUS
      <4>1. opens'[r] = IF r = a + 1 THEN opens[r] + 1 ELSE opens[r]
        BY <1>1, <1>2, <3>4
      <4>2. opens[r] = IF r <= a THEN k + 1 ELSE k
        BY <3>3 DEF TwoLevels
      <4> QED
        BY <4>1, <4>2 DEF Started
    <3>6. CASE a + 1 < parallel
      <4>1. TwoLevels(k, a + 1)'
        BY <1>1, <3>5 DEF TwoLevels, Started
      <4>2. a + 1 \in 0..parallel' - 1
        BY <1>1, <1>2, <3>6
      <4> QED
        BY <1>1, <1>2, <4>1, <4>2 DEF LevelInv
    <3>7. CASE a + 1 = parallel
      <4>1. TwoLevels(k + 1, 0)'
        BY <1>1, <1>2, <3>5, <3>7 DEF TwoLevels, Started
      <4>2. 0 \in 0..parallel' - 1 /\ k + 1 \in Nat
        BY <1>1, <1>2
      <4> QED
        BY <1>1, <1>2, <4>1, <4>2 DEF LevelInv
    <3> QED
      BY <1>2, <3>6, <3>7
  <2>2. CASE raced' # {}
    BY <1>1, <1>2, <2>2 DEF LevelInv
  <2> QED
    BY <2>1, <2>2
<1> QED
  BY <1>3, <1>5, <1>6, <1>7 DEF IInv

(* The steps of a creator outside min_element. *)
LEMMA OtherStep ==
  ASSUME IInv, NEW t \in Creators,
         Connected(t) \/ SocketFails(t) \/ ConnectFails(t) \/ Drop(t) \/ Close(t) \/ Closed(t)
  PROVE  IInv'
<1>1. CASE Connected(t)
  <2>1. best[t] \in Runways
    BY <1>1, Numbers DEF Connected, Goto, IInv, PlaceInv
  <2>2. held[t] \in Seq(Runways) /\ Append(held[t], best[t]) \in Seq(Runways)
    BY <2>1 DEF IInv, TypeOK
  <2>3. held' \in [Creators -> Seq(Runways)] /\ pc' \in [Creators -> {"idle", "scan", "connect", "close"}]
    BY <1>1, <2>2 DEF Connected, Goto, IInv, TypeOK
  <2>4. UNCHANGED <<parallel, opens, closes, it, best, lost, disturbed, raced>>
    BY <1>1 DEF Connected
  <2>5. TypeOK'
    BY <2>3, <2>4 DEF IInv, TypeOK
  <2> QED
    BY <1>1, <2>5, Elsewhere DEF Connected, IInv
<1>2. CASE SocketFails(t)
  <2>1. pc' \in [Creators -> {"idle", "scan", "connect", "close"}] /\ PlaceInv' /\ ScanInv' /\ LevelInv'
    BY <1>2, Elsewhere DEF SocketFails
  <2>2. UNCHANGED <<parallel, opens, closes, it, best, held, lost, disturbed, raced>>
    BY <1>2 DEF SocketFails
  <2>3. TypeOK'
    BY <2>1, <2>2 DEF IInv, TypeOK
  <2> QED
    BY <2>1, <2>3 DEF IInv
<1>3. CASE ConnectFails(t)
  <2>1. /\ lost' = [lost EXCEPT ![best[t]] = lost[best[t]] + 1]
        /\ pc' = [pc EXCEPT ![t] = "close"]
        /\ UNCHANGED <<parallel, opens, closes, it, best, held, disturbed, raced>>
    BY <1>3 DEF ConnectFails, Goto
  <2>2. best[t] \in Runways
    BY <1>3, Numbers DEF ConnectFails, Goto, IInv, PlaceInv
  <2>3. lost' \in [Runways -> Nat]
    BY <2>1, <2>2 DEF IInv, TypeOK
  <2>4. pc' \in [Creators -> {"idle", "scan", "connect", "close"}]
    BY <2>1 DEF IInv, TypeOK
  <2>5. TypeOK'
    BY <2>1, <2>3, <2>4 DEF IInv, TypeOK
  <2> QED
    BY <1>3, <2>5, Elsewhere DEF ConnectFails, IInv
<1>4. CASE Drop(t)
  <2>1. pc' \in [Creators -> {"idle", "scan", "connect", "close"}] /\ PlaceInv' /\ ScanInv' /\ LevelInv'
    BY <1>4, Elsewhere DEF Drop
  <2>2. UNCHANGED <<parallel, opens, closes, it, best, held, lost, disturbed, raced>>
    BY <1>4 DEF Drop
  <2>3. TypeOK'
    BY <2>1, <2>2 DEF IInv, TypeOK
  <2> QED
    BY <2>1, <2>3 DEF IInv
<1>5. CASE Close(t)
  <2>1. /\ held[t] \in Seq(Runways) /\ held[t] # <<>>
        /\ closes' = [closes EXCEPT ![Head(held[t])] = closes[Head(held[t])] + 1]
        /\ held' = [held EXCEPT ![t] = Tail(held[t])]
        /\ UNCHANGED <<parallel, opens, pc, it, best, lost, disturbed, raced>>
    BY <1>5 DEF Close, IInv, TypeOK
  <2>2. Head(held[t]) \in Runways /\ Tail(held[t]) \in Seq(Runways)
    BY <2>1
  <2>3. closes' \in [Runways -> Nat]
    <3>1. \A r \in Runways : [closes EXCEPT ![r] = closes[r] + 1] \in [Runways -> Nat]
      BY DEF IInv, TypeOK
    <3> QED
      BY <2>1, <2>2, <3>1
  <2>4. held' \in [Creators -> Seq(Runways)]
    BY <2>1, <2>2 DEF IInv, TypeOK
  <2>5. TypeOK'
    BY <2>1, <2>3, <2>4 DEF IInv, TypeOK
  <2>6. PlaceInv' /\ ScanInv' /\ LevelInv'
    <3>1. PlaceInv'
      BY <2>1 DEF IInv, PlaceInv, Started
    <3>2. ScanInv'
      BY <2>1 DEF IInv, ScanInv, Found
    <3>3. LevelInv'
      BY <2>1 DEF IInv, LevelInv, TwoLevels, Started
    <3> QED
      BY <3>1, <3>2, <3>3
  <2> QED
    BY <2>5, <2>6 DEF IInv
<1>6. CASE Closed(t)
  <2>1. pc' \in [Creators -> {"idle", "scan", "connect", "close"}] /\ PlaceInv' /\ ScanInv' /\ LevelInv'
    BY <1>6, Elsewhere DEF Closed
  <2>2. UNCHANGED <<parallel, opens, closes, it, best, held, lost, disturbed, raced>>
    BY <1>6 DEF Closed
  <2>3. TypeOK'
    BY <2>1, <2>2 DEF IInv, TypeOK
  <2> QED
    BY <2>1, <2>3 DEF IInv
<1> QED
  BY <1>1, <1>2, <1>3, <1>4, <1>5, <1>6

(* Every reachable state satisfies the inductive invariant. *)
LEMMA Invariance == Spec => []IInv
<1>1. Init => IInv
  <2> SUFFICES ASSUME Init PROVE IInv
    OBVIOUS
  <2>1. <<>> \in Seq(Runways)
    OBVIOUS
  <2>2. TypeOK
    BY <2>1, ChoiceAssumption DEF Init, TypeOK
  <2>3. PlaceInv /\ ScanInv
    BY DEF Init, PlaceInv, ScanInv
  <2>4. LevelInv
    BY DEF Init, LevelInv
  <2> QED
    BY <2>2, <2>3, <2>4 DEF IInv
<1>2. IInv /\ [Next]_vars => IInv'
  <2> SUFFICES ASSUME IInv, [Next]_vars PROVE IInv'
    OBVIOUS
  <2>1. CASE \E n \in Runways : Start(n)
    BY <2>1, StartStep
  <2>2. ASSUME NEW t \in Creators, Thread(t) PROVE IInv'
    BY <2>2, BeginStep, CompareStep, SocketStep, OtherStep DEF Thread
  <2>3. CASE UNCHANGED vars
    <3>1. UNCHANGED <<parallel, opens, closes, pc, it, best, held, lost, disturbed, raced>>
      BY <2>3 DEF vars
    <3>2. TypeOK' /\ PlaceInv'
      BY <3>1 DEF IInv, TypeOK, PlaceInv, Started
    <3>3. ScanInv'
      BY <3>1 DEF IInv, ScanInv, Found
    <3>4. LevelInv'
      BY <3>1 DEF IInv, LevelInv, TwoLevels, Started
    <3> QED
      BY <3>2, <3>3, <3>4 DEF IInv
  <2> QED
    BY <2>1, <2>2, <2>3 DEF Next
<1> QED
  BY <1>1, <1>2, PTL DEF Spec

(* Every variable keeps its type. *)
THEOREM TypeCorrect == Spec => []TypeOK
<1>1. IInv => TypeOK
  BY DEF IInv
<1> QED
  BY <1>1, Invariance, PTL

(* What the comparison of Leopard::create computes. *)
THEOREM LastGroupIsChosen == Spec => []ChoosesLastGroup
<1>1. IInv => ChoosesLastGroup
  BY FoundIsLast DEF ChoosesLastGroup, Scanning
<1> QED
  BY <1>1, Invariance, PTL

(* Until two creators race, the runways carry the same load up to one. *)
THEOREM LoadIsEven == Spec => []Balanced
<1>1. IInv => Balanced
  <2> SUFFICES ASSUME IInv, raced = {}, NEW q \in Started, NEW r \in Started
               PROVE  opens[q] <= opens[r] + 1
    BY DEF Balanced
  <2>1. parallel \in Nat /\ parallel > 0
    BY DEF IInv, TypeOK, Started
  <2>2. PICK k \in Nat : \E a \in 0..parallel - 1 : TwoLevels(k, a)
    BY <2>1 DEF IInv, LevelInv
  <2>3. PICK a \in 0..parallel - 1 : TwoLevels(k, a)
    BY <2>2
  <2>4. opens[q] \in {k, k + 1} /\ opens[r] \in {k, k + 1}
    BY <2>3 DEF TwoLevels
  <2> QED
    BY <2>4
<1> QED
  BY <1>1, Invariance, PTL
-----------------------------------------------------------------------------
(* A client never has more connections than it wants, and has a place left *)
(* for the one being made.                                                 *)
HeldInv ==
  \A t \in Creators :
    /\ Len(held[t]) <= Lanes
    /\ pc[t] \in {"scan", "connect"} => Len(held[t]) < Lanes

(* The two kinds of use: the i-th connection of t, and the one t is making.*)
LEMMA UsingIs ==
  ASSUME TypeOK, HeldInv, NEW r
  PROVE  /\ \A t \in Creators : \A i \in 1..Len(held[t]) : <<t, i>> \in Using(r) <=> held[t][i] = r
         /\ \A t \in Creators : <<t, 0>> \in Using(r) <=> pc[t] = "connect" /\ best[t] = r
         /\ \A use \in Using(r) :
              /\ use = <<use[1], use[2]>> /\ use[1] \in Creators
              /\ use[2] \in 1..Len(held[use[1]]) \/ use[2] = 0
<1>1. \A t \in Creators : /\ DOMAIN held[t] = 1..Len(held[t])
                          /\ Len(held[t]) \in Nat /\ Len(held[t]) <= Lanes
  BY DEF TypeOK, HeldInv
<1>2. Lanes \in Nat
  BY ChoiceAssumption
<1>3. ASSUME NEW t \in Creators, NEW i \in 0..Lanes
      PROVE  <<t, i>> \in Using(r) <=> \/ i \in DOMAIN held[t] /\ held[t][i] = r
                                       \/ i = 0 /\ pc[t] = "connect" /\ best[t] = r
  BY DEF Using
<1>4. \A use \in Using(r) : use \in Creators \X (0..Lanes)
  BY DEF Using
<1>5. ASSUME NEW t \in Creators, NEW i \in 1..Len(held[t])
      PROVE  <<t, i>> \in Using(r) <=> held[t][i] = r
  <2>1. i \in 0..Lanes /\ i # 0 /\ i \in DOMAIN held[t]
    BY <1>1, <1>2
  <2> QED
    BY <1>3, <2>1
<1>6. ASSUME NEW t \in Creators
      PROVE  <<t, 0>> \in Using(r) <=> pc[t] = "connect" /\ best[t] = r
  <2>1. 0 \in 0..Lanes /\ 0 \notin DOMAIN held[t]
    BY <1>1, <1>2
  <2> QED
    BY <1>3, <2>1
<1>7. ASSUME NEW use \in Using(r)
      PROVE  /\ use = <<use[1], use[2]>> /\ use[1] \in Creators
             /\ use[2] \in 1..Len(held[use[1]]) \/ use[2] = 0
  <2>1. use = <<use[1], use[2]>> /\ use[1] \in Creators /\ use[2] \in 0..Lanes
    BY <1>4
  <2>2. use[2] \in DOMAIN held[use[1]] \/ use[2] = 0
    BY <1>3, <2>1
  <2> QED
    BY <1>1, <2>1, <2>2
<1> QED
  BY <1>5, <1>6, <1>7

LEMMA UsingFinite ==
  ASSUME NEW r
  PROVE  IsFiniteSet(Using(r)) /\ Cardinality(Using(r)) \in Nat
<1>1. IsFiniteSet(Creators) /\ Lanes \in Nat
  BY ChoiceAssumption
<1>2. IsFiniteSet(0..Lanes)
  BY <1>1, FS_Interval
<1>3. IsFiniteSet(Creators \X (0..Lanes))
  BY <1>1, <1>2, FS_Product
<1>4. Using(r) \subseteq Creators \X (0..Lanes)
  BY DEF Using
<1> QED
  BY <1>3, <1>4, FS_Subset, FS_CardinalityType

ConnsInv == HeldInv /\ ConnsCountsLost

(* An action after which every creator has the connections it had, and is  *)
(* making the one it was making, if any.                                   *)
LEMMA SameUse ==
  ASSUME TypeOK, HeldInv, TypeOK', HeldInv', UNCHANGED held,
         \A t \in Creators : /\ pc[t] = "connect" <=> pc'[t] = "connect"
                             /\ pc[t] = "connect" => best'[t] = best[t],
         NEW r
  PROVE  Using(r)' = Using(r)
BY DEF Using

(* A new connection is being made on b. *)
LEMMA SocketUse ==
  ASSUME TypeOK, HeldInv, HeldInv', NEW t \in Creators, pc[t] = "scan",
         pc' = [pc EXCEPT ![t] = "connect"], UNCHANGED <<held, best>>, NEW r
  PROVE  Cardinality(Using(r)') = Cardinality(Using(r)) + IF r = best[t] THEN 1 ELSE 0
<1>1. <<t, 0>> \notin Using(r)
  BY UsingIs
<1>2. \A u \in Creators : pc'[u] = IF u = t THEN "connect" ELSE pc[u]
  BY DEF TypeOK
<1>3. CASE r = best[t]
  <2>1. 0 \in 0..Lanes
    BY ChoiceAssumption
  <2>2. Using(r)' = Using(r) \cup {<<t, 0>>}
    BY <1>2, <1>3, <2>1 DEF Using
  <2> QED
    BY <1>1, <1>3, <2>2, UsingFinite, FS_AddElement
<1>4. CASE r # best[t]
  <2>1. Using(r)' = Using(r)
    BY <1>2, <1>4 DEF Using
  <2> QED
    BY <1>4, <2>1, UsingFinite
<1> QED
  BY <1>3, <1>4

(* The one that was being made is made, or is given up. *)
LEMMA ConnectFailsUse ==
  ASSUME TypeOK, HeldInv, NEW t \in Creators, pc[t] = "connect",
         pc' = [pc EXCEPT ![t] = "close"], UNCHANGED <<held, best>>, NEW r
  PROVE  Cardinality(Using(r)') = Cardinality(Using(r)) - IF r = best[t] THEN 1 ELSE 0
<1>1. \A u \in Creators : pc'[u] = IF u = t THEN "close" ELSE pc[u]
  BY DEF TypeOK
<1>2. CASE r = best[t]
  <2>1. <<t, 0>> \in Using(r)
    BY <1>2, UsingIs
  <2>2. 0 \notin DOMAIN held[t]
    BY DEF TypeOK
  <2>3. Using(r)' = Using(r) \ {<<t, 0>>}
    BY <1>1, <1>2, <2>2 DEF Using
  <2> QED
    BY <1>2, <2>1, <2>3, UsingFinite, FS_RemoveElement
<1>3. CASE r # best[t]
  <2>1. Using(r)' = Using(r)
    BY <1>1, <1>3 DEF Using
  <2> QED
    BY <1>3, <2>1, UsingFinite
<1> QED
  BY <1>2, <1>3

LEMMA Appended ==
  ASSUME NEW S, NEW s \in Seq(S), NEW e \in S
  PROVE  LET n == Len(s) + 1
         IN  /\ DOMAIN Append(s, e) = DOMAIN s \cup {n}
             /\ \A i \in DOMAIN s : Append(s, e)[i] = s[i]
             /\ Append(s, e)[n] = e
OBVIOUS

LEMMA ConnectedUse ==
  ASSUME TypeOK, HeldInv, HeldInv', NEW t \in Creators, pc[t] = "connect", best[t] \in Runways,
         pc' = [pc EXCEPT ![t] = "idle"], held' = [held EXCEPT ![t] = Append(held[t], best[t])],
         UNCHANGED best, NEW r
  PROVE  Cardinality(Using(r)') = Cardinality(Using(r))
<1> DEFINE n == Len(held[t]) + 1
<1>1. /\ held[t] \in Seq(Runways) /\ Len(held[t]) < Lanes /\ n \in 1..Lanes /\ n \notin DOMAIN held[t]
      /\ 0 \notin DOMAIN held[t]
  BY ChoiceAssumption DEF TypeOK, HeldInv
<1>2. /\ \A u \in Creators : pc'[u] = IF u = t THEN "idle" ELSE pc[u]
      /\ \A u \in Creators : held'[u] = IF u = t THEN Append(held[t], best[t]) ELSE held[u]
  BY DEF TypeOK
<1>3. /\ DOMAIN held'[t] = DOMAIN held[t] \cup {n}
      /\ \A i \in DOMAIN held[t] : held'[t][i] = held[t][i]
      /\ held'[t][n] = best[t]
  <2>1. held'[t] = Append(held[t], best[t])
    BY <1>2
  <2> QED
    BY ONLY <1>1, <2>1, best[t] \in Runways, Appended
<1>4. 0..Lanes = (1..Lanes) \cup {0} /\ 0 \notin 1..Lanes
  BY ChoiceAssumption
<1>5. CASE r = best[t]
  <2>1. <<t, 0>> \in Using(r) /\ <<t, n>> \notin Using(r)
    <3>1. <<t, n>> \notin Using(r)
      BY <1>1, <1>4 DEF Using
    <3> QED
      BY <1>5, <3>1, UsingIs
  <2>2. Using(r)' = (Using(r) \ {<<t, 0>>}) \cup {<<t, n>>}
    <3>1. ASSUME NEW u \in Creators, NEW i \in 0..Lanes
          PROVE  <<u, i>> \in Using(r)' <=> <<u, i>> \in (Using(r) \ {<<t, 0>>}) \cup {<<t, n>>}
      <4>1. CASE u # t
        BY <1>2, <4>1 DEF Using
      <4>2. CASE u = t
        BY <1>1, <1>2, <1>3, <1>5, <4>2 DEF Using
      <4> QED
        BY <4>1, <4>2
    <3>2. /\ Using(r)' \subseteq Creators \X (0..Lanes)
          /\ (Using(r) \ {<<t, 0>>}) \cup {<<t, n>>} \subseteq Creators \X (0..Lanes)
      BY <1>1, <1>4 DEF Using
    <3> DEFINE X == Using(r)'
               Y == (Using(r) \ {<<t, 0>>}) \cup {<<t, n>>}
    <3>3. X \in SUBSET (Creators \X (0..Lanes)) /\ Y \in SUBSET (Creators \X (0..Lanes))
      BY <3>2
    <3> HIDE DEF n, X, Y
    <3>4. X = Y
      <4>1. \A u \in Creators : \A i \in 0..Lanes : <<u, i>> \in X <=> <<u, i>> \in Y
        BY <3>1 DEF X, Y
      <4>2. \A use \in Creators \X (0..Lanes) : use \in X <=> use \in Y
        BY <4>1
      <4> QED
        BY <3>3, <4>2
    <3> QED
      BY <3>4 DEF X, Y
  <2>3. /\ IsFiniteSet(Using(r) \ {<<t, 0>>})
        /\ Cardinality(Using(r) \ {<<t, 0>>}) = Cardinality(Using(r)) - 1
    BY <2>1, UsingFinite, FS_RemoveElement
  <2>4. Cardinality(Using(r)') = Cardinality(Using(r)) - 1 + 1
    BY <2>1, <2>2, <2>3, FS_AddElement
  <2> QED
    BY <2>4, UsingFinite
<1>6. CASE r # best[t]
  <2>1. ASSUME NEW u \in Creators, NEW i \in 0..Lanes
        PROVE  <<u, i>> \in Using(r)' <=> <<u, i>> \in Using(r)
    <3>1. CASE u # t
      BY <1>2, <3>1 DEF Using
    <3>2. CASE u = t
      BY <1>1, <1>2, <1>3, <1>6, <3>2 DEF Using
    <3> QED
      BY <3>1, <3>2
  <2> DEFINE X == Using(r)'
             Y == Using(r)
  <2>2. X \in SUBSET (Creators \X (0..Lanes)) /\ Y \in SUBSET (Creators \X (0..Lanes))
    BY DEF Using
  <2>4. \A u \in Creators : \A i \in 0..Lanes : <<u, i>> \in X <=> <<u, i>> \in Y
    BY <2>1
  <2>5. X = Y
    <3> HIDE DEF X, Y
    <3>1. \A use \in Creators \X (0..Lanes) : use \in X <=> use \in Y
      BY <2>4
    <3> QED
      BY <2>2, <3>1
  <2>3. Using(r)' = Using(r)
    BY <2>5
  <2> QED
    BY <2>3
<1> QED
  BY <1>5, <1>6

(* The first connection is closed: the others move up by one. *)
LEMMA CloseUse ==
  ASSUME TypeOK, HeldInv, TypeOK', HeldInv', NEW t \in Creators, pc[t] = "close", held[t] # <<>>,
         held' = [held EXCEPT ![t] = Tail(held[t])], UNCHANGED <<pc, best>>, NEW r
  PROVE  Cardinality(Using(r)') = Cardinality(Using(r)) - IF r = Head(held[t]) THEN 1 ELSE 0
<1> DEFINE Old == Using(r) \ {<<t, 1>>}
           New == Using(r)'
           down(use) == IF use[1] = t THEN <<t, use[2] + 1>> ELSE use
           f == [use \in New |-> down(use)]
<1>1. /\ held[t] \in Seq(Runways) /\ Len(held[t]) \in Nat /\ Len(held[t]) >= 1
      /\ Head(held[t]) = held[t][1]
  BY DEF TypeOK
<1>2. /\ Len(Tail(held[t])) = Len(held[t]) - 1
      /\ \A i \in 1..Len(held[t]) - 1 : Tail(held[t])[i] = held[t][i + 1]
  BY <1>1
<1>3. /\ held'[t] = Tail(held[t]) /\ \A u \in Creators \ {t} : held'[u] = held[u]
  BY DEF TypeOK
<1>4. <<t, 1>> \in Using(r) <=> r = Head(held[t])
  <2>1. 1 \in 1..Len(held[t])
    BY <1>1
  <2> QED
    BY <1>1, <2>1, UsingIs
<1>5. IsFiniteSet(Old) /\ Cardinality(Old) = Cardinality(Using(r)) - IF r = Head(held[t]) THEN 1 ELSE 0
  <2>1. IsFiniteSet(Using(r)) /\ Cardinality(Using(r)) \in Nat
    BY UsingFinite
  <2>2. /\ IsFiniteSet(Old)
        /\ Cardinality(Old) = IF <<t, 1>> \in Using(r) THEN Cardinality(Using(r)) - 1 ELSE Cardinality(Using(r))
    BY <2>1, FS_RemoveElement
  <2> QED
    BY <1>4, <2>1, <2>2
<1>6. /\ \A u \in Creators : \A i \in 0..Lanes :
           <<u, i>> \in New <=>
             (i \in DOMAIN held'[u] /\ held'[u][i] = r) \/ (i = 0 /\ pc'[u] = "connect" /\ best'[u] = r)
      /\ \A use \in New : use \in Creators \X (0..Lanes)
  BY DEF Using
<1>7. /\ \A u \in Creators : \A i \in 0..Lanes :
           <<u, i>> \in Using(r) <=>
             (i \in DOMAIN held[u] /\ held[u][i] = r) \/ (i = 0 /\ pc[u] = "connect" /\ best[u] = r)
      /\ \A use \in Using(r) : use \in Creators \X (0..Lanes)
  BY DEF Using
<1>8. Lanes \in Nat /\ Len(held[t]) <= Lanes
  BY ChoiceAssumption DEF HeldInv
<1>9. ASSUME NEW i \in 0..Lanes
      PROVE  <<t, i>> \in New <=> i \in 1..Len(held[t]) - 1 /\ held[t][i + 1] = r
  <2>1. Tail(held[t]) \in Seq(Runways)
    BY <1>1
  <2>2. DOMAIN held'[t] = 1..Len(held[t]) - 1
    <3>1. DOMAIN Tail(held[t]) = 1..Len(Tail(held[t]))
      BY <2>1
    <3> QED
      BY <1>2, <1>3, <3>1
  <2>3. <<t, i>> \in New <=> i \in DOMAIN held'[t] /\ held'[t][i] = r
    BY <1>6
  <2>4. i \in 1..Len(held[t]) - 1 => held'[t][i] = held[t][i + 1]
    BY <1>2, <1>3
  <2> QED
    BY <2>2, <2>3, <2>4
<1>10. ASSUME NEW i \in 0..Lanes
       PROVE  <<t, i>> \in Using(r) <=> i \in 1..Len(held[t]) /\ held[t][i] = r
  <2>1. DOMAIN held[t] = 1..Len(held[t])
    BY <1>1
  <2>2. <<t, i>> \in Using(r) <=> i \in DOMAIN held[t] /\ held[t][i] = r
    BY <1>7
  <2> QED
    BY <2>1, <2>2
<1>11. ASSUME NEW u \in Creators \ {t}, NEW i \in 0..Lanes
       PROVE  <<u, i>> \in New <=> <<u, i>> \in Using(r)
  <2>1. <<u, i>> \in New <=>
             (i \in DOMAIN held'[u] /\ held'[u][i] = r) \/ (i = 0 /\ pc'[u] = "connect" /\ best'[u] = r)
    BY <1>6
  <2>2. <<u, i>> \in Using(r) <=>
             (i \in DOMAIN held[u] /\ held[u][i] = r) \/ (i = 0 /\ pc[u] = "connect" /\ best[u] = r)
    BY <1>7
  <2> QED
    BY <1>3, <2>1, <2>2
<1>12. f \in [New -> Old]
  <2> SUFFICES ASSUME NEW use \in New PROVE down(use) \in Old
    OBVIOUS
  <2>1. PICK u \in Creators, i \in 0..Lanes : use = <<u, i>>
    BY <1>6
  <2>2. CASE u = t
    <3>1. i \in 1..Len(held[t]) - 1 /\ held[t][i + 1] = r
      BY <1>9, <2>1, <2>2
    <3>2. i + 1 \in 0..Lanes /\ i + 1 \in 1..Len(held[t]) /\ i + 1 # 1
      BY <1>1, <1>8, <3>1
    <3>3. <<t, i + 1>> \in Using(r)
      BY <1>10, <3>1, <3>2
    <3>4. <<t, i + 1>> # <<t, 1>>
      BY <3>2
    <3> QED
      BY <2>1, <2>2, <3>3, <3>4
  <2>3. CASE u # t
    <3>1. <<u, i>> \in Using(r)
      BY <1>11, <2>1, <2>3
    <3> QED
      BY <2>1, <2>3, <3>1
  <2> QED
    BY <2>2, <2>3
<1>13. \A a, b \in New : f[a] = f[b] => a = b
  <2> SUFFICES ASSUME NEW a \in New, NEW b \in New, down(a) = down(b) PROVE a = b
    OBVIOUS
  <2>1. PICK u \in Creators, i \in 0..Lanes : a = <<u, i>>
    BY <1>6
  <2>2. PICK v \in Creators, j \in 0..Lanes : b = <<v, j>>
    BY <1>6
  <2> QED
    BY <1>8, <2>1, <2>2
<1>14. \A use \in Old : \E a \in New : f[a] = use
  <2> SUFFICES ASSUME NEW use \in Old PROVE \E a \in New : down(a) = use
    OBVIOUS
  <2>1. PICK u \in Creators, i \in 0..Lanes : use = <<u, i>>
    BY <1>7
  <2>2. CASE u = t
    <3>1. i \in 1..Len(held[t]) /\ held[t][i] = r
      BY <1>10, <2>1, <2>2
    <3>2. i # 1
      BY <2>1, <2>2
    <3>3. i - 1 \in 0..Lanes /\ i - 1 \in 1..Len(held[t]) - 1 /\ (i - 1) + 1 = i
      BY <1>1, <1>8, <3>1, <3>2
    <3>4. <<t, i - 1>> \in New
      BY <1>9, <3>1, <3>3
    <3>5. down(<<t, i - 1>>) = use
      BY <2>1, <2>2, <3>3
    <3> QED
      BY <3>4, <3>5
  <2>3. CASE u # t
    <3>1. <<u, i>> \in New
      BY <1>11, <2>1, <2>3
    <3> QED
      BY <2>1, <2>3, <3>1
  <2> QED
    BY <2>2, <2>3
<1>15. f \in Bijection(New, Old)
  <2> HIDE DEF New, Old
  <2> QED
    BY <1>12, <1>13, <1>14 DEF Bijection, Injection, Surjection, IsInjective
<1>16. IsFiniteSet(New) /\ Cardinality(Old) = Cardinality(New)
  <2>1. IsFiniteSet(Using(r)')
    <3>1. IsFiniteSet(Creators) /\ IsFiniteSet(0..Lanes)
      BY <1>8, ChoiceAssumption, FS_Interval
    <3>2. IsFiniteSet(Creators \X (0..Lanes))
      BY <3>1, FS_Product
    <3>3. New \in SUBSET (Creators \X (0..Lanes))
      BY <1>6
    <3> QED
      BY <3>2, <3>3, FS_Subset
  <2>2. ExistsBijection(New, Old)
    BY <1>15 DEF ExistsBijection
  <2> QED
    BY <2>1, <2>2, FS_Bijection
<1> QED
  BY <1>5, <1>16

LEMMA HeldStep ==
  ASSUME IInv, HeldInv, NEW t \in Creators, Thread(t)
  PROVE  HeldInv'
<1>1. /\ held \in [Creators -> Seq(Runways)] /\ pc \in [Creators -> {"idle", "scan", "connect", "close"}]
      /\ \A u \in Creators : Len(held[u]) \in Nat
      /\ Lanes \in Nat
  BY ChoiceAssumption DEF IInv, TypeOK
<1> SUFFICES ASSUME NEW u \in Creators
             PROVE  /\ Len(held'[u]) <= Lanes
                    /\ pc'[u] \in {"scan", "connect"} => Len(held'[u]) < Lanes
  BY DEF HeldInv
<1>2. /\ Len(held[u]) <= Lanes
      /\ pc[u] \in {"scan", "connect"} => Len(held[u]) < Lanes
  BY DEF HeldInv
<1>3. CASE Connected(t)
  <2>1. best[t] \in Runways
    BY <1>3, Numbers DEF Connected, Goto, IInv, PlaceInv
  <2>2. Len(Append(held[t], best[t])) = Len(held[t]) + 1
    BY <1>1, <2>1
  <2>3. pc[t] = "connect" /\ pc' = [pc EXCEPT ![t] = "idle"] /\ held' = [held EXCEPT ![t] = Append(held[t], best[t])]
    BY <1>3 DEF Connected, Goto
  <2> QED
    BY <1>1, <1>2, <2>2, <2>3
<1>4. CASE Close(t)
  <2>1. pc[t] = "close" /\ held[t] # <<>> /\ held' = [held EXCEPT ![t] = Tail(held[t])] /\ pc' = pc
    BY <1>4 DEF Close
  <2>2. Len(Tail(held[t])) = Len(held[t]) - 1
    BY <1>1, <2>1
  <2> QED
    BY <1>1, <1>2, <2>1, <2>2
<1>5. CASE Begin(t)
  BY <1>1, <1>2, <1>5 DEF Begin, Goto
<1>6. CASE Compare(t) \/ Socket(t) \/ SocketFails(t) \/ ConnectFails(t) \/ Drop(t) \/ Closed(t)
  BY <1>1, <1>2, <1>6 DEF Compare, Socket, SocketFails, ConnectFails, Drop, Closed, Goto
<1> QED
  BY <1>3, <1>4, <1>5, <1>6 DEF Thread

LEMMA CountStep ==
  ASSUME IInv, IInv', ConnsInv, NEW t \in Creators, Thread(t)
  PROVE  ConnsInv'
<1>1. TypeOK /\ TypeOK' /\ HeldInv /\ HeldInv'
  BY HeldStep DEF IInv, ConnsInv
<1> SUFFICES ASSUME NEW r \in Runways
             PROVE  opens'[r] = closes'[r] + Cardinality(Using(r)') + lost'[r]
  BY <1>1 DEF ConnsInv, ConnsCountsLost
<1>2. /\ opens[r] = closes[r] + Cardinality(Using(r)) + lost[r]
      /\ opens[r] \in Nat /\ closes[r] \in Nat /\ lost[r] \in Nat /\ Cardinality(Using(r)) \in Nat
  BY <1>1, UsingFinite DEF ConnsInv, ConnsCountsLost, TypeOK
<1>3. CASE Begin(t) \/ Compare(t) \/ SocketFails(t) \/ Drop(t) \/ Closed(t)
  <2>1. UNCHANGED <<opens, closes, lost, held>>
    BY <1>3 DEF Begin, Compare, SocketFails, Drop, Closed
  <2>2. \A u \in Creators : /\ pc[u] = "connect" <=> pc'[u] = "connect"
                            /\ pc[u] = "connect" => best'[u] = best[u]
    BY <1>1, <1>3 DEF TypeOK, Begin, Compare, SocketFails, Drop, Closed, Goto, Scanning
  <2>3. Using(r)' = Using(r)
    BY <1>1, <2>1, <2>2, SameUse
  <2> QED
    BY <1>2, <2>1, <2>3
<1>4. CASE Socket(t)
  <2>1. /\ pc[t] = "scan" /\ pc' = [pc EXCEPT ![t] = "connect"] /\ UNCHANGED <<held, best, closes, lost>>
        /\ opens' = [opens EXCEPT ![best[t]] = opens[best[t]] + 1]
    BY <1>4 DEF Socket, Goto
  <2>2. Cardinality(Using(r)') = Cardinality(Using(r)) + IF r = best[t] THEN 1 ELSE 0
    BY <1>1, <2>1, SocketUse
  <2>3. opens'[r] = opens[r] + IF r = best[t] THEN 1 ELSE 0
    BY <1>1, <1>2, <2>1 DEF TypeOK
  <2> QED
    BY <1>2, <2>1, <2>2, <2>3
<1>5. CASE ConnectFails(t)
  <2>1. /\ pc[t] = "connect" /\ pc' = [pc EXCEPT ![t] = "close"] /\ UNCHANGED <<held, best, closes, opens>>
        /\ lost' = [lost EXCEPT ![best[t]] = lost[best[t]] + 1]
    BY <1>5 DEF ConnectFails, Goto
  <2>2. Cardinality(Using(r)') = Cardinality(Using(r)) - IF r = best[t] THEN 1 ELSE 0
    BY <1>1, <2>1, ConnectFailsUse
  <2>3. lost'[r] = lost[r] + IF r = best[t] THEN 1 ELSE 0
    BY <1>1, <1>2, <2>1 DEF TypeOK
  <2> QED
    BY <1>2, <2>1, <2>2, <2>3
<1>6. CASE Connected(t)
  <2>1. /\ pc[t] = "connect" /\ pc' = [pc EXCEPT ![t] = "idle"] /\ UNCHANGED <<best, closes, opens, lost>>
        /\ held' = [held EXCEPT ![t] = Append(held[t], best[t])]
    BY <1>6 DEF Connected, Goto
  <2>2. best[t] \in Runways
    BY <2>1, Numbers DEF IInv, PlaceInv
  <2>3. Cardinality(Using(r)') = Cardinality(Using(r))
    BY <1>1, <2>1, <2>2, ConnectedUse
  <2> QED
    BY <1>2, <2>1, <2>3
<1>7. CASE Close(t)
  <2>1. /\ pc[t] = "close" /\ held[t] # <<>> /\ held' = [held EXCEPT ![t] = Tail(held[t])]
        /\ UNCHANGED <<pc, best, opens, lost>>
        /\ closes' = [closes EXCEPT ![Head(held[t])] = closes[Head(held[t])] + 1]
    BY <1>7 DEF Close
  <2>2. Cardinality(Using(r)') = Cardinality(Using(r)) - IF r = Head(held[t]) THEN 1 ELSE 0
    BY <1>1, <2>1, CloseUse
  <2>3. closes'[r] = closes[r] + IF r = Head(held[t]) THEN 1 ELSE 0
    <3>1. \A h : [closes EXCEPT ![h] = closes[h] + 1][r] = closes[r] + IF r = h THEN 1 ELSE 0
      BY <1>1, <1>2 DEF TypeOK
    <3> QED
      BY <2>1, <3>1
  <2> QED
    BY <1>2, <2>1, <2>2, <2>3
<1> QED
  BY <1>3, <1>4, <1>5, <1>6, <1>7 DEF Thread

(* The column "conns" of Metrix counts the connections in use, and the     *)
(* sockets whose connect failed.                                           *)
THEOREM ConnsAreInUse == Spec => []ConnsCountsLost
<1>1. Init => ConnsInv
  <2> SUFFICES ASSUME Init PROVE ConnsInv
    OBVIOUS
  <2>1. HeldInv
    BY ChoiceAssumption DEF Init, HeldInv
  <2>2. ASSUME NEW r \in Runways PROVE Using(r) = {}
    BY DEF Using, Init
  <2>3. ConnsCountsLost
    BY <2>2, FS_EmptySet DEF Init, ConnsCountsLost
  <2> QED
    BY <2>1, <2>3 DEF ConnsInv
<1>2. IInv /\ IInv' /\ ConnsInv /\ [Next]_vars => ConnsInv'
  <2> SUFFICES ASSUME IInv, IInv', ConnsInv, [Next]_vars PROVE ConnsInv'
    OBVIOUS
  <2>1. ASSUME NEW t \in Creators, Thread(t) PROVE ConnsInv'
    BY <2>1, CountStep
  <2>2. CASE UNCHANGED vars \/ \E n \in Runways : Start(n)
    <3>1. UNCHANGED <<opens, closes, pc, best, held, lost>>
      BY <2>2 DEF vars, Start
    <3>2. HeldInv'
      BY <3>1 DEF ConnsInv, HeldInv
    <3>3. ASSUME NEW r PROVE Using(r)' = Using(r)
      BY <3>1, <3>2, SameUse DEF IInv, ConnsInv
    <3>4. ConnsCountsLost'
      BY <3>1, <3>3 DEF ConnsInv, ConnsCountsLost
    <3> QED
      BY <3>2, <3>4 DEF ConnsInv
  <2> QED
    BY <2>1, <2>2 DEF Next
<1>3. ConnsInv => ConnsCountsLost
  BY DEF ConnsInv
<1> QED
  BY <1>1, <1>2, <1>3, Invariance, PTL DEF Spec
=============================================================================

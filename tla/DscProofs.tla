------------------------------- MODULE DscProofs -------------------------------
(***************************************************************************)
(* Proofs about Driver and Batches, the two halves of dsc.                 *)
(*                                                                         *)
(* Driver, for any number of nodes, reducers, mappers and partitions: the  *)
(* nodes are taken in turn, so that two requests of one stage are on the   *)
(* same node only when a whole round lies between them; and what the       *)
(* driver tells of the mappers is what it has started.                     *)
(*                                                                         *)
(* Batches, for any number of mappers, reducers and messages: the deal     *)
(* cuts a window into pieces, and no step leaves a record behind or takes  *)
(* one along twice.                                                        *)
(***************************************************************************)
EXTENDS Driver, Batches, FiniteSetTheorems, TLAPS

Working == {"reduce", "map", "kafka"}
Requests == sent \cup parsed \cup done

(* The node k turns before that of n, within one round. *)
Back(n, k) == IF k < n THEN n - k ELSE n - k + conf.workers

(* What the driver knows of the reducers and the mappers. *)
PlaceInv ==
  /\ stage = "start" => reduceVoxorIds = <<>> /\ mapVoxorIds = <<>> /\ step = 0 /\ at = "next"
  /\ stage = "reduce" => /\ mapVoxorIds = <<>>
                         /\ Len(reduceVoxorIds) = IF at = "next" THEN step ELSE step + 1
                         /\ at # "next" => node = reduceVoxorIds[step + 1]
  /\ stage = "map" => /\ Len(reduceVoxorIds) = conf.splitNums2
                      /\ Len(mapVoxorIds) = IF at = "next" THEN step ELSE step + 1
                      /\ at # "next" => node = mapVoxorIds[step + 1]
  /\ stage \in {"kafka", "finished"} => /\ Len(reduceVoxorIds) = conf.splitNums2
                                        /\ Len(mapVoxorIds) = conf.splitNums1
  /\ stage \in Working => step <= Turns(stage)
  /\ at # "next" => stage \in Working /\ step < Turns(stage) /\ node = cursor /\ cursor >= 1
  /\ stage \in {"start", "finished", "failed"} => at = "next"

Fed == {<<mapVoxorIds[m + 1], m>> : m \in 0..conf.splitNums1 - 1}

(* What a request says. *)
ReduceAsks(r) ==
  r.stage = "reduce" =>
    r.i < conf.splitNums2 /\ r.i < Len(reduceVoxorIds) /\ r.node = reduceVoxorIds[r.i + 1]

MapAsks(r) ==
  r.stage = "map" =>
    /\ stage \in {"map", "kafka", "finished", "failed"}
    /\ r.i < Len(mapVoxorIds) /\ r.node = mapVoxorIds[r.i + 1] /\ r.reducers = reduceVoxorIds

KafkaAsks(r) ==
  r.stage = "kafka" =>
    /\ stage \in {"kafka", "finished", "failed"}
    /\ Len(reduceVoxorIds) = conf.splitNums2 /\ Len(mapVoxorIds) = conf.splitNums1
    /\ r.i < conf.partitions /\ r.mappers = Share(r.i)

AskInv == \A r \in Requests : ReduceAsks(r) /\ MapAsks(r) /\ KafkaAsks(r) /\ r.stage \in Working

(* Where the requests of this stage are: one turn further back for each    *)
(* turn that has passed.                                                   *)
Ago(r) == IF at = "next" THEN step - 1 - r.i ELSE step - r.i

TurnInv ==
  \A r \in Requests :
    stage \in Working /\ r.stage = stage =>
      /\ Ago(r) >= 0 /\ (at = "create" => Ago(r) > 0)
      /\ Ago(r) < conf.workers => r.node = Back(cursor, Ago(r))

DistinctInv ==
  \A r, q \in Requests :
    r.stage = q.stage /\ r.node = q.node /\ r.i - q.i < conf.workers /\ q.i - r.i < conf.workers
      => r.i = q.i

(* What the nodes have of the requests. *)
ReducerInv ==
  /\ \A n \in Workers : \A i \in reducers[n] : \E r \in done : r.stage = "reduce" /\ r.node = n /\ r.i = i
  /\ \A r \in done : r.stage = "reduce" => r.i \in reducers[r.node]
  /\ conf.splitNums2 <= conf.workers => \A n \in Workers : \A i \in reducers[n] : reduceInput[n] = i

MapInv ==
  \A r \in done : r.stage = "map" => [key |-> r.i, reducers |-> r.reducers] \in maps[r.node]

KafkaInv ==
  /\ \A n \in Workers :
       /\ kafkaIndex[n] = -1 => kafkaMappers[n] = {}
       /\ kafkaIndex[n] # -1 =>
            /\ \E r \in parsed \cup done : r.stage = "kafka" /\ r.node = n /\ r.i = kafkaIndex[n]
            /\ conf.partitions <= conf.workers => kafkaMappers[n] = Share(kafkaIndex[n])
       /\ kafkaMappers[n] \subseteq Fed
  /\ \A r \in parsed \cup done : r.stage = "kafka" =>
       /\ kafkaIndex[r.node] # -1
       /\ conf.partitions <= conf.workers => kafkaIndex[r.node] = r.i
  /\ \A r \in parsed : r.stage = "kafka"

ConsumerInv ==
  \A n \in Workers : \A c \in consumers[n] :
    /\ \E r \in done : r.stage = "kafka" /\ r.node = n /\ r.i = c.asked
    /\ c.mappers \subseteq Fed
    /\ conf.partitions <= conf.workers => c.mappers = Share(c.asked) /\ c.started \in {-1, c.asked}

(* What has started when no answer was missing. *)
ReducersReady(s) == \A k \in 0..s - 1 : k \in reducers[reduceVoxorIds[k + 1]]
MappersReady(s) ==
  \A m \in 0..s - 1 : [key |-> m, reducers |-> reduceVoxorIds] \in maps[mapVoxorIds[m + 1]]

ReadyInv ==
  late = "no" =>
    /\ stage = "reduce" => ReducersReady(step)
    /\ stage = "map" => ReducersReady(conf.splitNums2) /\ MappersReady(step)
    /\ stage \in {"kafka", "finished"} \/ (\E r \in Requests : r.stage = "kafka") =>
         ReducersReady(conf.splitNums2) /\ MappersReady(conf.splitNums1)

IInv == /\ TypeOK /\ PlaceInv /\ AskInv /\ TurnInv /\ DistinctInv
        /\ ReducerInv /\ MapInv /\ KafkaInv /\ ConsumerInv /\ ReadyInv

(* The numbers. *)
LEMMA Numbers ==
  ASSUME TypeOK
  PROVE  /\ conf.workers \in Nat /\ conf.workers >= 1 /\ conf.workers <= MaxWorkers /\ MaxWorkers \in Nat
         /\ conf.splitNums1 \in Nat /\ conf.splitNums2 \in Nat /\ conf.partitions \in Nat
         /\ cursor \in Nat /\ cursor <= conf.workers /\ step \in Nat
         /\ Turns(stage) \in Nat
<1>1. MaxWorkers \in Nat
  BY DriverAssumption
<1>2. conf.workers \in 1..MaxWorkers /\ conf.splitNums1 \in Nat /\ conf.splitNums2 \in Nat
      /\ conf.partitions \in Nat
  BY DEF TypeOK, Workers
<1>3. cursor \in 0..conf.workers /\ step \in Nat
  BY DEF TypeOK
<1>4. Turns(stage) \in Nat
  BY <1>2 DEF Turns
<1> QED
  BY <1>1, <1>2, <1>3, <1>4

(* What nextNode returns is a node other than the driver's, and one turn   *)
(* after the one before.                                                   *)
LEMMA NextIndexTurns ==
  ASSUME TypeOK
  PROVE  /\ NextIndex \in Workers /\ NextIndex \in 1..conf.workers
         /\ \A k \in Nat : k + 1 < conf.workers => Back(NextIndex, k + 1) = Back(cursor, k)
<1>1. /\ conf.workers \in Nat /\ conf.workers >= 1 /\ conf.workers <= MaxWorkers /\ MaxWorkers \in Nat
      /\ cursor \in Nat /\ cursor <= conf.workers
  BY Numbers
<1>2. NextIndex = IF cursor + 1 > conf.workers THEN 1 ELSE cursor + 1
  BY DEF NextIndex
<1>3. NextIndex \in 1..conf.workers /\ NextIndex \in Workers
  BY <1>1, <1>2 DEF Workers
<1>4. ASSUME NEW k \in Nat, k + 1 < conf.workers
      PROVE  Back(NextIndex, k + 1) = Back(cursor, k)
  BY <1>1, <1>2, <1>4 DEF Back
<1> QED
  BY <1>3, <1>4

(* A mapper of a share is one the driver has started. *)
LEMMA ShareIsFed ==
  ASSUME TypeOK, NEW i \in Nat, Len(mapVoxorIds) = conf.splitNums1
  PROVE  Share(i) \subseteq Fed /\ Fed \subseteq Voxors
<1>1. \A m \in 0..conf.splitNums1 - 1 : mapVoxorIds[m + 1] \in Workers /\ m \in Nat
  <2> TAKE m \in 0..conf.splitNums1 - 1
  <2>1. conf.splitNums1 \in Nat
    BY Numbers
  <2>2. m \in Nat /\ m + 1 \in 1..Len(mapVoxorIds)
    BY <2>1
  <2>3. mapVoxorIds \in Seq(Workers)
    BY DEF TypeOK
  <2> QED
    BY <2>2, <2>3
<1>2. Fed \subseteq Voxors
  BY <1>1 DEF Fed, Voxors
<1>3. Share(i) \subseteq Fed
  BY DEF Share, Dealt, Fed
<1> QED
  BY <1>2, <1>3

LEMMA InitHolds == Init => IInv
<1> SUFFICES ASSUME Init PROVE IInv
  OBVIOUS
<1>1. /\ MaxWorkers \in Nat \ {0} /\ MaxReducers \in Nat /\ MaxMappers \in Nat /\ MaxPartitions \in Nat
  BY DriverAssumption
<1>2. /\ conf \in [workers : 1..MaxWorkers, splitNums1 : 0..MaxMappers, splitNums2 : 1..MaxReducers,
                    partitions : 1..MaxPartitions]
      /\ cursor = 0 /\ stage = "start" /\ step = 0 /\ at = "next" /\ node = 0
      /\ reduceVoxorIds = <<>> /\ mapVoxorIds = <<>> /\ late = "no"
      /\ sent = {} /\ parsed = {} /\ done = {}
      /\ reduceInput = [n \in Workers |-> -1] /\ reducers = [n \in Workers |-> {}]
      /\ maps = [n \in Workers |-> {}]
      /\ kafkaIndex = [n \in Workers |-> -1] /\ kafkaMappers = [n \in Workers |-> {}]
      /\ consumers = [n \in Workers |-> {}]
  BY DEF Init
<1>3. conf \in [workers : Workers, splitNums1 : Nat, splitNums2 : Nat, partitions : Nat \ {0}]
  BY <1>1, <1>2 DEF Workers
<1>4. conf.workers \in Nat
  BY <1>1, <1>2
<1>5. <<>> \in Seq(Workers)
  OBVIOUS
<1>6. TypeOK
  BY <1>2, <1>3, <1>4, <1>5 DEF TypeOK
<1>7. PlaceInv
  BY <1>2 DEF PlaceInv, Working
<1>8. AskInv /\ TurnInv /\ DistinctInv
  BY <1>2 DEF AskInv, TurnInv, DistinctInv, Requests
<1>9. ReducerInv /\ MapInv /\ KafkaInv /\ ConsumerInv
  BY <1>2 DEF ReducerInv, MapInv, KafkaInv, ConsumerInv
<1>10. ReadyInv
  BY <1>2 DEF ReadyInv, Requests
<1> QED
  BY <1>6, <1>7, <1>8, <1>9, <1>10 DEF IInv

(***************************************************************************)
(* What does not concern an invariant.                                     *)
(***************************************************************************)

(* A step of a node, or a lost request, leaves the driver alone.           *)
LEMMA DriverQuiet ==
  ASSUME PlaceInv, AskInv, TurnInv, DistinctInv, UNCHANGED <<conf, driver>>, Requests' \subseteq Requests
  PROVE  PlaceInv' /\ AskInv' /\ TurnInv' /\ DistinctInv'
<1>1. /\ conf' = conf /\ cursor' = cursor /\ stage' = stage /\ step' = step /\ at' = at /\ node' = node
      /\ reduceVoxorIds' = reduceVoxorIds /\ mapVoxorIds' = mapVoxorIds /\ late' = late
  BY DEF driver
<1>2. PlaceInv'
  BY <1>1 DEF PlaceInv, Turns
<1>3. \A i : Share(i)' = Share(i)
  BY <1>1 DEF Share, Dealt
<1>4. \A r : /\ (ReduceAsks(r))' = ReduceAsks(r) /\ (MapAsks(r))' = MapAsks(r)
            /\ (KafkaAsks(r))' = KafkaAsks(r) /\ (Ago(r))' = Ago(r)
  BY <1>1, <1>3 DEF ReduceAsks, MapAsks, KafkaAsks, Ago
<1>5. AskInv'
  BY <1>4 DEF AskInv
<1>6. \A k : Back(cursor, k)' = Back(cursor, k)
  BY <1>1 DEF Back
<1>7. TurnInv'
  BY <1>1, <1>4, <1>6 DEF TurnInv
<1>8. DistinctInv'
  BY <1>1 DEF DistinctInv
<1> QED
  BY <1>2, <1>5, <1>7, <1>8

(* A step of the driver leaves the nodes alone. *)
LEMMA WorkersQuiet ==
  ASSUME ReducerInv, MapInv, KafkaInv, ConsumerInv, UNCHANGED <<conf, mapVoxorIds, workers, parsed, done>>
  PROVE  ReducerInv' /\ MapInv' /\ KafkaInv' /\ ConsumerInv'
<1>1. /\ conf' = conf /\ mapVoxorIds' = mapVoxorIds /\ parsed' = parsed /\ done' = done
      /\ reduceInput' = reduceInput /\ reducers' = reducers /\ maps' = maps /\ kafkaIndex' = kafkaIndex
      /\ kafkaMappers' = kafkaMappers /\ consumers' = consumers
  BY DEF workers
<1>2. Fed' = Fed /\ \A i : Share(i)' = Share(i)
  BY <1>1 DEF Share, Dealt, Fed
<1>3. ReducerInv' /\ MapInv'
  BY <1>1 DEF ReducerInv, MapInv
<1>4. KafkaInv'
  BY <1>1, <1>2 DEF KafkaInv
<1>5. ConsumerInv'
  BY <1>1, <1>2 DEF ConsumerInv
<1> QED
  BY <1>3, <1>4, <1>5

(* What has started stays started. *)
LEMMA ReadyGrows ==
  ASSUME ReadyInv, UNCHANGED <<conf, driver>>, TypeOK,
         \A n \in Workers : reducers[n] \subseteq reducers'[n] /\ maps[n] \subseteq maps'[n],
         PlaceInv, AskInv,
         Requests' \subseteq Requests
  PROVE  ReadyInv'
<1>1. /\ conf' = conf /\ stage' = stage /\ step' = step /\ late' = late
      /\ reduceVoxorIds' = reduceVoxorIds /\ mapVoxorIds' = mapVoxorIds
  BY DEF driver
<1>2. reduceVoxorIds \in Seq(Workers) /\ mapVoxorIds \in Seq(Workers)
  BY DEF TypeOK
<1>3. ASSUME NEW s \in Nat, ReducersReady(s), s <= Len(reduceVoxorIds)
      PROVE  ReducersReady(s)'
  <2>1. \A k \in 0..s - 1 : reduceVoxorIds[k + 1] \in Workers
    BY <1>2, <1>3
  <2>2. \A k \in 0..s - 1 : k \in reducers'[reduceVoxorIds[k + 1]]
    BY <1>3, <2>1 DEF ReducersReady
  <2> QED
    BY <1>1, <2>2 DEF ReducersReady
<1>4. ASSUME NEW s \in Nat, MappersReady(s), s <= Len(mapVoxorIds)
      PROVE  MappersReady(s)'
  <2>1. \A m \in 0..s - 1 : mapVoxorIds[m + 1] \in Workers
    BY <1>2, <1>4
  <2>2. \A m \in 0..s - 1 : [key |-> m, reducers |-> reduceVoxorIds] \in maps'[mapVoxorIds[m + 1]]
    BY <1>4, <2>1 DEF MappersReady
  <2> QED
    BY <1>1, <2>2 DEF MappersReady
<1>5. conf.splitNums1 \in Nat /\ conf.splitNums2 \in Nat /\ step \in Nat
  BY Numbers
<1>6. /\ stage = "reduce" => step <= Len(reduceVoxorIds)
      /\ stage = "map" => conf.splitNums2 = Len(reduceVoxorIds) /\ step <= Len(mapVoxorIds)
  BY <1>5 DEF PlaceInv
<1>7. stage \in {"kafka", "finished"} \/ (\E r \in Requests : r.stage = "kafka") =>
        conf.splitNums2 = Len(reduceVoxorIds) /\ conf.splitNums1 = Len(mapVoxorIds)
  BY DEF PlaceInv, AskInv, KafkaAsks
<1>8. ASSUME late = "no", stage = "reduce"
      PROVE  ReducersReady(step)'
  BY <1>1, <1>3, <1>5, <1>6, <1>8 DEF ReadyInv
<1>9. ASSUME late = "no", stage = "map"
      PROVE  ReducersReady(conf.splitNums2)' /\ MappersReady(step)'
  BY <1>1, <1>3, <1>4, <1>5, <1>6, <1>9 DEF ReadyInv
<1>10. ASSUME late = "no", stage \in {"kafka", "finished"} \/ (\E r \in Requests : r.stage = "kafka")
       PROVE  ReducersReady(conf.splitNums2)' /\ MappersReady(conf.splitNums1)'
  BY <1>1, <1>3, <1>4, <1>5, <1>7, <1>10 DEF ReadyInv
<1> QED
  BY <1>1, <1>8, <1>9, <1>10 DEF ReadyInv

(***************************************************************************)
(* The steps of the nodes and of the network.                              *)
(***************************************************************************)

LEMMA LoseHolds ==
  ASSUME IInv, NEW r \in sent, Lose(r)
  PROVE  IInv'
<1>1. /\ sent' = sent \ {r} /\ parsed' = parsed /\ done' = done
      /\ UNCHANGED conf /\ UNCHANGED driver /\ UNCHANGED workers
  BY DEF Lose
<1>2. Requests' \subseteq Requests
  BY <1>1 DEF Requests
<1>3. PlaceInv' /\ AskInv' /\ TurnInv' /\ DistinctInv'
  BY <1>1, <1>2, DriverQuiet DEF IInv
<1>4. mapVoxorIds' = mapVoxorIds
  BY <1>1 DEF driver
<1>5. ReducerInv' /\ MapInv' /\ KafkaInv' /\ ConsumerInv'
  BY <1>1, <1>4, WorkersQuiet DEF IInv
<1>6. reducers' = reducers /\ maps' = maps
  BY <1>1 DEF workers
<1>7. ReadyInv'
  BY <1>1, <1>2, <1>6, ReadyGrows DEF IInv
<1>8. TypeOK'
  BY <1>1 DEF IInv, TypeOK, driver, workers
<1> QED
  BY <1>3, <1>5, <1>7, <1>8 DEF IInv

(* Two requests of a stage with no more turns than nodes are on different  *)
(* nodes.                                                                  *)
LEMMA ReducersApart ==
  ASSUME TypeOK, AskInv, DistinctInv, conf.splitNums2 <= conf.workers,
         NEW r \in Requests, NEW q \in Requests, r.stage = "reduce", q.stage = "reduce", r.node = q.node
  PROVE  r.i = q.i
<1>1. r.i < conf.splitNums2 /\ q.i < conf.splitNums2
  BY DEF AskInv, ReduceAsks
<1>2. r.i \in Nat /\ q.i \in Nat
  BY DEF TypeOK, Requests
<1>3. r.i - q.i < conf.workers /\ q.i - r.i < conf.workers
  BY <1>1, <1>2, Numbers
<1> QED
  BY <1>3 DEF DistinctInv

LEMMA PartitionsApart ==
  ASSUME TypeOK, AskInv, DistinctInv, conf.partitions <= conf.workers,
         NEW r \in Requests, NEW q \in Requests, r.stage = "kafka", q.stage = "kafka", r.node = q.node
  PROVE  r.i = q.i
<1>1. r.i < conf.partitions /\ q.i < conf.partitions
  BY DEF AskInv, KafkaAsks
<1>2. r.i \in Nat /\ q.i \in Nat
  BY DEF TypeOK, Requests
<1>3. r.i - q.i < conf.workers /\ q.i - r.i < conf.workers
  BY <1>1, <1>2, Numbers
<1> QED
  BY <1>3 DEF DistinctInv

LEMMA ReduceStartHolds ==
  ASSUME IInv, NEW r \in sent, ReduceStart(r)
  PROVE  IInv'
<1>1. /\ r.stage = "reduce" /\ sent' = sent \ {r} /\ done' = done \cup {r} /\ parsed' = parsed
      /\ reduceInput' = [reduceInput EXCEPT ![r.node] = r.i]
      /\ reducers' = [reducers EXCEPT ![r.node] = reducers[r.node] \cup {r.i}]
      /\ UNCHANGED conf /\ UNCHANGED driver
      /\ maps' = maps /\ kafkaIndex' = kafkaIndex /\ kafkaMappers' = kafkaMappers /\ consumers' = consumers
  BY DEF ReduceStart, Handled
<1>2. Requests' = Requests /\ r \in Requests
  BY <1>1 DEF Requests
<1>3. PlaceInv' /\ AskInv' /\ TurnInv' /\ DistinctInv'
  BY <1>1, <1>2, DriverQuiet DEF IInv
<1>4. r.node \in Workers /\ r.i \in Nat
  BY DEF IInv, TypeOK
<1>5. /\ reduceInput \in [Workers -> Int] /\ reducers \in [Workers -> SUBSET Nat]
  BY DEF IInv, TypeOK
<1>6. /\ \A n \in Workers : reducers'[n] = IF n = r.node THEN reducers[n] \cup {r.i} ELSE reducers[n]
      /\ \A n \in Workers : reduceInput'[n] = IF n = r.node THEN r.i ELSE reduceInput[n]
      /\ reduceInput' \in [Workers -> Int] /\ reducers' \in [Workers -> SUBSET Nat]
  <2>1. reducers[r.node] \cup {r.i} \in SUBSET Nat
    BY <1>4, <1>5
  <2>2. \A n \in Workers : reducers'[n] = IF n = r.node THEN reducers[n] \cup {r.i} ELSE reducers[n]
    BY <1>1, <1>4, <1>5
  <2>3. \A n \in Workers : reduceInput'[n] = IF n = r.node THEN r.i ELSE reduceInput[n]
    BY <1>1, <1>4, <1>5
  <2>4. reduceInput' \in [Workers -> Int]
    BY <1>1, <1>4, <1>5
  <2>5. reducers' \in [Workers -> SUBSET Nat]
    BY <1>1, <1>5, <2>1
  <2> QED
    BY <2>2, <2>3, <2>4, <2>5
<1>7. TypeOK'
  <2>1. \A q \in sent' \cup parsed' \cup done' : q \in sent \cup parsed \cup done
    BY <1>1
  <2> QED
    BY <1>1, <1>6, <2>1 DEF IInv, TypeOK, driver
<1>8. ReducerInv'
  <2>1. ASSUME NEW n \in Workers, NEW i \in reducers'[n]
        PROVE  \E q \in done' : q.stage = "reduce" /\ q.node = n /\ q.i = i
    <3>1. CASE i \in reducers[n]
      <4>1. PICK q \in done : q.stage = "reduce" /\ q.node = n /\ q.i = i
        BY <3>1 DEF IInv, ReducerInv
      <4> QED
        BY <1>1, <4>1
    <3>2. CASE i \notin reducers[n]
      BY <1>1, <1>6, <2>1, <3>2
    <3> QED
      BY <3>1, <3>2
  <2>2. ASSUME NEW q \in done', q.stage = "reduce"
        PROVE  q.i \in reducers'[q.node]
    <3>1. q.node \in Workers
      BY <1>1, <1>4 DEF IInv, TypeOK
    <3>2. CASE q = r
      BY <1>4, <1>6, <3>2
    <3>3. CASE q \in done
      BY <1>6, <2>2, <3>1, <3>3 DEF IInv, ReducerInv
    <3> QED
      BY <1>1, <3>2, <3>3
  <2>3. ASSUME conf.splitNums2 <= conf.workers, NEW n \in Workers, NEW i \in reducers'[n]
        PROVE  reduceInput'[n] = i
    <3>1. CASE n = r.node
      <4>1. PICK q \in done' : q.stage = "reduce" /\ q.node = n /\ q.i = i
        BY <2>1, <2>3
      <4>2. q \in Requests
        BY <1>2, <4>1 DEF Requests
      <4>3. r.i = q.i
        BY <1>1, <1>2, <2>3, <3>1, <4>1, <4>2, ReducersApart DEF IInv
      <4> QED
        BY <1>6, <3>1, <4>1, <4>3
    <3>2. CASE n # r.node
      BY <1>6, <2>3, <3>2 DEF IInv, ReducerInv
    <3> QED
      BY <3>1, <3>2
  <2> QED
    BY <1>1, <2>1, <2>2, <2>3 DEF ReducerInv
<1>9. MapInv'
  BY <1>1 DEF IInv, MapInv
<1>10. Fed' = Fed /\ \A i : Share(i)' = Share(i)
  BY <1>1 DEF Share, Dealt, Fed, driver
<1>11. KafkaInv'
  <2>1. \A q \in parsed' \cup done' : q.stage = "kafka" => q \in parsed \cup done
    BY <1>1
  <2> QED
    BY <1>1, <1>10, <2>1 DEF IInv, KafkaInv
<1>12. ConsumerInv'
  BY <1>1, <1>10 DEF IInv, ConsumerInv
<1>13. \A n \in Workers : reducers[n] \subseteq reducers'[n] /\ maps[n] \subseteq maps'[n]
  BY <1>1, <1>6
<1>14. ReadyInv'
  BY <1>1, <1>2, <1>13, ReadyGrows DEF IInv
<1> QED
  BY <1>3, <1>7, <1>8, <1>9, <1>11, <1>12, <1>14 DEF IInv

LEMMA MapStartHolds ==
  ASSUME IInv, NEW r \in sent, MapStart(r)
  PROVE  IInv'
<1> DEFINE entry == [key |-> r.i, reducers |-> r.reducers]
<1>1. /\ r.stage = "map" /\ sent' = sent \ {r} /\ done' = done \cup {r} /\ parsed' = parsed
      /\ maps' = [maps EXCEPT ![r.node] = maps[r.node] \cup {entry}]
      /\ UNCHANGED conf /\ UNCHANGED driver
      /\ reduceInput' = reduceInput /\ reducers' = reducers
      /\ kafkaIndex' = kafkaIndex /\ kafkaMappers' = kafkaMappers /\ consumers' = consumers
  BY DEF MapStart, Handled
<1>2. Requests' = Requests /\ r \in Requests
  BY <1>1 DEF Requests
<1>3. PlaceInv' /\ AskInv' /\ TurnInv' /\ DistinctInv'
  BY <1>1, <1>2, DriverQuiet DEF IInv
<1>4. r.node \in Workers /\ entry \in [key : Nat, reducers : Seq(Workers)]
  BY DEF IInv, TypeOK
<1>5. maps \in [Workers -> SUBSET [key : Nat, reducers : Seq(Workers)]]
  BY DEF IInv, TypeOK
<1> HIDE DEF entry
<1>6. \A n \in Workers : maps'[n] = IF n = r.node THEN maps[n] \cup {entry} ELSE maps[n]
  BY <1>1, <1>4, <1>5
<1>7. maps' \in [Workers -> SUBSET [key : Nat, reducers : Seq(Workers)]]
  <2>1. maps[r.node] \cup {entry} \in SUBSET [key : Nat, reducers : Seq(Workers)]
    BY <1>4, <1>5
  <2> QED
    BY <1>1, <1>5, <2>1
<1>8. TypeOK'
  <2>1. \A q \in sent' \cup parsed' \cup done' : q \in sent \cup parsed \cup done
    BY <1>1
  <2> QED
    BY <1>1, <1>7, <2>1 DEF IInv, TypeOK, driver
<1>9. ReducerInv'
  <2>1. \A q \in done' : q.stage = "reduce" => q \in done
    BY <1>1
  <2> QED
    BY <1>1, <2>1 DEF IInv, ReducerInv
<1>10. MapInv'
  <2> SUFFICES ASSUME NEW q \in done', q.stage = "map"
               PROVE  [key |-> q.i, reducers |-> q.reducers] \in maps'[q.node]
    BY DEF MapInv
  <2>1. q.node \in Workers
    BY <1>1, <1>4 DEF IInv, TypeOK
  <2>2. CASE q = r
    BY <1>4, <1>6, <2>2 DEF entry
  <2>3. CASE q \in done
    BY <1>6, <2>1, <2>3 DEF IInv, MapInv
  <2> QED
    BY <1>1, <2>2, <2>3
<1>11. Fed' = Fed /\ \A i : Share(i)' = Share(i)
  BY <1>1 DEF Share, Dealt, Fed, driver
<1>12. KafkaInv'
  <2>1. \A q \in parsed' \cup done' : q.stage = "kafka" => q \in parsed \cup done
    BY <1>1
  <2> QED
    BY <1>1, <1>11, <2>1 DEF IInv, KafkaInv
<1>13. ConsumerInv'
  BY <1>1, <1>11 DEF IInv, ConsumerInv
<1>14. \A n \in Workers : reducers[n] \subseteq reducers'[n] /\ maps[n] \subseteq maps'[n]
  BY <1>1, <1>6
<1>15. ReadyInv'
  BY <1>1, <1>2, <1>14, ReadyGrows DEF IInv
<1> QED
  BY <1>3, <1>8, <1>9, <1>10, <1>12, <1>13, <1>15 DEF IInv

(* A second request for the node only comes when there are more partitions *)
(* than nodes; otherwise what fromJson appends to is empty, or the same.   *)
LEMMA KafkaParseHolds ==
  ASSUME IInv, NEW r \in sent, KafkaParse(r)
  PROVE  IInv'
<1>1. /\ r.stage = "kafka" /\ sent' = sent \ {r} /\ parsed' = parsed \cup {r} /\ done' = done
      /\ kafkaIndex' = [kafkaIndex EXCEPT ![r.node] = r.i]
      /\ kafkaMappers' = [kafkaMappers EXCEPT ![r.node] = kafkaMappers[r.node] \cup r.mappers]
      /\ UNCHANGED conf /\ UNCHANGED driver
      /\ reduceInput' = reduceInput /\ reducers' = reducers /\ maps' = maps /\ consumers' = consumers
  BY DEF KafkaParse
<1>2. Requests' = Requests /\ r \in Requests
  BY <1>1 DEF Requests
<1>3. PlaceInv' /\ AskInv' /\ TurnInv' /\ DistinctInv'
  BY <1>1, <1>2, DriverQuiet DEF IInv
<1>4. r.node \in Workers /\ r.i \in Nat /\ r.mappers \in SUBSET Voxors
  BY DEF IInv, TypeOK
<1>5. kafkaIndex \in [Workers -> Int] /\ kafkaMappers \in [Workers -> SUBSET Voxors]
  BY DEF IInv, TypeOK
<1>6. /\ \A n \in Workers : kafkaIndex'[n] = IF n = r.node THEN r.i ELSE kafkaIndex[n]
      /\ \A n \in Workers : kafkaMappers'[n] = IF n = r.node THEN kafkaMappers[n] \cup r.mappers
                                                               ELSE kafkaMappers[n]
  BY <1>1, <1>4, <1>5
<1>7. kafkaIndex' \in [Workers -> Int] /\ kafkaMappers' \in [Workers -> SUBSET Voxors]
  <2>1. kafkaMappers[r.node] \cup r.mappers \in SUBSET Voxors
    BY <1>4, <1>5
  <2>2. kafkaIndex' \in [Workers -> Int]
    BY <1>1, <1>4, <1>5
  <2>3. kafkaMappers' \in [Workers -> SUBSET Voxors]
    BY <1>1, <1>5, <2>1
  <2> QED
    BY <2>2, <2>3
<1>8. TypeOK'
  <2>1. \A q \in sent' \cup parsed' \cup done' : q \in sent \cup parsed \cup done
    BY <1>1
  <2> QED
    BY <1>1, <1>7, <2>1 DEF IInv, TypeOK, driver
<1>9. ReducerInv' /\ MapInv'
  BY <1>1 DEF IInv, ReducerInv, MapInv
<1>10. Fed' = Fed /\ \A i : Share(i)' = Share(i)
  BY <1>1 DEF Share, Dealt, Fed, driver
<1>11. ConsumerInv'
  BY <1>1, <1>10 DEF IInv, ConsumerInv
<1>12. r.mappers = Share(r.i) /\ r.mappers \subseteq Fed
  <2>1. r.mappers = Share(r.i) /\ Len(mapVoxorIds) = conf.splitNums1
    BY <1>1, <1>2 DEF IInv, AskInv, KafkaAsks
  <2> QED
    BY <1>4, <2>1, ShareIsFed DEF IInv
<1>13. conf.partitions <= conf.workers => kafkaMappers'[r.node] = Share(r.i)
  <2> HAVE conf.partitions <= conf.workers
  <2>1. CASE kafkaIndex[r.node] = -1
    BY <1>4, <1>6, <1>12, <2>1 DEF IInv, KafkaInv
  <2>2. CASE kafkaIndex[r.node] # -1
    <3>1. PICK q \in parsed \cup done : q.stage = "kafka" /\ q.node = r.node /\ q.i = kafkaIndex[r.node]
      BY <1>4, <2>2 DEF IInv, KafkaInv
    <3>2. q.i = r.i
      BY <1>1, <1>2, <3>1, PartitionsApart DEF IInv, Requests
    <3>3. kafkaMappers[r.node] = Share(r.i)
      BY <1>4, <2>2, <3>1, <3>2 DEF IInv, KafkaInv
    <3> QED
      BY <1>4, <1>6, <1>12, <3>3
  <2> QED
    BY <2>1, <2>2
<1>14. KafkaInv'
  <2>1. ASSUME NEW n \in Workers, kafkaIndex'[n] = -1
        PROVE  kafkaMappers'[n] = {}
    <3>1. n # r.node
      BY <1>4, <1>6, <2>1
    <3> QED
      BY <1>6, <2>1, <3>1 DEF IInv, KafkaInv
  <2>2. ASSUME NEW n \in Workers, kafkaIndex'[n] # -1
        PROVE  /\ \E q \in parsed' \cup done' : q.stage = "kafka" /\ q.node = n /\ q.i = kafkaIndex'[n]
               /\ conf.partitions <= conf.workers => kafkaMappers'[n] = Share(kafkaIndex'[n])
    <3>1. CASE n = r.node
      BY <1>1, <1>6, <1>13, <3>1
    <3>2. CASE n # r.node
      <4>1. kafkaIndex'[n] = kafkaIndex[n] /\ kafkaMappers'[n] = kafkaMappers[n]
        BY <1>6, <3>2
      <4>2. PICK q \in parsed \cup done : q.stage = "kafka" /\ q.node = n /\ q.i = kafkaIndex[n]
        BY <2>2, <4>1 DEF IInv, KafkaInv
      <4>3. conf.partitions <= conf.workers => kafkaMappers[n] = Share(kafkaIndex[n])
        BY <2>2, <4>1 DEF IInv, KafkaInv
      <4>4. q \in parsed' \cup done'
        BY <1>1
      <4> QED
        BY <4>1, <4>2, <4>3, <4>4
    <3> QED
      BY <3>1, <3>2
  <2>3. ASSUME NEW n \in Workers
        PROVE  kafkaMappers'[n] \subseteq Fed
    <3>1. kafkaMappers[n] \subseteq Fed
      BY DEF IInv, KafkaInv
    <3>2. kafkaMappers'[n] \subseteq kafkaMappers[n] \cup r.mappers
      BY <1>6
    <3> QED
      BY <1>12, <3>1, <3>2
  <2>4. ASSUME NEW q \in parsed' \cup done', q.stage = "kafka"
        PROVE  kafkaIndex'[q.node] # -1 /\ (conf.partitions <= conf.workers => kafkaIndex'[q.node] = q.i)
    <3>1. q \in Requests /\ q.node \in Workers
      BY <1>1 DEF Requests, IInv, TypeOK
    <3>2. CASE q.node = r.node
      <4>1. conf.partitions <= conf.workers => q.i = r.i
        BY <1>1, <1>2, <2>4, <3>1, <3>2, PartitionsApart DEF IInv
      <4>2. kafkaIndex'[q.node] = r.i /\ r.i # -1
        BY <1>4, <1>6, <3>1, <3>2
      <4> QED
        BY <4>1, <4>2
    <3>3. CASE q.node # r.node
      <4>1. q \in parsed \cup done
        BY <1>1, <3>3
      <4> QED
        BY <1>6, <2>4, <3>1, <3>3, <4>1 DEF IInv, KafkaInv
    <3> QED
      BY <3>2, <3>3
  <2>5. \A q \in parsed' : q.stage = "kafka"
    BY <1>1 DEF IInv, KafkaInv
  <2>6. conf' = conf
    BY <1>1
  <2> QED
    BY <1>10, <2>1, <2>2, <2>3, <2>4, <2>5, <2>6 DEF KafkaInv
<1>15. \A n \in Workers : reducers[n] \subseteq reducers'[n] /\ maps[n] \subseteq maps'[n]
  BY <1>1
<1>16. ReadyInv'
  BY <1>1, <1>2, <1>15, ReadyGrows DEF IInv
<1> QED
  BY <1>3, <1>8, <1>9, <1>11, <1>14, <1>16 DEF IInv

LEMMA KafkaCreateHolds ==
  ASSUME IInv, NEW r \in parsed, KafkaCreate(r)
  PROVE  IInv'
<1> DEFINE new == [asked |-> r.i, mappers |-> kafkaMappers[r.node], started |-> -1]
           Consumer == [asked : Nat, mappers : SUBSET Voxors, started : Int]
<1>1. /\ parsed' = parsed \ {r} /\ done' = done \cup {r} /\ sent' = sent
      /\ consumers' = [consumers EXCEPT ![r.node] = consumers[r.node] \cup {new}]
      /\ UNCHANGED conf /\ UNCHANGED driver
      /\ reduceInput' = reduceInput /\ reducers' = reducers /\ maps' = maps
      /\ kafkaIndex' = kafkaIndex /\ kafkaMappers' = kafkaMappers
  BY DEF KafkaCreate
<1>2. Requests' = Requests /\ r \in Requests
  BY <1>1 DEF Requests
<1>3. PlaceInv' /\ AskInv' /\ TurnInv' /\ DistinctInv'
  BY <1>1, <1>2, DriverQuiet DEF IInv
<1>4. r.node \in Workers /\ r.i \in Nat /\ r.stage = "kafka"
  BY DEF IInv, TypeOK, KafkaInv
<1>5. new \in Consumer /\ new.asked = r.i /\ new.mappers = kafkaMappers[r.node] /\ new.started = -1
  <2>1. kafkaMappers[r.node] \in SUBSET Voxors
    BY <1>4 DEF IInv, TypeOK
  <2> QED
    BY <1>4, <2>1
<1>6. consumers \in [Workers -> SUBSET Consumer]
  BY DEF IInv, TypeOK
<1> HIDE DEF new, Consumer
<1>7. \A n \in Workers : consumers'[n] = IF n = r.node THEN consumers[n] \cup {new} ELSE consumers[n]
  BY <1>1, <1>4, <1>6
<1>8. consumers' \in [Workers -> SUBSET Consumer]
  <2>1. consumers[r.node] \cup {new} \in SUBSET Consumer
    BY <1>4, <1>5, <1>6
  <2> QED
    BY <1>1, <1>6, <2>1
<1>9. TypeOK'
  <2>1. \A q \in sent' \cup parsed' \cup done' : q \in sent \cup parsed \cup done
    BY <1>1
  <2> QED
    BY <1>1, <1>8, <2>1 DEF IInv, TypeOK, driver, Consumer
<1>10. ReducerInv'
  <2>1. \A q \in done' : q.stage = "reduce" => q \in done
    BY <1>1, <1>4
  <2> QED
    BY <1>1, <2>1 DEF IInv, ReducerInv
<1>11. MapInv'
  <2>1. \A q \in done' : q.stage = "map" => q \in done
    BY <1>1, <1>4
  <2> QED
    BY <1>1, <2>1 DEF IInv, MapInv
<1>12. Fed' = Fed /\ \A i : Share(i)' = Share(i)
  BY <1>1 DEF Share, Dealt, Fed, driver
<1>13. KafkaInv'
  <2>1. parsed' \cup done' = parsed \cup done /\ \A q \in parsed' : q \in parsed
    BY <1>1
  <2> QED
    BY <1>1, <1>12, <2>1 DEF IInv, KafkaInv
<1>14. ConsumerInv'
  <2> SUFFICES ASSUME NEW n \in Workers, NEW c \in consumers'[n]
               PROVE  /\ \E q \in done' : q.stage = "kafka" /\ q.node = n /\ q.i = c.asked
                      /\ c.mappers \subseteq Fed
                      /\ conf.partitions <= conf.workers =>
                           c.mappers = Share(c.asked) /\ c.started \in {-1, c.asked}
    BY <1>1, <1>12 DEF ConsumerInv
  <2>1. CASE c \in consumers[n]
    <3>1. PICK q \in done : q.stage = "kafka" /\ q.node = n /\ q.i = c.asked
      BY <2>1 DEF IInv, ConsumerInv
    <3>2. c.mappers \subseteq Fed
      BY <2>1 DEF IInv, ConsumerInv
    <3>3. conf.partitions <= conf.workers => c.mappers = Share(c.asked) /\ c.started \in {-1, c.asked}
      BY <2>1 DEF IInv, ConsumerInv
    <3> QED
      BY <1>1, <3>1, <3>2, <3>3
  <2>2. CASE c \notin consumers[n]
    <3>1. n = r.node /\ c = new
      BY <1>7, <2>2
    <3>2. r \in done'
      BY <1>1
    <3>3. kafkaMappers[n] \subseteq Fed
      BY DEF IInv, KafkaInv
    <3>4. conf.partitions <= conf.workers => kafkaMappers[n] = Share(r.i)
      BY <1>4, <3>1 DEF IInv, KafkaInv
    <3> QED
      BY <1>4, <1>5, <3>1, <3>2, <3>3, <3>4
  <2> QED
    BY <2>1, <2>2
<1>15. \A n \in Workers : reducers[n] \subseteq reducers'[n] /\ maps[n] \subseteq maps'[n]
  BY <1>1
<1>16. ReadyInv'
  BY <1>1, <1>2, <1>15, ReadyGrows DEF IInv
<1> QED
  BY <1>3, <1>9, <1>10, <1>11, <1>13, <1>14, <1>16 DEF IInv

LEMMA KafkaThreadHolds ==
  ASSUME IInv, NEW n \in Workers, NEW c \in consumers[n], KafkaThread(n, c)
  PROVE  IInv'
<1> DEFINE new == [asked |-> c.asked, mappers |-> c.mappers, started |-> kafkaIndex[n]]
           Consumer == [asked : Nat, mappers : SUBSET Voxors, started : Int]
<1>1. /\ consumers' = [consumers EXCEPT ![n] = (consumers[n] \ {c}) \cup {new}]
      /\ UNCHANGED conf /\ UNCHANGED driver /\ sent' = sent /\ parsed' = parsed /\ done' = done
      /\ reduceInput' = reduceInput /\ reducers' = reducers /\ maps' = maps
      /\ kafkaIndex' = kafkaIndex /\ kafkaMappers' = kafkaMappers
  BY DEF KafkaThread, network
<1>2. Requests' = Requests
  BY <1>1 DEF Requests
<1>3. PlaceInv' /\ AskInv' /\ TurnInv' /\ DistinctInv'
  BY <1>1, <1>2, DriverQuiet DEF IInv
<1>4. consumers \in [Workers -> SUBSET Consumer] /\ c \in Consumer
  BY DEF IInv, TypeOK
<1>5. new \in Consumer /\ new.asked = c.asked /\ new.mappers = c.mappers /\ new.started = kafkaIndex[n]
  <2>1. kafkaIndex[n] \in Int
    BY DEF IInv, TypeOK
  <2> QED
    BY <1>4, <2>1
<1> HIDE DEF new, Consumer
<1>6. \A m \in Workers : consumers'[m] = IF m = n THEN (consumers[n] \ {c}) \cup {new} ELSE consumers[m]
  BY <1>1, <1>4
<1>7. consumers' \in [Workers -> SUBSET Consumer]
  <2>1. (consumers[n] \ {c}) \cup {new} \in SUBSET Consumer
    BY <1>4, <1>5
  <2> QED
    BY <1>1, <1>4, <2>1
<1>8. TypeOK'
  BY <1>1, <1>7 DEF IInv, TypeOK, driver, Consumer
<1>9. ReducerInv' /\ MapInv'
  BY <1>1 DEF IInv, ReducerInv, MapInv
<1>10. Fed' = Fed /\ \A i : Share(i)' = Share(i)
  BY <1>1 DEF Share, Dealt, Fed, driver
<1>11. KafkaInv'
  BY <1>1, <1>10 DEF IInv, KafkaInv
<1>12. /\ \E q \in done : q.stage = "kafka" /\ q.node = n /\ q.i = c.asked
       /\ c.mappers \subseteq Fed
       /\ conf.partitions <= conf.workers => c.mappers = Share(c.asked) /\ c.started \in {-1, c.asked}
  BY DEF IInv, ConsumerInv
<1>13. conf.partitions <= conf.workers => kafkaIndex[n] = c.asked
  BY <1>12 DEF IInv, KafkaInv
<1>14. ConsumerInv'
  <2> SUFFICES ASSUME NEW m \in Workers, NEW d \in consumers'[m]
               PROVE  /\ \E q \in done : q.stage = "kafka" /\ q.node = m /\ q.i = d.asked
                      /\ d.mappers \subseteq Fed
                      /\ conf.partitions <= conf.workers =>
                           d.mappers = Share(d.asked) /\ d.started \in {-1, d.asked}
    BY <1>1, <1>10 DEF ConsumerInv
  <2>1. CASE d \in consumers[m]
    BY <2>1 DEF IInv, ConsumerInv
  <2>2. CASE d \notin consumers[m]
    <3>1. m = n /\ d = new
      BY <1>6, <2>2
    <3> QED
      BY <1>5, <1>12, <1>13, <3>1
  <2> QED
    BY <2>1, <2>2
<1>15. \A m \in Workers : reducers[m] \subseteq reducers'[m] /\ maps[m] \subseteq maps'[m]
  BY <1>1
<1>16. ReadyInv'
  BY <1>1, <1>2, <1>15, ReadyGrows DEF IInv
<1> QED
  BY <1>3, <1>8, <1>9, <1>11, <1>14, <1>16 DEF IInv

(***************************************************************************)
(* The steps of the driver.                                                *)
(***************************************************************************)

LEMMA StartHolds ==
  ASSUME IInv, Start
  PROVE  IInv'
<1>1. /\ stage = "start" /\ stage' \in {"failed", "reduce"}
      /\ conf' = conf /\ cursor' = cursor /\ step' = step /\ at' = at /\ node' = node
      /\ reduceVoxorIds' = reduceVoxorIds /\ mapVoxorIds' = mapVoxorIds /\ late' = late
      /\ UNCHANGED workers /\ sent' = sent /\ parsed' = parsed /\ done' = done
  BY DEF Start, network
<1>2. Requests' = Requests
  BY <1>1 DEF Requests
<1>3. reduceVoxorIds = <<>> /\ mapVoxorIds = <<>> /\ step = 0 /\ at = "next"
  BY <1>1 DEF IInv, PlaceInv
<1>4. Requests = {}
  <2> SUFFICES ASSUME NEW r \in Requests PROVE FALSE
    OBVIOUS
  <2>1. ReduceAsks(r) /\ MapAsks(r) /\ KafkaAsks(r) /\ r.stage \in Working /\ r.i \in Nat
    BY DEF IInv, AskInv, TypeOK, Requests
  <2>2. ~(r.i < Len(<<>>))
    BY <2>1
  <2> QED
    BY <1>1, <1>3, <2>1, <2>2 DEF ReduceAsks, MapAsks, KafkaAsks, Working
<1>5. PlaceInv'
  <2>1. conf.splitNums2 >= 0 /\ Len(<<>>) = 0
    BY Numbers DEF IInv
  <2>2. stage' = "reduce" => Turns(stage)' = conf.splitNums2
    BY <1>1 DEF Turns
  <2>3. stage' = "reduce" => step' <= Turns(stage)'
    BY <1>1, <1>3, <2>1, <2>2
  <2> QED
    BY <1>1, <1>3, <2>1, <2>3 DEF PlaceInv, Working
<1>6. AskInv' /\ TurnInv' /\ DistinctInv'
  BY <1>2, <1>4 DEF AskInv, TurnInv, DistinctInv
<1>7. ReducerInv' /\ MapInv' /\ KafkaInv' /\ ConsumerInv'
  BY <1>1, WorkersQuiet DEF IInv
<1>8. ReadyInv'
  BY <1>1, <1>2, <1>3, <1>4 DEF ReadyInv, ReducersReady
<1>9. TypeOK'
  BY <1>1 DEF IInv, TypeOK, workers
<1> QED
  BY <1>5, <1>6, <1>7, <1>8, <1>9 DEF IInv

LEMMA EndStageHolds ==
  ASSUME IInv, EndStage
  PROVE  IInv'
<1>1. /\ at = "next" /\ step = Turns(stage) /\ step' = 0
      /\ \/ stage = "reduce" /\ stage' = "map"
         \/ stage = "map" /\ stage' = "kafka"
         \/ stage = "kafka" /\ stage' = "finished"
      /\ conf' = conf /\ cursor' = cursor /\ at' = at /\ node' = node
      /\ reduceVoxorIds' = reduceVoxorIds /\ mapVoxorIds' = mapVoxorIds /\ late' = late
      /\ UNCHANGED workers /\ sent' = sent /\ parsed' = parsed /\ done' = done
  <2>1. PICK n \in 1..3 : Stages[n] = stage /\ stage' = Stages[n + 1]
    BY DEF EndStage
  <2>2. Stages[1] = "reduce" /\ Stages[2] = "map" /\ Stages[3] = "kafka" /\ Stages[4] = "finished"
    BY DEF Stages
  <2>3. n = 1 \/ n = 2 \/ n = 3
    OBVIOUS
  <2>4. \/ stage = "reduce" /\ stage' = "map"
        \/ stage = "map" /\ stage' = "kafka"
        \/ stage = "kafka" /\ stage' = "finished"
    BY <2>1, <2>2, <2>3
  <2> QED
    BY <2>4 DEF EndStage, network
<1>2. Requests' = Requests
  BY <1>1 DEF Requests
<1>3. conf.splitNums1 \in Nat /\ conf.splitNums2 \in Nat /\ conf.partitions \in Nat /\ step \in Nat
  BY Numbers DEF IInv
<1>4. /\ stage = "reduce" => step = conf.splitNums2
      /\ stage = "map" => step = conf.splitNums1
  BY <1>1 DEF Turns
<1>5. PlaceInv'
  <2>1. stage = "reduce" => Len(reduceVoxorIds) = conf.splitNums2 /\ mapVoxorIds = <<>>
    BY <1>1, <1>4 DEF IInv, PlaceInv
  <2>2. stage \in {"map", "kafka"} => Len(reduceVoxorIds) = conf.splitNums2
    BY DEF IInv, PlaceInv
  <2>3. stage = "map" => Len(mapVoxorIds) = conf.splitNums1
    BY <1>1, <1>4 DEF IInv, PlaceInv
  <2>4. stage = "kafka" => Len(mapVoxorIds) = conf.splitNums1
    BY DEF IInv, PlaceInv
  <2>5. step' <= Turns(stage)'
    BY <1>1, <1>3 DEF Turns
  <2>6. Len(<<>>) = 0
    OBVIOUS
  <2> QED
    BY <1>1, <2>1, <2>2, <2>3, <2>4, <2>5, <2>6 DEF PlaceInv
<1>6. AskInv'
  <2> SUFFICES ASSUME NEW r \in Requests PROVE (ReduceAsks(r) /\ MapAsks(r) /\ KafkaAsks(r))' /\ r.stage \in Working
    BY <1>2 DEF AskInv
  <2>1. ReduceAsks(r) /\ MapAsks(r) /\ KafkaAsks(r) /\ r.stage \in Working
    BY DEF IInv, AskInv
  <2>2. Share(r.i)' = Share(r.i)
    BY <1>1 DEF Share, Dealt
  <2> QED
    BY <1>1, <2>1, <2>2 DEF ReduceAsks, MapAsks, KafkaAsks
<1>7. \A r \in Requests : r.stage # stage'
  <2> TAKE r \in Requests
  <2>1. MapAsks(r) /\ KafkaAsks(r) /\ r.stage \in Working
    BY DEF IInv, AskInv
  <2> QED
    BY <1>1, <2>1 DEF MapAsks, KafkaAsks, Working
<1>8. TurnInv' /\ DistinctInv'
  BY <1>1, <1>2, <1>7 DEF IInv, TurnInv, DistinctInv
<1>9. ReducerInv' /\ MapInv' /\ KafkaInv' /\ ConsumerInv'
  BY <1>1, WorkersQuiet DEF IInv
<1>10. ReadyInv'
  <2> SUFFICES ASSUME late = "no" PROVE ReadyInv'
    BY <1>1 DEF ReadyInv
  <2>1. /\ ReducersReady(conf.splitNums2)' <=> ReducersReady(conf.splitNums2)
        /\ MappersReady(conf.splitNums1)' <=> MappersReady(conf.splitNums1)
    BY <1>1 DEF ReducersReady, MappersReady, workers
  <2>2. MappersReady(step)'
    BY <1>1 DEF MappersReady
  <2>3. stage \in {"kafka"} \/ (\E r \in Requests : r.stage = "kafka") =>
          ReducersReady(conf.splitNums2) /\ MappersReady(conf.splitNums1)
    BY DEF IInv, ReadyInv
  <2>4. stage = "reduce" => ReducersReady(conf.splitNums2)
    BY <1>4 DEF IInv, ReadyInv
  <2>5. stage = "map" => ReducersReady(conf.splitNums2) /\ MappersReady(conf.splitNums1)
    BY <1>4 DEF IInv, ReadyInv
  <2> QED
    BY <1>1, <1>2, <2>1, <2>2, <2>3, <2>4, <2>5 DEF ReadyInv
<1>11. TypeOK'
  BY <1>1 DEF IInv, TypeOK, workers
<1> QED
  BY <1>5, <1>6, <1>8, <1>9, <1>10, <1>11 DEF IInv

LEMMA NextNodeHolds ==
  ASSUME IInv, NextNode
  PROVE  IInv'
<1>1. /\ at = "next" /\ stage \in Working /\ step < Turns(stage)
      /\ cursor' = NextIndex /\ node' = NextIndex /\ at' = "create"
      /\ reduceVoxorIds' = IF stage = "reduce" THEN Append(reduceVoxorIds, NextIndex) ELSE reduceVoxorIds
      /\ mapVoxorIds' = IF stage = "map" THEN Append(mapVoxorIds, NextIndex) ELSE mapVoxorIds
      /\ conf' = conf /\ stage' = stage /\ step' = step /\ late' = late
      /\ UNCHANGED workers /\ sent' = sent /\ parsed' = parsed /\ done' = done
  BY DEF NextNode, network, Working
<1>2. Requests' = Requests
  BY <1>1 DEF Requests
<1>3. NextIndex \in Workers /\ NextIndex \in 1..conf.workers
  BY NextIndexTurns DEF IInv
<1>4. reduceVoxorIds \in Seq(Workers) /\ mapVoxorIds \in Seq(Workers)
  BY DEF IInv, TypeOK
<1>5. /\ step \in Nat /\ conf.workers \in Nat /\ conf.splitNums1 \in Nat /\ conf.splitNums2 \in Nat
      /\ Turns(stage) \in Nat
  BY Numbers DEF IInv
<1>6. /\ Len(Append(reduceVoxorIds, NextIndex)) = Len(reduceVoxorIds) + 1
      /\ Append(reduceVoxorIds, NextIndex)[Len(reduceVoxorIds) + 1] = NextIndex
      /\ \A k \in 1..Len(reduceVoxorIds) : Append(reduceVoxorIds, NextIndex)[k] = reduceVoxorIds[k]
      /\ Append(reduceVoxorIds, NextIndex) \in Seq(Workers) /\ Len(reduceVoxorIds) \in Nat
  BY <1>3, <1>4
<1>7. /\ Len(Append(mapVoxorIds, NextIndex)) = Len(mapVoxorIds) + 1
      /\ Append(mapVoxorIds, NextIndex)[Len(mapVoxorIds) + 1] = NextIndex
      /\ \A k \in 1..Len(mapVoxorIds) : Append(mapVoxorIds, NextIndex)[k] = mapVoxorIds[k]
      /\ Append(mapVoxorIds, NextIndex) \in Seq(Workers) /\ Len(mapVoxorIds) \in Nat
  BY <1>3, <1>4
<1>8. TypeOK'
  <2>1. reduceVoxorIds' \in Seq(Workers) /\ mapVoxorIds' \in Seq(Workers)
    BY <1>1, <1>4, <1>6, <1>7
  <2>2. cursor' \in 0..conf.workers /\ node' \in 0..conf.workers
    BY <1>1, <1>3, <1>5
  <2> QED
    BY <1>1, <2>1, <2>2 DEF IInv, TypeOK, workers
<1>9. PlaceInv'
  <2>1. Turns(stage)' = Turns(stage)
    BY <1>1 DEF Turns
  <2>2. cursor' >= 1 /\ node' = cursor'
    BY <1>1, <1>3, <1>5
  <2>3. ASSUME stage = "reduce"
        PROVE  mapVoxorIds' = <<>> /\ Len(reduceVoxorIds') = step + 1 /\ node' = reduceVoxorIds'[step + 1]
    <3>1. mapVoxorIds = <<>> /\ Len(reduceVoxorIds) = step
      BY <1>1, <2>3 DEF IInv, PlaceInv
    <3> QED
      BY <1>1, <1>6, <2>3, <3>1
  <2>4. ASSUME stage = "map"
        PROVE  /\ Len(reduceVoxorIds') = conf.splitNums2
               /\ Len(mapVoxorIds') = step + 1 /\ node' = mapVoxorIds'[step + 1]
    <3>1. Len(reduceVoxorIds) = conf.splitNums2 /\ Len(mapVoxorIds) = step
      BY <1>1, <2>4 DEF IInv, PlaceInv
    <3> QED
      BY <1>1, <1>7, <2>4, <3>1
  <2>5. ASSUME stage = "kafka"
        PROVE  Len(reduceVoxorIds') = conf.splitNums2 /\ Len(mapVoxorIds') = conf.splitNums1
    BY <1>1, <2>5 DEF IInv, PlaceInv
  <2>6. step' <= Turns(stage)' /\ step' < Turns(stage)'
    BY <1>1, <1>5, <2>1
  <2>7. at' = "create" /\ stage' = stage /\ step' = step /\ conf' = conf /\ stage \in {"reduce", "map", "kafka"}
    BY <1>1 DEF Working
  <2>8. stage' = "reduce" => /\ mapVoxorIds' = <<>> /\ Len(reduceVoxorIds') = step' + 1
                             /\ node' = reduceVoxorIds'[step' + 1]
    BY <2>3, <2>7
  <2>9. stage' = "map" => /\ Len(reduceVoxorIds') = conf'.splitNums2
                          /\ Len(mapVoxorIds') = step' + 1 /\ node' = mapVoxorIds'[step' + 1]
    BY <2>4, <2>7
  <2>10. stage' = "kafka" => Len(reduceVoxorIds') = conf'.splitNums2 /\ Len(mapVoxorIds') = conf'.splitNums1
    BY <2>5, <2>7
  <2> QED
    BY <2>2, <2>6, <2>7, <2>8, <2>9, <2>10 DEF PlaceInv, Working
<1>10. \A r \in Requests : r.i \in Nat
  BY DEF IInv, TypeOK, Requests
<1>11. \A r \in Requests : r.stage # "kafka" \/ stage = "kafka"
  BY <1>1 DEF IInv, AskInv, KafkaAsks, Working
<1>12. \A r \in Requests : r.stage # "map" \/ reduceVoxorIds' = reduceVoxorIds
  BY <1>1 DEF IInv, AskInv, MapAsks
<1>13. AskInv'
  <2> SUFFICES ASSUME NEW r \in Requests PROVE (ReduceAsks(r) /\ MapAsks(r) /\ KafkaAsks(r))' /\ r.stage \in Working
    BY <1>2 DEF AskInv
  <2>1. ReduceAsks(r) /\ MapAsks(r) /\ KafkaAsks(r) /\ r.stage \in Working
    BY DEF IInv, AskInv
  <2>2. ReduceAsks(r)'
    <3> SUFFICES ASSUME r.stage = "reduce"
                 PROVE  r.i < conf.splitNums2 /\ r.i < Len(reduceVoxorIds') /\ r.node = reduceVoxorIds'[r.i + 1]
      BY <1>1 DEF ReduceAsks
    <3>1. r.i < conf.splitNums2 /\ r.i < Len(reduceVoxorIds) /\ r.node = reduceVoxorIds[r.i + 1]
      BY <2>1 DEF ReduceAsks
    <3>2. r.i + 1 \in 1..Len(reduceVoxorIds)
      BY <1>6, <1>10, <3>1
    <3>3. r.i < Len(reduceVoxorIds')
      BY <1>1, <1>6, <1>10, <3>1
    <3> QED
      BY <1>1, <1>6, <3>1, <3>2, <3>3
  <2>3. MapAsks(r)'
    <3> SUFFICES ASSUME r.stage = "map"
                 PROVE  /\ stage' \in {"map", "kafka", "finished", "failed"}
                        /\ r.i < Len(mapVoxorIds') /\ r.node = mapVoxorIds'[r.i + 1]
                        /\ r.reducers = reduceVoxorIds'
      BY DEF MapAsks
    <3>1. r.i < Len(mapVoxorIds) /\ r.node = mapVoxorIds[r.i + 1] /\ r.reducers = reduceVoxorIds
      BY <2>1 DEF MapAsks
    <3>2. r.i + 1 \in 1..Len(mapVoxorIds)
      BY <1>7, <1>10, <3>1
    <3>3. r.i < Len(mapVoxorIds')
      BY <1>1, <1>7, <1>10, <3>1
    <3>4. stage' \in {"map", "kafka", "finished", "failed"}
      BY <1>1, <2>1 DEF MapAsks
    <3> QED
      BY <1>1, <1>7, <1>12, <3>1, <3>2, <3>3, <3>4
  <2>4. KafkaAsks(r)'
    <3> SUFFICES ASSUME r.stage = "kafka"
                 PROVE  KafkaAsks(r)'
      BY DEF KafkaAsks
    <3>1. reduceVoxorIds' = reduceVoxorIds /\ mapVoxorIds' = mapVoxorIds
      BY <1>1, <1>11
    <3>2. Share(r.i)' = Share(r.i)
      BY <1>1, <3>1 DEF Share, Dealt
    <3> QED
      BY <1>1, <2>1, <3>1, <3>2 DEF KafkaAsks
  <2> QED
    BY <2>1, <2>2, <2>3, <2>4
<1>14. TurnInv'
  <2> SUFFICES ASSUME NEW r \in Requests, r.stage = stage
               PROVE  /\ Ago(r)' > 0 /\ Ago(r)' \in Nat
                      /\ Ago(r)' < conf.workers => r.node = Back(NextIndex, Ago(r)')
    BY <1>1, <1>2 DEF TurnInv, Back
  <2>1. Ago(r) = step - 1 - r.i /\ Ago(r) >= 0 /\ (Ago(r) < conf.workers => r.node = Back(cursor, Ago(r)))
    BY <1>1 DEF IInv, TurnInv, Ago
  <2>2. Ago(r)' = step - r.i
    BY <1>1 DEF Ago
  <2>3. Ago(r)' = Ago(r) + 1 /\ Ago(r) \in Nat
    BY <1>5, <1>10, <2>1, <2>2
  <2>4. Ago(r)' < conf.workers => r.node = Back(NextIndex, Ago(r)')
    <3> SUFFICES ASSUME Ago(r)' < conf.workers PROVE r.node = Back(NextIndex, Ago(r) + 1)
      BY <2>3
    <3>1. Ago(r) < conf.workers /\ Ago(r) + 1 < conf.workers
      BY <1>5, <2>3
    <3> QED
      BY <2>1, <2>3, <3>1, NextIndexTurns DEF IInv
  <2> QED
    BY <2>3, <2>4
<1>15. DistinctInv'
  BY <1>1, <1>2 DEF IInv, DistinctInv
<1>16. ReducerInv' /\ MapInv' /\ KafkaInv' /\ ConsumerInv'
  <2>1. CASE stage # "map"
    <3>1. mapVoxorIds' = mapVoxorIds
      BY <1>1, <2>1
    <3> QED
      BY <1>1, <3>1, WorkersQuiet DEF IInv
  <2>2. CASE stage = "map"
    <3>1. \A r \in parsed \cup done : r.stage # "kafka"
      BY <1>11, <2>2 DEF Requests
    <3>2. \A n \in Workers : kafkaIndex[n] = -1 /\ kafkaMappers[n] = {} /\ consumers[n] = {}
      BY <3>1 DEF IInv, KafkaInv, ConsumerInv
    <3>3. /\ reduceInput' = reduceInput /\ reducers' = reducers /\ maps' = maps /\ kafkaIndex' = kafkaIndex
          /\ kafkaMappers' = kafkaMappers /\ consumers' = consumers
      BY <1>1 DEF workers
    <3>4. ReducerInv' /\ MapInv'
      BY <1>1, <3>3 DEF IInv, ReducerInv, MapInv
    <3>5. \A r \in parsed : FALSE
      BY <3>1 DEF IInv, KafkaInv
    <3>6. KafkaInv'
      BY <1>1, <3>1, <3>2, <3>3, <3>5 DEF KafkaInv
    <3>7. ConsumerInv'
      BY <3>2, <3>3 DEF ConsumerInv
    <3> QED
      BY <3>4, <3>6, <3>7
  <2> QED
    BY <2>1, <2>2
<1>17. ReadyInv'
  <2> SUFFICES ASSUME late = "no" PROVE ReadyInv'
    BY <1>1 DEF ReadyInv
  <2>0. reducers' = reducers /\ maps' = maps
    BY <1>1 DEF workers
  <2>1. ASSUME stage = "reduce"
        PROVE  ReducersReady(step)'
    <3>1. Len(reduceVoxorIds) = step
      BY <1>1, <2>1 DEF IInv, PlaceInv
    <3>2. \A k \in 0..step - 1 : k \in reducers[reduceVoxorIds[k + 1]]
      BY <2>1 DEF IInv, ReadyInv, ReducersReady
    <3>3. \A k \in 0..step - 1 : reduceVoxorIds'[k + 1] = reduceVoxorIds[k + 1]
      <4> TAKE k \in 0..step - 1
      <4>1. k + 1 \in 1..Len(reduceVoxorIds)
        BY <1>5, <3>1
      <4> QED
        BY <1>1, <1>6, <2>1, <4>1
    <3> QED
      BY <1>1, <2>0, <3>2, <3>3 DEF ReducersReady
  <2>2. ASSUME stage = "map"
        PROVE  ReducersReady(conf.splitNums2)' /\ MappersReady(step)'
    <3>1. Len(mapVoxorIds) = step /\ reduceVoxorIds' = reduceVoxorIds
      BY <1>1, <2>2 DEF IInv, PlaceInv
    <3>2. ReducersReady(conf.splitNums2) /\ MappersReady(step)
      BY <2>2 DEF IInv, ReadyInv
    <3>3. \A m \in 0..step - 1 : mapVoxorIds'[m + 1] = mapVoxorIds[m + 1]
      <4> TAKE m \in 0..step - 1
      <4>1. m + 1 \in 1..Len(mapVoxorIds)
        BY <1>5, <3>1
      <4> QED
        BY <1>1, <1>7, <2>2, <4>1
    <3>4. MappersReady(step)'
      BY <1>1, <2>0, <3>1, <3>2, <3>3 DEF MappersReady
    <3> QED
      BY <1>1, <2>0, <3>1, <3>2, <3>4 DEF ReducersReady
  <2>3. ASSUME stage = "kafka"
        PROVE  ReducersReady(conf.splitNums2)' /\ MappersReady(conf.splitNums1)'
    <3>1. mapVoxorIds' = mapVoxorIds /\ reduceVoxorIds' = reduceVoxorIds
      BY <1>1, <2>3
    <3>2. ReducersReady(conf.splitNums2) /\ MappersReady(conf.splitNums1)
      BY <2>3 DEF IInv, ReadyInv
    <3> QED
      BY <1>1, <2>0, <3>1, <3>2 DEF ReducersReady, MappersReady
  <2>4. (\E r \in Requests : r.stage = "kafka") => stage = "kafka"
    BY <1>11
  <2> QED
    BY <1>1, <1>2, <2>1, <2>2, <2>3, <2>4 DEF ReadyInv, Working
<1> QED
  BY <1>8, <1>9, <1>13, <1>14, <1>15, <1>16, <1>17 DEF IInv

(* The new request is on the node of this turn, and those of the turns     *)
(* before, as long as a whole round has not passed, are on others.         *)
LEMMA InvokeHolds ==
  ASSUME IInv, Invoke
  PROVE  IInv'
<1>0. PICK new : new = Request
  OBVIOUS
<1>1. /\ at = "create" /\ at' = "wait" /\ sent' = sent \cup {new}
      /\ conf' = conf /\ cursor' = cursor /\ stage' = stage /\ step' = step /\ node' = node
      /\ reduceVoxorIds' = reduceVoxorIds /\ mapVoxorIds' = mapVoxorIds /\ late' = late
      /\ UNCHANGED workers /\ parsed' = parsed /\ done' = done
  BY <1>0 DEF Invoke
<1>2. Requests' = Requests \cup {new}
  BY <1>1 DEF Requests
<1>3. /\ stage \in Working /\ step < Turns(stage) /\ node = cursor /\ cursor >= 1
      /\ stage = "reduce" => Len(reduceVoxorIds) = step + 1 /\ node = reduceVoxorIds[step + 1]
      /\ stage = "map" => Len(mapVoxorIds) = step + 1 /\ node = mapVoxorIds[step + 1]
      /\ stage = "kafka" => Len(reduceVoxorIds) = conf.splitNums2 /\ Len(mapVoxorIds) = conf.splitNums1
  BY <1>1 DEF IInv, PlaceInv
<1>4. /\ conf.workers \in Nat /\ conf.workers >= 1 /\ conf.workers <= MaxWorkers /\ MaxWorkers \in Nat
      /\ cursor \in Nat /\ cursor <= conf.workers /\ step \in Nat
  BY Numbers DEF IInv
<1>5. /\ new.stage = stage /\ new.i = step /\ new.node = node
      /\ new.mappers = IF stage = "kafka" THEN Share(step) ELSE {}
      /\ new.reducers = IF stage = "map" THEN reduceVoxorIds ELSE <<>>
  BY <1>0 DEF Request
<1>6. Fed' = Fed /\ \A i : Share(i)' = Share(i)
  BY <1>1 DEF Share, Dealt, Fed
<1>7. TypeOK'
  <2>1. new.node \in Workers /\ new.i \in Nat
    BY <1>3, <1>4, <1>5 DEF Workers
  <2>2. new.mappers \subseteq Voxors
    BY <1>3, <1>4, <1>5, ShareIsFed DEF IInv
  <2>3. new.reducers \in Seq(Workers)
    <3>1. <<>> \in Seq(Workers)
      OBVIOUS
    <3> QED
      BY <1>5, <3>1 DEF IInv, TypeOK
  <2>4. \A r \in sent' \cup parsed' \cup done' : r = new \/ r \in sent \cup parsed \cup done
    BY <1>1
  <2>5. \A r \in sent' \cup parsed' \cup done' :
          r.node \in Workers /\ r.i \in Nat /\ r.mappers \subseteq Voxors /\ r.reducers \in Seq(Workers)
    BY <2>1, <2>2, <2>3, <2>4 DEF IInv, TypeOK
  <2> QED
    BY <1>1, <2>5 DEF IInv, TypeOK, workers
<1>8. PlaceInv'
  <2>1. Turns(stage)' = Turns(stage)
    BY <1>1 DEF Turns
  <2> QED
    BY <1>1, <2>1 DEF IInv, PlaceInv
<1>9. AskInv'
  <2>1. ASSUME NEW r \in Requests
        PROVE  (ReduceAsks(r) /\ MapAsks(r) /\ KafkaAsks(r))' /\ r.stage \in Working
    <3>1. ReduceAsks(r) /\ MapAsks(r) /\ KafkaAsks(r) /\ r.stage \in Working
      BY DEF IInv, AskInv
    <3> QED
      BY <1>1, <1>6, <3>1 DEF ReduceAsks, MapAsks, KafkaAsks
  <2>2. ReduceAsks(new)'
    <3>1. stage = "reduce" => step < conf.splitNums2 /\ step < Len(reduceVoxorIds) /\ node = reduceVoxorIds[step + 1]
      BY <1>3, <1>4 DEF Turns
    <3> QED
      BY <1>1, <1>5, <3>1 DEF ReduceAsks
  <2>3. MapAsks(new)'
    <3>1. stage = "map" => step < Len(mapVoxorIds) /\ node = mapVoxorIds[step + 1]
      BY <1>3, <1>4
    <3> QED
      BY <1>1, <1>5, <3>1 DEF MapAsks
  <2>4. KafkaAsks(new)'
    <3>1. stage = "kafka" => step < conf.partitions
      BY <1>3 DEF Turns
    <3>2. new.mappers = Share(new.i)' \/ stage # "kafka"
      BY <1>5, <1>6
    <3> QED
      BY <1>1, <1>3, <1>5, <3>1, <3>2 DEF KafkaAsks
  <2> QED
    BY <1>2, <1>3, <1>5, <2>1, <2>2, <2>3, <2>4 DEF AskInv
<1>10. \A r \in Requests : r.stage = stage =>
         /\ r.i \in Nat /\ step - r.i \in Nat /\ step - r.i > 0
         /\ step - r.i < conf.workers => r.node = Back(cursor, step - r.i)
  <2> TAKE r \in Requests
  <2> HAVE r.stage = stage
  <2>1. Ago(r) > 0 /\ (Ago(r) < conf.workers => r.node = Back(cursor, Ago(r))) /\ Ago(r) = step - r.i
    BY <1>1, <1>3 DEF IInv, TurnInv, Ago
  <2>2. r.i \in Nat
    BY DEF IInv, TypeOK, Requests
  <2> QED
    BY <1>4, <2>1, <2>2
<1>11. TurnInv'
  <2> SUFFICES ASSUME NEW r \in Requests', r.stage = stage
               PROVE  step - r.i >= 0 /\ (step - r.i < conf.workers => r.node = Back(cursor, step - r.i))
    BY <1>1 DEF TurnInv, Ago, Back
  <2>1. CASE r = new
    <3>1. step - r.i = 0 /\ Back(cursor, 0) = cursor
      BY <1>3, <1>4, <1>5, <2>1 DEF Back
    <3> QED
      BY <1>3, <1>5, <2>1, <3>1
  <2>2. CASE r \in Requests
    BY <1>10, <2>2
  <2> QED
    BY <1>2, <2>1, <2>2
<1>12. \A r \in Requests : r.stage = stage /\ step - r.i < conf.workers => r.node # cursor
  <2> TAKE r \in Requests
  <2> HAVE r.stage = stage /\ step - r.i < conf.workers
  <2>1. step - r.i \in Nat /\ step - r.i > 0 /\ r.node = Back(cursor, step - r.i)
    BY <1>10
  <2>2. \A k \in Nat : k > 0 /\ k < conf.workers => Back(cursor, k) # cursor
    BY <1>4 DEF Back
  <2> QED
    BY <2>1, <2>2
<1>13. DistinctInv'
  <2> SUFFICES ASSUME NEW r \in Requests', NEW q \in Requests', r.stage = q.stage, r.node = q.node,
                      r.i - q.i < conf.workers, q.i - r.i < conf.workers
               PROVE  r.i = q.i
    BY <1>1 DEF DistinctInv
  <2>1. CASE r \in Requests /\ q \in Requests
    BY <2>1 DEF IInv, DistinctInv
  <2>2. CASE r = new /\ q \in Requests
    BY <1>3, <1>5, <1>12, <2>2
  <2>3. CASE r \in Requests /\ q = new
    BY <1>3, <1>5, <1>12, <2>3
  <2>4. CASE r = new /\ q = new
    BY <2>4
  <2> QED
    BY <1>2, <2>1, <2>2, <2>3, <2>4
<1>14. ReducerInv' /\ MapInv' /\ KafkaInv' /\ ConsumerInv'
  BY <1>1, WorkersQuiet DEF IInv
<1>15. ReadyInv'
  <2> SUFFICES ASSUME late = "no" PROVE ReadyInv'
    BY <1>1 DEF ReadyInv
  <2>1. /\ \A s : ReducersReady(s)' <=> ReducersReady(s)
        /\ \A s : MappersReady(s)' <=> MappersReady(s)
    BY <1>1 DEF ReducersReady, MappersReady, workers
  <2>2. (\E r \in Requests' : r.stage = "kafka") => stage = "kafka" \/ \E r \in Requests : r.stage = "kafka"
    BY <1>2, <1>5
  <2>3. stage \in {"kafka", "finished"} \/ (\E r \in Requests' : r.stage = "kafka") =>
          ReducersReady(conf.splitNums2) /\ MappersReady(conf.splitNums1)
    BY <2>2 DEF IInv, ReadyInv
  <2>4. (stage = "reduce" => ReducersReady(step)) /\ (stage = "map" => ReducersReady(conf.splitNums2) /\ MappersReady(step))
    BY DEF IInv, ReadyInv
  <2>5. /\ ReducersReady(conf.splitNums2)' <=> ReducersReady(conf.splitNums2)
        /\ MappersReady(conf.splitNums1)' <=> MappersReady(conf.splitNums1)
        /\ ReducersReady(step)' <=> ReducersReady(step)
        /\ MappersReady(step)' <=> MappersReady(step)
    BY <1>1 DEF ReducersReady, MappersReady, workers
  <2> QED
    BY <1>1, <2>3, <2>4, <2>5 DEF ReadyInv
<1> QED
  BY <1>7, <1>8, <1>9, <1>11, <1>13, <1>14, <1>15 DEF IInv

LEMMA CreateFailsHolds ==
  ASSUME IInv, CreateFails
  PROVE  IInv'
<1>1. /\ at = "create" /\ at' = "next" /\ stage' = "failed"
      /\ conf' = conf /\ cursor' = cursor /\ step' = step /\ node' = node
      /\ reduceVoxorIds' = reduceVoxorIds /\ mapVoxorIds' = mapVoxorIds /\ late' = late
      /\ UNCHANGED workers /\ sent' = sent /\ parsed' = parsed /\ done' = done
  BY DEF CreateFails, network
<1>2. Requests' = Requests
  BY <1>1 DEF Requests
<1>3. TypeOK'
  BY <1>1 DEF IInv, TypeOK, workers
<1>4. PlaceInv'
  BY <1>1 DEF PlaceInv, Working
<1>5. \A i : Share(i)' = Share(i)
  BY <1>1 DEF Share, Dealt
<1>6. AskInv'
  <2> SUFFICES ASSUME NEW r \in Requests PROVE (ReduceAsks(r) /\ MapAsks(r) /\ KafkaAsks(r))' /\ r.stage \in Working
    BY <1>2 DEF AskInv
  <2>1. ReduceAsks(r) /\ MapAsks(r) /\ KafkaAsks(r) /\ r.stage \in Working
    BY DEF IInv, AskInv
  <2> QED
    BY <1>1, <1>5, <2>1 DEF ReduceAsks, MapAsks, KafkaAsks
<1>7. TurnInv' /\ DistinctInv'
  BY <1>1, <1>2 DEF IInv, TurnInv, DistinctInv, Working
<1>8. ReducerInv' /\ MapInv' /\ KafkaInv' /\ ConsumerInv'
  BY <1>1, WorkersQuiet DEF IInv
<1>9. ReadyInv'
  <2>1. /\ ReducersReady(conf.splitNums2)' <=> ReducersReady(conf.splitNums2)
        /\ MappersReady(conf.splitNums1)' <=> MappersReady(conf.splitNums1)
    BY <1>1 DEF ReducersReady, MappersReady, workers
  <2> QED
    BY <1>1, <1>2, <2>1 DEF IInv, ReadyInv
<1> QED
  BY <1>3, <1>4, <1>6, <1>7, <1>8, <1>9 DEF IInv

(* The driver goes on to the next turn, with or without the answer; some   *)
(* requests may be lost.                                                   *)
LEMMA GoOnHolds ==
  ASSUME IInv, at = "wait", GoOn, late' \in {"no", "yes"}, sent' \subseteq sent,
         conf' = conf, cursor' = cursor, stage' = stage, node' = node,
         reduceVoxorIds' = reduceVoxorIds, mapVoxorIds' = mapVoxorIds,
         UNCHANGED workers, parsed' = parsed, done' = done
  PROVE  TypeOK' /\ PlaceInv' /\ AskInv' /\ TurnInv' /\ DistinctInv'
         /\ ReducerInv' /\ MapInv' /\ KafkaInv' /\ ConsumerInv'
<1>1. at' = "next" /\ step' = step + 1
  BY DEF GoOn
<1>2. Requests' \subseteq Requests
  BY DEF Requests
<1>3. step \in Nat /\ conf.workers \in Nat /\ Turns(stage) \in Nat
  BY Numbers DEF IInv
<1>4. TypeOK'
  <2>1. step' \in Nat /\ at' \in {"next", "create", "wait"}
    BY <1>1, <1>3
  <2>2. \A r \in sent' \cup parsed' \cup done' : r \in sent \cup parsed \cup done
    OBVIOUS
  <2>3. \A r \in sent' \cup parsed' \cup done' :
          r.node \in Workers /\ r.i \in Nat /\ r.mappers \subseteq Voxors /\ r.reducers \in Seq(Workers)
    BY <2>2 DEF IInv, TypeOK
  <2> QED
    BY <2>1, <2>3 DEF IInv, TypeOK, workers
<1>5. PlaceInv'
  <2>1. Turns(stage)' = Turns(stage)
    BY DEF Turns
  <2>2. stage \in Working /\ step < Turns(stage)
    BY DEF IInv, PlaceInv
  <2>3. step' <= Turns(stage)'
    BY <1>1, <1>3, <2>1, <2>2
  <2>4. /\ stage = "reduce" => mapVoxorIds = <<>> /\ Len(reduceVoxorIds) = step + 1
        /\ stage = "map" => Len(reduceVoxorIds) = conf.splitNums2 /\ Len(mapVoxorIds) = step + 1
        /\ stage = "kafka" => Len(reduceVoxorIds) = conf.splitNums2 /\ Len(mapVoxorIds) = conf.splitNums1
    BY DEF IInv, PlaceInv
  <2> QED
    BY <1>1, <2>2, <2>3, <2>4 DEF PlaceInv, Working
<1>6. \A i : Share(i)' = Share(i)
  BY DEF Share, Dealt
<1>7. AskInv'
  <2> SUFFICES ASSUME NEW r \in Requests PROVE (ReduceAsks(r) /\ MapAsks(r) /\ KafkaAsks(r))' /\ r.stage \in Working
    BY <1>2 DEF AskInv
  <2>1. ReduceAsks(r) /\ MapAsks(r) /\ KafkaAsks(r) /\ r.stage \in Working
    BY DEF IInv, AskInv
  <2> QED
    BY <1>6, <2>1 DEF ReduceAsks, MapAsks, KafkaAsks
<1>8. TurnInv'
  <2> SUFFICES ASSUME NEW r \in Requests, stage \in Working, r.stage = stage
               PROVE  Ago(r)' >= 0 /\ (Ago(r)' < conf.workers => r.node = Back(cursor, Ago(r)'))
    BY <1>1, <1>2 DEF TurnInv, Back
  <2>1. r.i \in Nat
    BY DEF IInv, TypeOK, Requests
  <2>2. Ago(r)' = Ago(r)
    BY <1>1, <1>3, <2>1 DEF Ago
  <2> QED
    BY <2>2 DEF IInv, TurnInv
<1>9. DistinctInv'
  BY <1>2 DEF IInv, DistinctInv
<1>10. ReducerInv' /\ MapInv' /\ KafkaInv' /\ ConsumerInv'
  BY WorkersQuiet DEF IInv
<1> QED
  BY <1>4, <1>5, <1>7, <1>8, <1>9, <1>10

LEMMA TimedOutHolds ==
  ASSUME IInv, TimedOut
  PROVE  IInv'
<1>1. /\ at = "wait" /\ GoOn /\ late' = "yes" /\ sent' \subseteq sent
      /\ conf' = conf /\ cursor' = cursor /\ stage' = stage /\ node' = node
      /\ reduceVoxorIds' = reduceVoxorIds /\ mapVoxorIds' = mapVoxorIds
      /\ UNCHANGED workers /\ parsed' = parsed /\ done' = done
  BY DEF TimedOut
<1>2. ReadyInv'
  BY <1>1 DEF ReadyInv
<1> QED
  BY <1>1, <1>2, GoOnHolds DEF IInv

LEMMA AnsweredHolds ==
  ASSUME IInv, Answered
  PROVE  IInv'
<1>1. /\ at = "wait" /\ Request \in done /\ GoOn /\ late' = late /\ sent' = sent
      /\ conf' = conf /\ cursor' = cursor /\ stage' = stage /\ node' = node
      /\ reduceVoxorIds' = reduceVoxorIds /\ mapVoxorIds' = mapVoxorIds
      /\ UNCHANGED workers /\ parsed' = parsed /\ done' = done
  BY DEF Answered, network
<1>2. late \in {"no", "yes"}
  BY DEF IInv, TypeOK
<1>3. TypeOK' /\ PlaceInv' /\ AskInv' /\ TurnInv' /\ DistinctInv'
      /\ ReducerInv' /\ MapInv' /\ KafkaInv' /\ ConsumerInv'
  BY <1>1, <1>2, GoOnHolds
<1>4. ReadyInv'
  <2> SUFFICES ASSUME late = "no" PROVE ReadyInv'
    BY <1>1 DEF ReadyInv
  <2>1. step' = step + 1 /\ step \in Nat
    BY <1>1, Numbers DEF GoOn, IInv
  <2>2. Requests' = Requests /\ reducers' = reducers /\ maps' = maps
    BY <1>1 DEF Requests, workers
  <2>3. /\ Request.stage = stage /\ Request.i = step /\ Request.node = node
        /\ Request.reducers = IF stage = "map" THEN reduceVoxorIds ELSE <<>>
    BY DEF Request
  <2>4. ASSUME stage = "reduce"
        PROVE  ReducersReady(step)'
    <3>1. node = reduceVoxorIds[step + 1]
      BY <1>1, <2>4 DEF IInv, PlaceInv
    <3>2. step \in reducers[reduceVoxorIds[step + 1]]
      BY <1>1, <2>3, <2>4, <3>1 DEF IInv, ReducerInv
    <3>3. \A k \in 0..step - 1 : k \in reducers[reduceVoxorIds[k + 1]]
      BY <2>4 DEF IInv, ReadyInv, ReducersReady
    <3>4. \A k \in 0..step' - 1 : k = step \/ k \in 0..step - 1
      BY <2>1
    <3>5. \A k \in 0..step' - 1 : k \in reducers[reduceVoxorIds[k + 1]]
      BY <3>2, <3>3, <3>4
    <3> QED
      BY <1>1, <2>2, <3>5 DEF ReducersReady
  <2>5. ASSUME stage = "map"
        PROVE  ReducersReady(conf.splitNums2)' /\ MappersReady(step)'
    <3>1. node = mapVoxorIds[step + 1]
      BY <1>1, <2>5 DEF IInv, PlaceInv
    <3>2. [key |-> step, reducers |-> reduceVoxorIds] \in maps[mapVoxorIds[step + 1]]
      <4>1. [key |-> Request.i, reducers |-> Request.reducers] \in maps[Request.node]
        BY <1>1, <2>3, <2>5 DEF IInv, MapInv
      <4>2. Request.i = step /\ Request.reducers = reduceVoxorIds /\ Request.node = mapVoxorIds[step + 1]
        BY <2>3, <2>5, <3>1
      <4> QED
        BY <4>1, <4>2
    <3>3. ReducersReady(conf.splitNums2) /\ MappersReady(step)
      BY <2>5 DEF IInv, ReadyInv
    <3>4. \A m \in 0..step' - 1 : m = step \/ m \in 0..step - 1
      BY <2>1
    <3>5. \A m \in 0..step' - 1 : [key |-> m, reducers |-> reduceVoxorIds] \in maps[mapVoxorIds[m + 1]]
      BY <3>2, <3>3, <3>4 DEF MappersReady
    <3>6. MappersReady(step)'
      BY <1>1, <2>2, <3>5 DEF MappersReady
    <3> QED
      BY <1>1, <2>2, <3>3, <3>6 DEF ReducersReady
  <2>6. /\ ReducersReady(conf.splitNums2)' <=> ReducersReady(conf.splitNums2)
        /\ MappersReady(conf.splitNums1)' <=> MappersReady(conf.splitNums1)
    BY <1>1, <2>2 DEF ReducersReady, MappersReady
  <2>7. stage \in {"kafka", "finished"} \/ (\E r \in Requests : r.stage = "kafka") =>
          ReducersReady(conf.splitNums2) /\ MappersReady(conf.splitNums1)
    BY DEF IInv, ReadyInv
  <2> QED
    BY <1>1, <2>2, <2>4, <2>5, <2>6, <2>7 DEF ReadyInv
<1> QED
  BY <1>3, <1>4 DEF IInv

LEMMA StepHolds == IInv /\ [Next]_vars => IInv'
<1> SUFFICES ASSUME IInv, [Next]_vars PROVE IInv'
  OBVIOUS
<1>1. CASE DriverStep
  BY <1>1, StartHolds, NextNodeHolds, EndStageHolds, InvokeHolds, CreateFailsHolds, AnsweredHolds,
     TimedOutHolds DEF DriverStep
<1>2. CASE \E r \in sent : Lose(r) \/ ReduceStart(r) \/ MapStart(r) \/ KafkaParse(r)
  BY <1>2, LoseHolds, ReduceStartHolds, MapStartHolds, KafkaParseHolds
<1>3. CASE \E r \in parsed : KafkaCreate(r)
  BY <1>3, KafkaCreateHolds
<1>4. CASE \E n \in Workers : \E c \in consumers[n] : KafkaThread(n, c)
  BY <1>4, KafkaThreadHolds
<1>5. CASE UNCHANGED vars
  <2>1. /\ UNCHANGED conf /\ UNCHANGED driver /\ UNCHANGED workers
        /\ sent' = sent /\ parsed' = parsed /\ done' = done
    BY <1>5 DEF vars, network
  <2>2. Requests' = Requests
    BY <2>1 DEF Requests
  <2>3. reducers' = reducers /\ maps' = maps /\ mapVoxorIds' = mapVoxorIds
    BY <2>1 DEF workers, driver
  <2>4. PlaceInv' /\ AskInv' /\ TurnInv' /\ DistinctInv'
    BY <2>1, <2>2, DriverQuiet DEF IInv
  <2>5. ReducerInv' /\ MapInv' /\ KafkaInv' /\ ConsumerInv'
    BY <2>1, <2>3, WorkersQuiet DEF IInv
  <2>6. ReadyInv'
    BY <2>1, <2>2, <2>3, ReadyGrows DEF IInv
  <2>7. TypeOK'
    BY <2>1 DEF IInv, TypeOK, driver, workers
  <2> QED
    BY <2>4, <2>5, <2>6, <2>7 DEF IInv
<1> QED
  BY <1>1, <1>2, <1>3, <1>4, <1>5 DEF Next

LEMMA Invariance == Spec => []IInv
<1>1. Init => IInv
  BY InitHolds
<1>2. IInv /\ [Next]_vars => IInv'
  BY StepHolds
<1> QED
  BY <1>1, <1>2, PTL DEF Spec

(***************************************************************************)
(* A second layer: each partition has one request, each request becomes    *)
(* one consumer, and each of its shares is one row of the mappers.         *)
(***************************************************************************)

(* startJob has refused more partitions than mappers. *)
EnoughInv ==
  stage \notin {"start", "failed"} \/ Requests # {} => conf.partitions <= conf.splitNums1

(* A turn makes one request, and that is in one place. *)
OnceInv ==
  /\ \A r, q \in Requests : r.stage = q.stage /\ r.i = q.i => r = q
  /\ sent \cap parsed = {} /\ sent \cap done = {} /\ parsed \cap done = {}

FilledInv ==
  \A n \in Workers :
    /\ kafkaIndex[n] # -1 => kafkaMappers[n] # {}
    /\ \A c \in consumers[n] : c.mappers # {}

MadeInv ==
  \A r \in done : r.stage = "kafka" => \E c \in consumers[r.node] : c.asked = r.i

Made(s) == \A i \in 0..s - 1 : \E n \in Workers : \E c \in consumers[n] : c.asked = i

AllMadeInv ==
  late = "no" => /\ stage = "kafka" => Made(step)
                 /\ stage = "finished" => Made(conf.partitions)

AloneInv ==
  \A n, k \in Workers : \A c \in consumers[n], d \in consumers[k] :
    c.asked = d.asked => n = k /\ c = d

FedInv == EnoughInv /\ OnceInv /\ FilledInv /\ MadeInv /\ AllMadeInv /\ AloneInv

(* Two numbers below P, as far below m, by a multiple of P, are the same.  *)
LEMMA SameRest ==
  ASSUME NEW P \in Nat \ {0}, NEW m \in Nat, NEW i \in Nat, NEW j \in Nat,
         i < P, j < P, m >= i, m >= j, (m - i) % P = 0, (m - j) % P = 0
  PROVE  i = j
<1>1. PICK a \in Nat : m - i = P * a
  <2>1. m - i = P * ((m - i) \div P) /\ (m - i) \div P \in Nat
    BY SMT
  <2> QED
    BY <2>1
<1>2. PICK b \in Nat : m - j = P * b
  <2>1. m - j = P * ((m - j) \div P) /\ (m - j) \div P \in Nat
    BY SMT
  <2> QED
    BY <2>1
<1>3. j - i = P * (a - b)
  BY <1>1, <1>2
<1>4. CASE a - b >= 1
  <2>1. P * (a - b) >= P
    BY <1>4
  <2> QED
    BY <1>3, <2>1
<1>5. CASE a - b <= -1
  <2>1. P * (a - b) <= -P
    BY <1>5
  <2> QED
    BY <1>3, <2>1
<1>6. CASE a = b
  BY <1>3, <1>6
<1> QED
  BY <1>4, <1>5, <1>6

LEMMA RestBelow ==
  ASSUME NEW P \in Nat \ {0}, NEW m \in Nat
  PROVE  m % P \in Nat /\ m % P < P /\ m >= m % P /\ (m - (m % P)) % P = 0
  OBVIOUS

(* Each mapper is in the share of one partition, and each partition has a  *)
(* mapper when there are enough.                                           *)
LEMMA DealtApart ==
  ASSUME TypeOK
  PROVE  /\ \A m \in 0..conf.splitNums1 - 1 : \E i \in 0..conf.partitions - 1 : m \in Dealt(i)
         /\ \A i, j \in 0..conf.partitions - 1 : \A m \in Dealt(i) \cap Dealt(j) : i = j
         /\ conf.partitions <= conf.splitNums1 =>
              \A i \in 0..conf.partitions - 1 : i \in Dealt(i)
<1>1. conf.partitions \in Nat \ {0} /\ conf.splitNums1 \in Nat
  BY DEF TypeOK
<1>2. ASSUME NEW m \in 0..conf.splitNums1 - 1
      PROVE  \E i \in 0..conf.partitions - 1 : m \in Dealt(i)
  <2>1. m \in Nat
    BY <1>1
  <2> DEFINE i == m % conf.partitions
  <2>2. i \in Nat /\ i < conf.partitions /\ m >= i /\ (m - i) % conf.partitions = 0
    BY <1>1, <2>1, RestBelow
  <2>3. i \in 0..conf.partitions - 1
    BY <1>1, <2>2
  <2>4. m \in Dealt(i)
    BY <2>2 DEF Dealt
  <2> QED
    BY <2>3, <2>4
<1>3. ASSUME NEW i \in 0..conf.partitions - 1, NEW j \in 0..conf.partitions - 1, NEW m \in Dealt(i) \cap Dealt(j)
      PROVE  i = j
  <2>1. m \in Nat /\ m >= i /\ m >= j /\ (m - i) % conf.partitions = 0 /\ (m - j) % conf.partitions = 0
    BY <1>1, <1>3 DEF Dealt
  <2>2. i \in Nat /\ j \in Nat /\ i < conf.partitions /\ j < conf.partitions
    BY <1>1
  <2> QED
    BY <1>1, <2>1, <2>2, SameRest
<1>4. ASSUME conf.partitions <= conf.splitNums1, NEW i \in 0..conf.partitions - 1
      PROVE  i \in Dealt(i)
  <2>1. i \in 0..conf.splitNums1 - 1 /\ i >= i /\ i - i = 0
    BY <1>1, <1>4
  <2>2. 0 % conf.partitions = 0
    BY <1>1
  <2> QED
    BY <2>1, <2>2 DEF Dealt
<1> QED
  BY <1>2, <1>3, <1>4

LEMMA FedInit == Init => FedInv
<1> SUFFICES ASSUME Init PROVE FedInv
  OBVIOUS
<1>1. /\ stage = "start" /\ sent = {} /\ parsed = {} /\ done = {}
      /\ kafkaIndex = [n \in Workers |-> -1] /\ consumers = [n \in Workers |-> {}]
  BY DEF Init
<1>2. EnoughInv /\ OnceInv /\ MadeInv /\ AllMadeInv
  BY <1>1 DEF EnoughInv, OnceInv, MadeInv, AllMadeInv, Requests
<1>3. FilledInv /\ AloneInv
  BY <1>1 DEF FilledInv, AloneInv
<1> QED
  BY <1>2, <1>3 DEF FedInv

(* A step that only takes requests away leaves those it leaves alone.      *)
LEMMA FewerRequests ==
  ASSUME OnceInv, EnoughInv, Requests' \subseteq Requests, conf' = conf,
         stage' \notin {"start", "failed"} => stage \notin {"start", "failed"}
  PROVE  EnoughInv' /\ \A r, q \in Requests' : r.stage = q.stage /\ r.i = q.i => r = q
<1>1. EnoughInv'
  BY DEF EnoughInv
<1> QED
  BY <1>1 DEF OnceInv

(* A step of the driver, and the loss of a request, leave the nodes alone. *)
LEMMA NodesQuiet ==
  ASSUME FilledInv, MadeInv, AloneInv, UNCHANGED workers, done' = done
  PROVE  FilledInv' /\ MadeInv' /\ AloneInv' /\ \A s : Made(s)' <=> Made(s)
<1>1. kafkaIndex' = kafkaIndex /\ kafkaMappers' = kafkaMappers /\ consumers' = consumers
  BY DEF workers
<1>2. FilledInv' /\ MadeInv' /\ AloneInv'
  BY <1>1 DEF FilledInv, MadeInv, AloneInv
<1>3. \A s : Made(s)' <=> Made(s)
  BY <1>1 DEF Made
<1> QED
  BY <1>2, <1>3

LEMMA StartFed ==
  ASSUME IInv, FedInv, Start
  PROVE  FedInv'
<1>1. /\ stage = "start" /\ stage' = IF conf.partitions > conf.splitNums1 THEN "failed" ELSE "reduce"
      /\ conf' = conf /\ sent' = sent /\ parsed' = parsed /\ done' = done /\ UNCHANGED workers
  BY DEF Start, network
<1>2. Requests' = Requests
  BY <1>1 DEF Requests
<1>3. conf.partitions \in Nat /\ conf.splitNums1 \in Nat
  BY Numbers DEF IInv
<1>4. EnoughInv'
  BY <1>1, <1>2, <1>3 DEF FedInv, EnoughInv
<1>5. OnceInv'
  BY <1>1, <1>2 DEF FedInv, OnceInv
<1>6. FilledInv' /\ MadeInv' /\ AloneInv'
  BY <1>1, NodesQuiet DEF FedInv
<1>7. AllMadeInv'
  BY <1>1 DEF AllMadeInv
<1> QED
  BY <1>4, <1>5, <1>6, <1>7 DEF FedInv

(* The next turn, a node that cannot be reached, and a wait that ends      *)
(* without an answer: nothing new.                                         *)
LEMMA TurnFed ==
  ASSUME IInv, FedInv, NextNode \/ CreateFails \/ TimedOut
  PROVE  FedInv'
<1>1. /\ conf' = conf /\ sent' \subseteq sent /\ parsed' = parsed /\ done' = done /\ UNCHANGED workers
      /\ stage' \in {stage, "failed"}
      /\ (stage' = stage /\ step' = step /\ late' = late) \/ stage' = "failed" \/ late' = "yes"
  BY DEF NextNode, CreateFails, TimedOut, network
<1>2. Requests' \subseteq Requests
  BY <1>1 DEF Requests
<1>3. EnoughInv' /\ OnceInv'
  <2>1. stage' \notin {"start", "failed"} => stage \notin {"start", "failed"}
    BY <1>1
  <2>2. EnoughInv' /\ \A r, q \in Requests' : r.stage = q.stage /\ r.i = q.i => r = q
    BY <1>1, <1>2, <2>1, FewerRequests DEF FedInv
  <2>3. sent' \cap parsed' = {} /\ sent' \cap done' = {} /\ parsed' \cap done' = {}
    BY <1>1 DEF FedInv, OnceInv
  <2> QED
    BY <2>2, <2>3 DEF OnceInv
<1>4. FilledInv' /\ MadeInv' /\ AloneInv' /\ \A s : Made(s)' <=> Made(s)
  BY <1>1, NodesQuiet DEF FedInv
<1>5. AllMadeInv'
  <2>1. CASE stage' = "failed" \/ late' = "yes"
    BY <2>1 DEF AllMadeInv
  <2>2. CASE stage' = stage /\ step' = step /\ late' = late
    <3>1. consumers' = consumers
      BY <1>1 DEF workers
    <3> QED
      BY <1>1, <2>2, <3>1 DEF FedInv, AllMadeInv, Made
  <2> QED
    BY <1>1, <2>1, <2>2
<1> QED
  BY <1>3, <1>4, <1>5 DEF FedInv

(* A stage ends when its last turn is over. *)
LEMMA EndStageFed ==
  ASSUME IInv, FedInv, EndStage
  PROVE  FedInv'
<1>1. /\ step = Turns(stage) /\ step' = 0 /\ stage \in {"reduce", "map", "kafka"}
      /\ \E n \in 1..3 : Stages[n] = stage /\ stage' = Stages[n + 1]
      /\ conf' = conf /\ sent' = sent /\ parsed' = parsed /\ done' = done /\ UNCHANGED workers /\ late' = late
  BY DEF EndStage, network
<1>2. stage' = "finished" => stage = "kafka"
  BY <1>1 DEF Stages
<1>3. Requests' = Requests
  BY <1>1 DEF Requests
<1>4. EnoughInv' /\ OnceInv'
  <2>1. EnoughInv'
    BY <1>1, <1>3 DEF FedInv, EnoughInv
  <2>2. OnceInv'
    BY <1>1, <1>3 DEF FedInv, OnceInv
  <2> QED
    BY <2>1, <2>2
<1>5. FilledInv' /\ MadeInv' /\ AloneInv' /\ \A s : Made(s)' <=> Made(s)
  BY <1>1, NodesQuiet DEF FedInv
<1>6. AllMadeInv'
  <2> SUFFICES ASSUME late = "no" PROVE AllMadeInv'
    BY <1>1 DEF AllMadeInv
  <2>1. stage' = "kafka" => Made(step)'
    BY <1>1 DEF Made
  <2>2. stage' = "finished" => Made(conf.partitions)'
    <3> HAVE stage' = "finished"
    <3>1. step = conf.partitions
      BY <1>1, <1>2 DEF Turns
    <3>2. Made(step)
      BY <1>2 DEF FedInv, AllMadeInv
    <3>3. consumers' = consumers
      BY <1>1 DEF workers
    <3> QED
      BY <1>1, <3>1, <3>2, <3>3 DEF Made
  <2> QED
    BY <2>1, <2>2 DEF AllMadeInv
<1> QED
  BY <1>4, <1>5, <1>6 DEF FedInv

(* The request of a turn is none of the ones before. *)
LEMMA InvokeFed ==
  ASSUME IInv, FedInv, Invoke
  PROVE  FedInv'
<1>0. PICK new : new = Request
  OBVIOUS
<1>1. /\ at = "create" /\ sent' = sent \cup {new} /\ parsed' = parsed /\ done' = done
      /\ conf' = conf /\ stage' = stage /\ step' = step /\ late' = late /\ UNCHANGED workers
  BY <1>0 DEF Invoke
<1>2. new.stage = stage /\ new.i = step
  BY <1>0 DEF Request
<1>3. Requests' = Requests \cup {new}
  BY <1>1 DEF Requests
<1>4. stage \in Working /\ step \in Nat
  BY <1>1, Numbers DEF IInv, PlaceInv
<1>5. \A r \in Requests : ~(r.stage = stage /\ r.i = step)
  <2> SUFFICES ASSUME NEW r \in Requests, r.stage = stage, r.i = step PROVE FALSE
    OBVIOUS
  <2>1. Ago(r) > 0
    BY <1>1, <1>4 DEF IInv, TurnInv
  <2>2. Ago(r) = step - step
    BY <1>1 DEF Ago
  <2> QED
    BY <1>4, <2>1, <2>2
<1>6. EnoughInv'
  BY <1>1, <1>4 DEF FedInv, EnoughInv, Working
<1>7. OnceInv'
  <2>1. ASSUME NEW r \in Requests', NEW q \in Requests', r.stage = q.stage, r.i = q.i
        PROVE  r = q
    BY <1>2, <1>3, <1>5, <2>1 DEF FedInv, OnceInv
  <2>2. new \notin parsed /\ new \notin done
    BY <1>2, <1>5 DEF Requests
  <2>3. sent' \cap parsed' = {} /\ sent' \cap done' = {} /\ parsed' \cap done' = {}
    BY <1>1, <2>2 DEF FedInv, OnceInv
  <2> QED
    BY <2>1, <2>3 DEF OnceInv
<1>8. FilledInv' /\ MadeInv' /\ AloneInv'
  BY <1>1, NodesQuiet DEF FedInv
<1>9. AllMadeInv'
  <2>1. consumers' = consumers
    BY <1>1 DEF workers
  <2> QED
    BY <1>1, <2>1 DEF FedInv, AllMadeInv, Made
<1> QED
  BY <1>6, <1>7, <1>8, <1>9 DEF FedInv

(* An answer means that the consumer of this turn exists. *)
LEMMA AnsweredFed ==
  ASSUME IInv, FedInv, Answered
  PROVE  FedInv'
<1>1. /\ at = "wait" /\ Request \in done /\ step' = step + 1
      /\ sent' = sent /\ parsed' = parsed /\ done' = done
      /\ conf' = conf /\ stage' = stage /\ late' = late /\ UNCHANGED workers
  BY DEF Answered, GoOn, network
<1>2. Requests' = Requests
  BY <1>1 DEF Requests
<1>3. EnoughInv' /\ OnceInv'
  <2>1. EnoughInv'
    BY <1>1, <1>2 DEF FedInv, EnoughInv
  <2>2. OnceInv'
    BY <1>1, <1>2 DEF FedInv, OnceInv
  <2> QED
    BY <2>1, <2>2
<1>4. FilledInv' /\ MadeInv' /\ AloneInv'
  BY <1>1, NodesQuiet DEF FedInv
<1>5. AllMadeInv'
  <2> SUFFICES ASSUME late = "no" PROVE AllMadeInv'
    BY <1>1 DEF AllMadeInv
  <2>1. stage # "finished"
    BY <1>1 DEF IInv, PlaceInv
  <2>2. ASSUME stage = "kafka"
        PROVE  Made(step)'
    <3>1. step \in Nat
      BY Numbers DEF IInv
    <3>2. Made(step)
      BY <2>2 DEF FedInv, AllMadeInv
    <3>3. Request.stage = "kafka" /\ Request.i = step /\ Request.node = node
      BY <2>2 DEF Request
    <3>4. \E c \in consumers[node] : c.asked = step
      BY <1>1, <3>3 DEF FedInv, MadeInv
    <3>5. node \in Workers
      BY <1>1, <3>3 DEF IInv, TypeOK
    <3>6. \A i \in 0..step' - 1 : i = step \/ i \in 0..step - 1
      BY <1>1, <3>1
    <3>7. \A i \in 0..step' - 1 : \E n \in Workers : \E c \in consumers[n] : c.asked = i
      BY <3>2, <3>4, <3>5, <3>6 DEF Made
    <3>8. consumers' = consumers
      BY <1>1 DEF workers
    <3> QED
      BY <3>7, <3>8 DEF Made
  <2> QED
    BY <1>1, <2>1, <2>2 DEF AllMadeInv
<1> QED
  BY <1>3, <1>4, <1>5 DEF FedInv

(* A node starts a reducer or a mapper, or a request is lost.              *)
LEMMA HandledFed ==
  ASSUME IInv, FedInv, NEW r \in sent, Lose(r) \/ ReduceStart(r) \/ MapStart(r)
  PROVE  FedInv'
<1>1. /\ sent' = sent \ {r} /\ parsed' = parsed
      /\ done' = done \/ (done' = done \cup {r} /\ r.stage # "kafka")
      /\ conf' = conf /\ stage' = stage /\ step' = step /\ late' = late
      /\ kafkaIndex' = kafkaIndex /\ kafkaMappers' = kafkaMappers /\ consumers' = consumers
  BY DEF Lose, ReduceStart, MapStart, Handled, driver, workers
<1>2. Requests' \subseteq Requests
  BY <1>1 DEF Requests
<1>3. EnoughInv' /\ OnceInv'
  <2>1. EnoughInv' /\ \A p, q \in Requests' : p.stage = q.stage /\ p.i = q.i => p = q
    BY <1>1, <1>2, FewerRequests DEF FedInv
  <2>2. r \notin parsed
    BY DEF FedInv, OnceInv
  <2>3. sent' \cap parsed' = {} /\ sent' \cap done' = {} /\ parsed' \cap done' = {}
    BY <1>1, <2>2 DEF FedInv, OnceInv
  <2> QED
    BY <2>1, <2>3 DEF OnceInv
<1>4. FilledInv' /\ AloneInv'
  BY <1>1 DEF FedInv, FilledInv, AloneInv
<1>5. MadeInv'
  <2>1. \A q \in done' : q.stage = "kafka" => q \in done
    BY <1>1
  <2> QED
    BY <1>1, <2>1 DEF FedInv, MadeInv
<1>6. AllMadeInv'
  BY <1>1 DEF FedInv, AllMadeInv, Made
<1> QED
  BY <1>3, <1>4, <1>5, <1>6 DEF FedInv

(* The mappers of a request are never none: its own index is among them.   *)
LEMMA KafkaParseFed ==
  ASSUME IInv, FedInv, NEW r \in sent, KafkaParse(r)
  PROVE  FedInv'
<1>1. /\ r.stage = "kafka" /\ sent' = sent \ {r} /\ parsed' = parsed \cup {r} /\ done' = done
      /\ kafkaIndex' = [kafkaIndex EXCEPT ![r.node] = r.i]
      /\ kafkaMappers' = [kafkaMappers EXCEPT ![r.node] = kafkaMappers[r.node] \cup r.mappers]
      /\ conf' = conf /\ stage' = stage /\ step' = step /\ late' = late /\ consumers' = consumers
  BY DEF KafkaParse, driver
<1>2. Requests' \subseteq Requests /\ r \in Requests
  BY <1>1 DEF Requests
<1>3. EnoughInv' /\ OnceInv'
  <2>1. EnoughInv' /\ \A p, q \in Requests' : p.stage = q.stage /\ p.i = q.i => p = q
    BY <1>1, <1>2, FewerRequests DEF FedInv
  <2>2. r \notin done
    BY DEF FedInv, OnceInv
  <2>3. sent' \cap parsed' = {} /\ sent' \cap done' = {} /\ parsed' \cap done' = {}
    BY <1>1, <2>2 DEF FedInv, OnceInv
  <2> QED
    BY <2>1, <2>3 DEF OnceInv
<1>4. r.mappers # {}
  <2>1. r.mappers = Share(r.i) /\ r.i < conf.partitions
    BY <1>1, <1>2 DEF IInv, AskInv, KafkaAsks
  <2>2. r.i \in Nat /\ conf.partitions \in Nat
    BY Numbers DEF IInv, TypeOK
  <2>3. r.i \in 0..conf.partitions - 1
    BY <2>1, <2>2
  <2>4. r.i \in Dealt(r.i)
    BY <1>2, <2>3, DealtApart DEF IInv, FedInv, EnoughInv
  <2> QED
    BY <2>1, <2>4 DEF Share
<1>5. FilledInv'
  <2>1. kafkaIndex \in [Workers -> Int] /\ kafkaMappers \in [Workers -> SUBSET Voxors]
    BY DEF IInv, TypeOK
  <2>2. ASSUME NEW n \in Workers, kafkaIndex'[n] # -1
        PROVE  kafkaMappers'[n] # {}
    <3>1. CASE n = r.node
      <4>1. kafkaMappers'[n] = kafkaMappers[n] \cup r.mappers
        BY <1>1, <2>1, <3>1
      <4> QED
        BY <1>4, <4>1
    <3>2. CASE n # r.node
      BY <1>1, <2>1, <2>2, <3>2 DEF FedInv, FilledInv
    <3> QED
      BY <3>1, <3>2
  <2> QED
    BY <1>1, <2>2 DEF FedInv, FilledInv
<1>6. MadeInv' /\ AloneInv'
  BY <1>1 DEF FedInv, MadeInv, AloneInv
<1>7. AllMadeInv'
  BY <1>1 DEF FedInv, AllMadeInv, Made
<1> QED
  BY <1>3, <1>5, <1>6, <1>7 DEF FedInv

(* One request of this partition, so no consumer of it yet. *)
LEMMA KafkaCreateFed ==
  ASSUME IInv, FedInv, NEW r \in parsed, KafkaCreate(r)
  PROVE  FedInv'
<1>0. PICK new : new = [asked |-> r.i, mappers |-> kafkaMappers[r.node], started |-> -1]
  OBVIOUS
<1>1. /\ parsed' = parsed \ {r} /\ done' = done \cup {r} /\ sent' = sent
      /\ consumers' = [consumers EXCEPT ![r.node] = consumers[r.node] \cup {new}]
      /\ conf' = conf /\ stage' = stage /\ step' = step /\ late' = late
      /\ kafkaIndex' = kafkaIndex /\ kafkaMappers' = kafkaMappers
  BY <1>0 DEF KafkaCreate, driver
<1>2. Requests' \subseteq Requests /\ r \in Requests
  BY <1>1 DEF Requests
<1>3. r.node \in Workers /\ r.stage = "kafka" /\ kafkaIndex[r.node] # -1
  BY DEF IInv, TypeOK, KafkaInv
<1>4. new.asked = r.i /\ new.mappers = kafkaMappers[r.node]
  BY <1>0
<1>5. \A n \in Workers : consumers'[n] = IF n = r.node THEN consumers[n] \cup {new} ELSE consumers[n]
  BY <1>1, <1>3 DEF IInv, TypeOK
<1>6. EnoughInv' /\ OnceInv'
  <2>1. EnoughInv' /\ \A p, q \in Requests' : p.stage = q.stage /\ p.i = q.i => p = q
    BY <1>1, <1>2, FewerRequests DEF FedInv
  <2>2. sent' \cap parsed' = {} /\ sent' \cap done' = {} /\ parsed' \cap done' = {}
    BY <1>1 DEF FedInv, OnceInv
  <2> QED
    BY <2>1, <2>2 DEF OnceInv
<1>7. \A n \in Workers : \A c \in consumers[n] : c.asked # r.i
  <2> SUFFICES ASSUME NEW n \in Workers, NEW c \in consumers[n], c.asked = r.i PROVE FALSE
    OBVIOUS
  <2>1. PICK q \in done : q.stage = "kafka" /\ q.i = r.i
    BY DEF IInv, ConsumerInv
  <2>2. q = r
    BY <1>2, <1>3, <2>1 DEF FedInv, OnceInv, Requests
  <2> QED
    BY <2>1, <2>2 DEF FedInv, OnceInv
<1>8. FilledInv'
  <2>1. new.mappers # {}
    BY <1>3, <1>4 DEF FedInv, FilledInv
  <2>2. \A n \in Workers : \A c \in consumers'[n] : c \in consumers[n] \/ c = new
    BY <1>5
  <2> QED
    BY <1>1, <2>1, <2>2 DEF FedInv, FilledInv
<1>9. \A n \in Workers : consumers[n] \subseteq consumers'[n]
  BY <1>5
<1>10. MadeInv'
  <2> SUFFICES ASSUME NEW q \in done', q.stage = "kafka" PROVE \E c \in consumers'[q.node] : c.asked = q.i
    BY DEF MadeInv
  <2>1. CASE q = r
    BY <1>3, <1>4, <1>5, <2>1
  <2>2. CASE q \in done
    <3>1. q.node \in Workers
      BY <2>2 DEF IInv, TypeOK
    <3> QED
      BY <1>9, <2>2, <3>1 DEF FedInv, MadeInv
  <2> QED
    BY <1>1, <2>1, <2>2
<1>11. AllMadeInv'
  <2>1. \A s : Made(s) => Made(s)'
    BY <1>9 DEF Made
  <2>2. Made(step) => Made(step)'
    BY <1>1, <1>9 DEF Made
  <2>3. Made(conf.partitions) => Made(conf.partitions)'
    BY <1>1, <1>9 DEF Made
  <2> QED
    BY <1>1, <2>2, <2>3 DEF FedInv, AllMadeInv
<1>12. AloneInv'
  <2> SUFFICES ASSUME NEW n \in Workers, NEW k \in Workers, NEW c \in consumers'[n], NEW d \in consumers'[k],
                      c.asked = d.asked
               PROVE  n = k /\ c = d
    BY DEF AloneInv
  <2>1. c \in consumers[n] \/ (n = r.node /\ c = new)
    BY <1>5
  <2>2. d \in consumers[k] \/ (k = r.node /\ d = new)
    BY <1>5
  <2>3. CASE c \in consumers[n] /\ d \in consumers[k]
    BY <2>3 DEF FedInv, AloneInv
  <2>4. CASE c \in consumers[n] /\ (k = r.node /\ d = new)
    BY <1>4, <1>7, <2>4
  <2>5. CASE (n = r.node /\ c = new) /\ d \in consumers[k]
    BY <1>4, <1>7, <2>5
  <2> QED
    BY <2>1, <2>2, <2>3, <2>4, <2>5
<1> QED
  BY <1>6, <1>8, <1>10, <1>11, <1>12 DEF FedInv

(* The consumer's thread reads the index: it is still the one consumer.    *)
LEMMA KafkaThreadFed ==
  ASSUME IInv, FedInv, NEW n \in Workers, NEW c \in consumers[n], KafkaThread(n, c)
  PROVE  FedInv'
<1>0. PICK new : new = [asked |-> c.asked, mappers |-> c.mappers, started |-> kafkaIndex[n]]
  OBVIOUS
<1>1. /\ consumers' = [consumers EXCEPT ![n] = (consumers[n] \ {c}) \cup {new}]
      /\ sent' = sent /\ parsed' = parsed /\ done' = done
      /\ conf' = conf /\ stage' = stage /\ step' = step /\ late' = late
      /\ kafkaIndex' = kafkaIndex /\ kafkaMappers' = kafkaMappers
  BY <1>0 DEF KafkaThread, network, driver
<1>2. new.asked = c.asked /\ new.mappers = c.mappers
  BY <1>0
<1>3. \A m \in Workers : consumers'[m] = IF m = n THEN (consumers[n] \ {c}) \cup {new} ELSE consumers[m]
  BY <1>1 DEF IInv, TypeOK
<1>4. Requests' = Requests
  BY <1>1 DEF Requests
<1>5. EnoughInv' /\ OnceInv'
  <2>1. EnoughInv'
    BY <1>1, <1>4 DEF FedInv, EnoughInv
  <2>2. OnceInv'
    BY <1>1, <1>4 DEF FedInv, OnceInv
  <2> QED
    BY <2>1, <2>2
<1>6. FilledInv'
  <2>1. c.mappers # {}
    BY DEF FedInv, FilledInv
  <2>2. \A m \in Workers : \A d \in consumers'[m] : d \in consumers[m] \/ d = new
    BY <1>3
  <2> QED
    BY <1>1, <1>2, <2>1, <2>2 DEF FedInv, FilledInv
<1>7. \A m \in Workers : \A d \in consumers[m] : \E e \in consumers'[m] : e.asked = d.asked
  <2> TAKE m \in Workers
  <2> TAKE d \in consumers[m]
  <2>1. CASE m = n /\ d = c
    BY <1>2, <1>3, <2>1
  <2>2. CASE m # n \/ d # c
    BY <1>3, <2>2
  <2> QED
    BY <2>1, <2>2
<1>8. MadeInv'
  <2> SUFFICES ASSUME NEW q \in done, q.stage = "kafka" PROVE \E e \in consumers'[q.node] : e.asked = q.i
    BY <1>1 DEF MadeInv
  <2>1. q.node \in Workers
    BY DEF IInv, TypeOK
  <2>2. PICK d \in consumers[q.node] : d.asked = q.i
    BY DEF FedInv, MadeInv
  <2> QED
    BY <1>7, <2>1, <2>2
<1>9. AllMadeInv'
  <2>1. ASSUME NEW s, Made(s)
        PROVE  \A i \in 0..s - 1 : \E m \in Workers : \E e \in consumers'[m] : e.asked = i
    BY <1>7, <2>1 DEF Made
  <2>2. Made(step) => Made(step)'
    BY <1>1, <2>1 DEF Made
  <2>3. Made(conf.partitions) => Made(conf.partitions)'
    BY <1>1, <2>1 DEF Made
  <2> QED
    BY <1>1, <2>2, <2>3 DEF FedInv, AllMadeInv
<1>10. AloneInv'
  <2> SUFFICES ASSUME NEW m \in Workers, NEW k \in Workers, NEW d \in consumers'[m], NEW e \in consumers'[k],
                      d.asked = e.asked
               PROVE  m = k /\ d = e
    BY DEF AloneInv
  <2>1. (d \in consumers[m] /\ ~(m = n /\ d = c)) \/ (m = n /\ d = new)
    BY <1>3
  <2>2. (e \in consumers[k] /\ ~(k = n /\ e = c)) \/ (k = n /\ e = new)
    BY <1>3
  <2>3. CASE d \in consumers[m] /\ e \in consumers[k]
    BY <2>3 DEF FedInv, AloneInv
  <2>4. CASE d \in consumers[m] /\ ~(m = n /\ d = c) /\ e = new
    BY <1>2, <2>4 DEF FedInv, AloneInv
  <2>5. CASE e \in consumers[k] /\ ~(k = n /\ e = c) /\ d = new
    BY <1>2, <2>5 DEF FedInv, AloneInv
  <2> QED
    BY <2>1, <2>2, <2>3, <2>4, <2>5
<1> QED
  BY <1>5, <1>6, <1>8, <1>9, <1>10 DEF FedInv

LEMMA FedStep == IInv /\ FedInv /\ [Next]_vars => FedInv'
<1> SUFFICES ASSUME IInv, FedInv, [Next]_vars PROVE FedInv'
  OBVIOUS
<1>1. CASE DriverStep
  BY <1>1, StartFed, TurnFed, EndStageFed, InvokeFed, AnsweredFed DEF DriverStep
<1>2. CASE \E r \in sent : Lose(r) \/ ReduceStart(r) \/ MapStart(r) \/ KafkaParse(r)
  BY <1>2, HandledFed, KafkaParseFed
<1>3. CASE \E r \in parsed : KafkaCreate(r)
  BY <1>3, KafkaCreateFed
<1>4. CASE \E n \in Workers : \E c \in consumers[n] : KafkaThread(n, c)
  BY <1>4, KafkaThreadFed
<1>5. CASE UNCHANGED vars
  <2>1. /\ sent' = sent /\ parsed' = parsed /\ done' = done
        /\ conf' = conf /\ stage' = stage /\ step' = step /\ late' = late
        /\ kafkaIndex' = kafkaIndex /\ kafkaMappers' = kafkaMappers /\ consumers' = consumers
    BY <1>5 DEF vars, network, driver, workers
  <2>2. EnoughInv' /\ OnceInv'
    BY <2>1 DEF FedInv, EnoughInv, OnceInv, Requests
  <2>3. FilledInv' /\ MadeInv' /\ AloneInv'
    BY <2>1 DEF FedInv, FilledInv, MadeInv, AloneInv
  <2>4. AllMadeInv'
    BY <2>1 DEF FedInv, AllMadeInv, Made
  <2> QED
    BY <2>2, <2>3, <2>4 DEF FedInv
<1> QED
  BY <1>1, <1>2, <1>3, <1>4, <1>5 DEF Next

LEMMA FedInvariance == Spec => []FedInv
<1>1. Init => FedInv
  BY FedInit
<1>2. IInv /\ FedInv /\ [Next]_vars => FedInv'
  BY FedStep
<1> QED
  BY <1>1, <1>2, Invariance, PTL DEF Spec

(***************************************************************************)
(* The theorems.                                                           *)
(***************************************************************************)

(* The driver's lists, the requests and what the nodes keep of them are of *)
(* their types: nextNode never leaves the list of nodes.                   *)
THEOREM TypeCorrect == Spec => []TypeOK
<1>1. IInv => TypeOK
  BY DEF IInv
<1> QED
  BY <1>1, Invariance, PTL

(* With no more partitions than nodes a consumer has its own partition and *)
(* its own mappers, though the node's input is static and a late request   *)
(* may come at any time; with no more reducers than nodes a node writes to *)
(* the file of its reducer.                                                *)
THEOREM EachOnItsOwn == Spec => []OwnPartition
<1>1. IInv => OwnPartition
  <2> SUFFICES ASSUME IInv PROVE OwnPartition
    OBVIOUS
  <2>1. ASSUME conf.partitions <= conf.workers, NEW n \in Workers, NEW c \in consumers[n]
        PROVE  c.mappers = Share(c.asked) /\ c.started \in {-1, c.asked} /\ kafkaIndex[n] = c.asked
    <3>1. PICK r \in done : r.stage = "kafka" /\ r.node = n /\ r.i = c.asked
      BY DEF IInv, ConsumerInv
    <3>2. c.mappers = Share(c.asked) /\ c.started \in {-1, c.asked}
      BY <2>1 DEF IInv, ConsumerInv
    <3>3. kafkaIndex[n] = c.asked
      BY <2>1, <3>1 DEF IInv, KafkaInv
    <3> QED
      BY <3>2, <3>3
  <2>2. conf.splitNums2 <= conf.workers => \A n \in Workers : \A i \in reducers[n] : reduceInput[n] = i
    BY DEF IInv, ReducerInv
  <2> QED
    BY <2>1, <2>2 DEF OwnPartition
<1> QED
  BY <1>1, Invariance, PTL

(* While no answer has been missing, what a consumer feeds is running, and *)
(* so is every reducer behind it.                                          *)
THEOREM ReadyFirst == Spec => []ReadyBeforeConsuming
<1>1. IInv => ReadyBeforeConsuming
  <2> SUFFICES ASSUME IInv, late = "no", NEW n \in Workers, NEW c \in consumers[n], NEW v \in c.mappers
               PROVE  \E p \in maps[v[1]] :
                        /\ p.key = v[2] /\ Len(p.reducers) = conf.splitNums2
                        /\ \A k \in 1..conf.splitNums2 : k - 1 \in reducers[p.reducers[k]]
    BY DEF ReadyBeforeConsuming
  <2>1. PICK r \in done : r.stage = "kafka"
    BY DEF IInv, ConsumerInv
  <2>2. r \in Requests
    BY DEF Requests
  <2>3. Len(reduceVoxorIds) = conf.splitNums2
    BY <2>1, <2>2 DEF IInv, AskInv, KafkaAsks
  <2>4. ReducersReady(conf.splitNums2) /\ MappersReady(conf.splitNums1)
    BY <2>1, <2>2 DEF IInv, ReadyInv
  <2>5. PICK m \in 0..conf.splitNums1 - 1 : v = <<mapVoxorIds[m + 1], m>>
    BY DEF IInv, ConsumerInv, Fed
  <2> DEFINE p == [key |-> m, reducers |-> reduceVoxorIds]
  <2>6. p \in maps[v[1]] /\ p.key = v[2]
    BY <2>4, <2>5 DEF MappersReady
  <2>7. \A k \in 1..conf.splitNums2 : k - 1 \in reducers[reduceVoxorIds[k]]
    <3> TAKE k \in 1..conf.splitNums2
    <3>1. conf.splitNums2 \in Nat
      BY Numbers DEF IInv
    <3>2. k - 1 \in 0..conf.splitNums2 - 1 /\ (k - 1) + 1 = k
      BY <3>1
    <3> QED
      BY <2>4, <3>2 DEF ReducersReady
  <2> QED
    BY <2>3, <2>6, <2>7
<1> QED
  BY <1>1, Invariance, PTL

(* No consumer divides by an empty list of mappers; and when the driver    *)
(* has finished, and had every answer, each mapper has exactly one feeder, *)
(* for every number of nodes, mappers and partitions.                      *)
THEOREM FedOnce == Spec => []EachMapperFedOnce
<1>1. ASSUME IInv, FedInv
      PROVE  EachMapperFedOnce
  <2>1. \A n \in Workers : \A c \in consumers[n] : c.mappers # {}
    BY <1>1 DEF FedInv, FilledInv
  <2>2. ASSUME stage = "finished", late = "no", conf.partitions <= conf.workers,
               NEW m \in 0..conf.splitNums1 - 1
        PROVE  Cardinality({u \in UNION {{n} \X consumers[n] : n \in Workers} :
                              \E v \in u[2].mappers : v[2] = m}) = 1
    <3> DEFINE Pairs == UNION {{n} \X consumers[n] : n \in Workers}
               Feeders == {u \in Pairs : \E v \in u[2].mappers : v[2] = m}
    <3>1. \A n \in Workers : \A c \in consumers[n] : c.mappers = Share(c.asked) /\ c.asked \in 0..conf.partitions - 1
      <4> TAKE n \in Workers
      <4> TAKE c \in consumers[n]
      <4>1. PICK r \in done : r.stage = "kafka" /\ r.i = c.asked
        BY <1>1 DEF IInv, ConsumerInv
      <4>2. r.i \in Nat /\ r.i < conf.partitions /\ conf.partitions \in Nat
        BY <1>1, <4>1, Numbers DEF IInv, TypeOK, AskInv, KafkaAsks, Requests
      <4>3. c.asked \in 0..conf.partitions - 1
        BY <4>1, <4>2
      <4> QED
        BY <1>1, <2>2, <4>3 DEF IInv, ConsumerInv
    <3>2. PICK i \in 0..conf.partitions - 1 : m \in Dealt(i)
      BY <1>1, DealtApart DEF IInv
    <3>3. PICK n \in Workers : \E c \in consumers[n] : c.asked = i
      BY <1>1, <2>2, <3>2 DEF FedInv, AllMadeInv, Made
    <3>4. PICK c \in consumers[n] : c.asked = i
      BY <3>3
    <3>5. <<n, c>> \in Pairs
      BY <3>3, <3>4
    <3>6. <<mapVoxorIds[m + 1], m>> \in c.mappers
      BY <3>1, <3>2, <3>4 DEF Share
    <3>7. <<n, c>> \in Feeders
      BY <3>5, <3>6
    <3>8. ASSUME NEW u \in Feeders
          PROVE  u = <<n, c>>
      <4>0. PICK k \in Workers : u \in {k} \X consumers[k]
        BY <3>8
      <4>1. PICK d \in consumers[k] : u = <<k, d>>
        BY <4>0
      <4>2. PICK v \in d.mappers : v[2] = m
        BY <3>8, <4>1
      <4>3. PICK l \in Dealt(d.asked) : v = <<mapVoxorIds[l + 1], l>>
        BY <3>1, <4>1, <4>2 DEF Share
      <4>4. m \in Dealt(d.asked)
        BY <4>2, <4>3
      <4>5. d.asked = i
        BY <1>1, <3>1, <3>2, <4>1, <4>4, DealtApart DEF IInv
      <4> QED
        BY <1>1, <3>3, <3>4, <4>1, <4>5 DEF FedInv, AloneInv
    <3>9. Feeders = {<<n, c>>}
      BY <3>7, <3>8
    <3> QED
      BY <3>9, FS_Singleton
  <2> QED
    BY <2>1, <2>2 DEF EachMapperFedOnce
<1> QED
  BY <1>1, Invariance, FedInvariance, PTL
-----------------------------------------------------------------------------
(* Batches *)

Lines == Record(Dids \cup {NoDid})

(* What is known of a window: one record for each message, none a copy.    *)
PlainWindow(recs) ==
  /\ recs \in Seq(Lines)
  /\ \A k \in DOMAIN recs : recs[k].copy = 1
  /\ \A k, l \in DOMAIN recs : recs[k].id = recs[l].id => k = l

(* No message of the window is due in any other form. *)
OnlyAs(recs, all) == \A k \in DOMAIN recs : \A r \in all : r.id = recs[k].id => r = recs[k]

WindowInv ==
  /\ PlainWindow(mapRecords)
  /\ \A k \in DOMAIN mapRecords : mapRecords[k].id <= arrived
  /\ mut = "free" => OnlyAs(mapRecords, due)
  /\ \A r \in due : r.id <= arrived

(* A reducer has the devices of its hash. *)
HomeInv ==
  /\ \A b \in toReducers : \A r \in b.recs : hash[r.did] = b.to
  /\ \A i \in Reducers : \A r \in records[i] \cup reported[i] : hash[r.did] = i

SumInv ==
  \A i \in Reducers : count[i] = Cardinality(reported[i]) + Cardinality(records[i]) + unwritten[i]

Elsewhere == Mapping \cup Reducing \cup Windows \cup Rows \cup lost

BatchesInv == BatchesTypeOK /\ WindowInv /\ HomeInv /\ SumInv /\ EachRecordOnce

LEMMA BatchesNumbers ==
  /\ MapSize \in Nat \ {0} /\ Split \in Nat \ {0} /\ FilterCondon \in Nat \ {0}
  /\ Int32Max \in Nat \ {0} /\ MaxMsgs \in Nat /\ NoDid \notin Dids
  BY BatchesAssumption

(* k is among the first P * M exactly if P goes into k - 1 less than M     *)
(* times.                                                                  *)
LEMMA DealtBelow ==
  ASSUME NEW P \in Nat \ {0}, NEW M \in Nat, NEW k \in Nat \ {0}
  PROVE  /\ (k - 1) \div P \in Nat
         /\ k <= P * M <=> (k - 1) \div P < M
<1>1. PICK q \in Nat : q = (k - 1) \div P
  BY SMT
<1>2. PICK rest \in Nat : k - 1 = P * q + rest /\ rest < P
  <2>1. k - 1 = P * ((k - 1) \div P) + ((k - 1) % P) /\ (k - 1) % P \in Nat /\ (k - 1) % P < P
    BY SMT
  <2> QED
    BY <1>1, <2>1
<1>3. CASE q < M
  <2>1. M = (q + 1) + (M - q - 1) /\ M - q - 1 \in Nat
    BY <1>3
  <2>2. PICK d \in Nat : M = (q + 1) + d
    BY <2>1
  <2>3. P * M = P * q + P + P * d /\ P * d >= 0
    BY <2>2
  <2> QED
    BY <1>1, <1>2, <1>3, <2>3
<1>4. CASE q >= M
  <2>1. PICK d \in Nat : q = M + d
    <3>1. q - M \in Nat /\ q = M + (q - M)
      BY <1>4
    <3> QED
      BY <3>1
  <2>2. P * q = P * M + P * d /\ P * d >= 0
    BY <2>1
  <2> QED
    BY <1>1, <1>2, <1>4, <2>2
<1> QED
  BY <1>3, <1>4

(* How many each mapper gets, and that so many are there.                  *)
LEMMA DealFits ==
  ASSUME NEW recs \in Seq(Lines)
  PROVE  /\ PerMapper(recs) \in Nat /\ Len(recs) \in Nat
         /\ LastDealt(recs) \in Nat /\ LastDealt(recs) <= Len(recs)
         /\ PerMapper(recs) > 0 =>
              /\ LastDealt(recs) \in DOMAIN recs
              /\ \A i \in 0..MapSize - 1 : i * PerMapper(recs) + 1 \in DOMAIN recs
<1>1. Len(recs) \in Nat /\ MapSize \in Nat \ {0}
  BY BatchesNumbers
<1>2. PICK n \in Nat, M \in Nat \ {0} : n = Len(recs) /\ M = MapSize
  BY <1>1
<1>3. PICK P : P = n \div M
  OBVIOUS
<1>4. P \in Nat /\ P * M \in Nat /\ P * M <= n
  <2>1. P \in Nat /\ n = M * P + (n % M) /\ n % M \in Nat
    BY <1>2, <1>3, SMT
  <2>2. M * P = P * M
    BY <1>2, <2>1
  <2> QED
    BY <1>2, <2>1, <2>2
<1>5. P > 0 => P * M >= 1 /\ \A i \in 0..M - 1 : i * P + 1 \in 1..n
  <2> HAVE P > 0
  <2>1. P * M >= P
    BY <1>2, <1>4
  <2>2. ASSUME NEW i \in 0..M - 1
        PROVE  i * P + 1 \in 1..n
    <3>1. PICK d \in Nat : M = i + 1 + d
      <4>1. M - i - 1 \in Nat /\ M = i + 1 + (M - i - 1)
        BY <1>2, <2>2
      <4> QED
        BY <4>1
    <3>2. i \in Nat
      BY <1>2, <2>2
    <3>3. P * M = i * P + P + P * d /\ P * d >= 0 /\ i * P >= 0
      BY <1>4, <3>1, <3>2
    <3> QED
      BY <1>2, <1>4, <3>2, <3>3
  <2> QED
    BY <1>4, <2>1, <2>2
<1>6. PerMapper(recs) = P /\ LastDealt(recs) = P * M /\ DOMAIN recs = 1..n
  BY <1>2, <1>3 DEF PerMapper, LastDealt
<1> QED
  BY <1>1, <1>2, <1>4, <1>5, <1>6

(* Which records a batch has. *)
LEMMA InBatch ==
  ASSUME NEW recs, PlainWindow(recs), NEW i \in 0..MapSize - 1, PerMapper(recs) > 0
  PROVE  \A x : x \in Batch(recs, i) <=>
           \/ \E k \in DOMAIN recs : x = recs[k] /\ k <= LastDealt(recs) /\ (k - 1) \div PerMapper(recs) = i
           \/ \E k \in DOMAIN recs : x = recs[k] /\ k > LastDealt(recs) /\ i = MapSize - 1
           \/ x = Again(recs[LastDealt(recs)]) /\ i = MapSize - 1
<1>1. recs \in Seq(Lines)
  BY DEF PlainWindow
<1>2. /\ PerMapper(recs) \in Nat \ {0} /\ LastDealt(recs) \in DOMAIN recs /\ DOMAIN recs = 1..Len(recs)
      /\ Len(recs) \in Nat /\ MapSize \in Nat \ {0} /\ LastDealt(recs) = PerMapper(recs) * MapSize
  BY <1>1, DealFits, BatchesNumbers DEF LastDealt
<1>3. \A k \in DOMAIN recs : (k - 1) \div PerMapper(recs) = i => k <= LastDealt(recs)
  <2> TAKE k \in DOMAIN recs
  <2> HAVE (k - 1) \div PerMapper(recs) = i
  <2>1. k \in Nat \ {0} /\ i < MapSize
    BY <1>2
  <2> QED
    BY <1>2, <2>1, DealtBelow
<1>4. \A x : x \in TailOf(recs) <=>
        \/ \E k \in DOMAIN recs : x = recs[k] /\ k > LastDealt(recs)
        \/ x = Again(recs[LastDealt(recs)])
  <2>1. TailOf(recs) = {IF k = LastDealt(recs) THEN Again(recs[k]) ELSE recs[k] : k \in LastDealt(recs)..Len(recs)}
    BY <1>2 DEF TailOf
  <2>2. \A k : k \in LastDealt(recs)..Len(recs) <=> k = LastDealt(recs) \/ (k \in DOMAIN recs /\ k > LastDealt(recs))
    BY <1>2
  <2> QED
    BY <1>2, <2>1, <2>2
<1>5. \A x : x \in Batch(recs, i) <=>
        \/ \E k \in DOMAIN recs : x = recs[k] /\ (k - 1) \div PerMapper(recs) = i
        \/ i = MapSize - 1 /\ x \in TailOf(recs)
  BY <1>2 DEF Batch
<1> QED
  BY <1>3, <1>4, <1>5

(* The batches cut the window and the one copy into pieces.                *)
LEMMA DealCuts ==
  ASSUME NEW recs, PlainWindow(recs), PerMapper(recs) > 0
  PROVE  /\ UNION {Batch(recs, i) : i \in 0..MapSize - 1} = Elements(recs) \cup {Again(recs[LastDealt(recs)])}
         /\ \A i, j \in 0..MapSize - 1 : i # j => Batch(recs, i) \cap Batch(recs, j) = {}
<1>1. recs \in Seq(Lines)
  BY DEF PlainWindow
<1>2. /\ PerMapper(recs) \in Nat \ {0} /\ LastDealt(recs) \in DOMAIN recs /\ DOMAIN recs = 1..Len(recs)
      /\ Len(recs) \in Nat /\ MapSize \in Nat \ {0} /\ LastDealt(recs) = PerMapper(recs) * MapSize
  BY <1>1, DealFits, BatchesNumbers DEF LastDealt
<1>3. MapSize - 1 \in 0..MapSize - 1
  BY <1>2
<1>4. ASSUME NEW x \in Elements(recs) \cup {Again(recs[LastDealt(recs)])}
      PROVE  \E i \in 0..MapSize - 1 : x \in Batch(recs, i)
  <2>1. CASE x = Again(recs[LastDealt(recs)])
    BY <1>3, <2>1, InBatch
  <2>2. CASE x \in Elements(recs)
    <3>1. PICK k \in DOMAIN recs : x = recs[k]
      BY <2>2 DEF Elements
    <3>2. CASE k > LastDealt(recs)
      BY <1>3, <3>1, <3>2, InBatch
    <3>3. CASE k <= LastDealt(recs)
      <4>1. k \in Nat \ {0}
        BY <1>2
      <4>2. (k - 1) \div PerMapper(recs) \in Nat /\ (k - 1) \div PerMapper(recs) < MapSize
        BY <1>2, <3>3, <4>1, DealtBelow
      <4>3. (k - 1) \div PerMapper(recs) \in 0..MapSize - 1
        BY <1>2, <4>2
      <4> QED
        BY <3>1, <3>3, <4>3, InBatch
    <3> QED
      BY <1>2, <3>2, <3>3
  <2> QED
    BY <2>1, <2>2
<1>5. ASSUME NEW i \in 0..MapSize - 1, NEW x \in Batch(recs, i)
      PROVE  x \in Elements(recs) \cup {Again(recs[LastDealt(recs)])}
  BY <1>5, InBatch DEF Elements
<1>6. ASSUME NEW i \in 0..MapSize - 1, NEW j \in 0..MapSize - 1, i # j, NEW x \in Batch(recs, i), x \in Batch(recs, j)
      PROVE  FALSE
  <2>1. Again(recs[LastDealt(recs)]).copy = 2
    <3>1. recs[LastDealt(recs)] \in Lines
      BY <1>1, <1>2
    <3> QED
      BY <3>1 DEF Again, Lines, Record
  <2>2. \A k \in DOMAIN recs : recs[k].copy = 1
    BY DEF PlainWindow
  <2>3. \A k, l \in DOMAIN recs : recs[k] = recs[l] => k = l
    BY DEF PlainWindow
  <2>4. CASE x = Again(recs[LastDealt(recs)])
    <3>1. i = MapSize - 1
      BY <1>6, <2>1, <2>2, <2>4, InBatch
    <3>2. j = MapSize - 1
      BY <1>6, <2>1, <2>2, <2>4, InBatch
    <3> QED
      BY <1>6, <3>1, <3>2
  <2>5. CASE x # Again(recs[LastDealt(recs)])
    <3>1. PICK k \in DOMAIN recs : /\ x = recs[k]
                                   /\ \/ k <= LastDealt(recs) /\ (k - 1) \div PerMapper(recs) = i
                                      \/ k > LastDealt(recs) /\ i = MapSize - 1
      BY <1>6, <2>5, InBatch
    <3>2. PICK l \in DOMAIN recs : /\ x = recs[l]
                                   /\ \/ l <= LastDealt(recs) /\ (l - 1) \div PerMapper(recs) = j
                                      \/ l > LastDealt(recs) /\ j = MapSize - 1
      BY <1>6, <2>5, InBatch
    <3>3. k = l
      BY <2>3, <3>1, <3>2
    <3>4. k \in Int /\ LastDealt(recs) \in Int
      BY <1>2
    <3> QED
      BY <1>6, <3>1, <3>2, <3>3, <3>4
  <2> QED
    BY <2>4, <2>5
<1> QED
  BY <1>4, <1>5, <1>6


(* There are finitely many records, so every set of them is finite.        *)
LEMMA LinesFinite ==
  \A S \in SUBSET Lines : IsFiniteSet(S) /\ Cardinality(S) \in Nat
<1> DEFINE Numbered == Ids \X (Dids \cup {NoDid})
           Triples == Numbered \X {1, 2}
           f == [p \in Triples |-> [id |-> p[1][1], did |-> p[1][2], copy |-> p[2]]]
<1>1. IsFiniteSet(Ids)
  BY BatchesNumbers, FS_Interval DEF Ids
<1>2. IsFiniteSet(Dids \cup {NoDid})
  BY BatchesAssumption, FS_AddElement
<1>3. IsFiniteSet(Numbered)
  BY <1>1, <1>2, FS_Product
<1>4. IsFiniteSet({1, 2})
  <2>1. IsFiniteSet({1}) /\ {1, 2} = {1} \cup {2}
    BY FS_Singleton
  <2> QED
    BY <2>1, FS_AddElement
<1>5. IsFiniteSet(Triples)
  BY <1>3, <1>4, FS_Product
<1>6. f \in Surjection(Triples, Lines)
  <2>1. f \in [Triples -> Lines]
    BY DEF Lines, Record
  <2>2. ASSUME NEW r \in Lines
        PROVE  \E p \in Triples : f[p] = r
    <3>1. <<<<r.id, r.did>>, r.copy>> \in Triples
      BY DEF Lines, Record
    <3>2. f[<<<<r.id, r.did>>, r.copy>>] = r
      BY <3>1 DEF Lines, Record
    <3> QED
      BY <3>1, <3>2
  <2> HIDE DEF f, Triples
  <2> QED
    BY <2>1, <2>2 DEF Surjection
<1>7. IsFiniteSet(Lines)
  BY <1>5, <1>6, FS_Surjection
<1> QED
  BY <1>7, FS_Subset, FS_CardinalityType

LEMMA BatchesInitHolds == BatchesInit => BatchesInv
<1> SUFFICES ASSUME BatchesInit PROVE BatchesInv
  OBVIOUS
<1>1. /\ hash \in [Dids -> Reducers]
      /\ arrived = 0 /\ counter = 0 /\ mapRecords = <<>> /\ mut = "free" /\ due = {}
      /\ toMappers = {} /\ toReducers = {} /\ lost = {}
      /\ records = [i \in Reducers |-> {}] /\ reported = [i \in Reducers |-> {}]
      /\ count = [i \in Reducers |-> 0] /\ unwritten = [i \in Reducers |-> 0]
  BY DEF BatchesInit
<1>2. BatchesTypeOK
  BY <1>1, BatchesNumbers DEF BatchesTypeOK
<1>3. WindowInv /\ HomeInv
  <2>1. <<>> \in Seq(Lines) /\ DOMAIN <<>> = {}
    OBVIOUS
  <2>2. WindowInv
    BY <1>1, <2>1 DEF WindowInv, PlainWindow, OnlyAs
  <2>3. HomeInv
    BY <1>1 DEF HomeInv
  <2> QED
    BY <2>2, <2>3
<1>4. SumInv
  BY <1>1, FS_EmptySet DEF SumInv
<1>5. EachRecordOnce
  BY <1>1 DEF EachRecordOnce, Waiting, Elements, Mapping, Reducing, Windows, Rows
<1> QED
  BY <1>2, <1>3, <1>4, <1>5 DEF BatchesInv

(***************************************************************************)
(* The consumer.                                                           *)
(***************************************************************************)

(* What push leaves is a window again, and no record of it is elsewhere.   *)
LEMMA PushedWindow ==
  ASSUME BatchesInv, mut = "free", NEW did \in Dids \cup {NoDid}, arrived < MaxMsgs,
         NEW recs, recs = Pushed(did)
  PROVE  /\ PlainWindow(recs) /\ OnlyAs(recs, due \cup Elements(recs)) /\ Elements(recs) \subseteq Lines
         /\ \A r \in due \cup Elements(recs) : r.id <= arrived + 1
         /\ due \cup Elements(recs) = Elements(recs) \cup Elsewhere
         /\ Elements(recs) \cap Elsewhere = {}
<1>1. arrived \in Nat /\ MaxMsgs \in Nat
  BY BatchesNumbers DEF BatchesInv, BatchesTypeOK
<1>2. /\ PlainWindow(mapRecords) /\ OnlyAs(mapRecords, due)
      /\ (\A k \in DOMAIN mapRecords : mapRecords[k].id <= arrived)
      /\ (\A r \in due : r.id <= arrived /\ r \in Lines)
  BY DEF BatchesInv, WindowInv, BatchesTypeOK, Lines
<1>3. /\ due = Elements(mapRecords) \cup Elsewhere /\ Elements(mapRecords) \cap Elsewhere = {}
  BY DEF BatchesInv, EachRecordOnce, Waiting, Elsewhere
<1>4. \A r \in Elements(mapRecords) : r \in Lines /\ r.id \in Nat
  <2>1. \A r \in Elements(mapRecords) : r \in due
    BY <1>3
  <2> QED
    BY <1>1, <1>2, <2>1 DEF Lines, Record, Ids
<1>5. CASE recs = mapRecords
  <2>1. \A r \in Elements(mapRecords) : r \in due
    BY <1>3
  <2>2. \A r \in due : r.id <= arrived + 1
    BY <1>1, <1>2 DEF Lines, Record, Ids
  <2>3. due \cup Elements(mapRecords) = due
    BY <2>1
  <2> QED
    BY <1>2, <1>3, <1>4, <1>5, <2>2, <2>3
<1>6. CASE recs # mapRecords
  <2>0. PICK new : new = [id |-> arrived + 1, did |-> did, copy |-> 1]
    OBVIOUS
  <2>1. recs = Append(mapRecords, new)
    BY <1>6, <2>0 DEF Pushed
  <2>2. new \in Lines /\ new.id = arrived + 1 /\ new.copy = 1
    BY <1>1, <2>0 DEF Lines, Record, Ids
  <2>3. mapRecords \in Seq(Lines)
    BY <1>2 DEF PlainWindow
  <2>4. PICK n \in Nat : n = Len(mapRecords)
    BY <2>3
  <2>5. /\ recs \in Seq(Lines) /\ DOMAIN recs = 1..n + 1 /\ DOMAIN mapRecords = 1..n
        /\ \A k \in 1..n : recs[k] = mapRecords[k]
        /\ recs[n + 1] = new
    BY <2>1, <2>2, <2>3, <2>4
  <2>6. \A k \in DOMAIN recs : k \in DOMAIN mapRecords \/ k = n + 1
    BY <2>5
  <2>7. Elements(recs) = Elements(mapRecords) \cup {new}
    BY <2>5, <2>6 DEF Elements
  <2>8. \A r \in due : r.id # new.id /\ r.id <= arrived + 1
    BY <1>1, <1>2, <2>2 DEF Lines, Record, Ids
  <2>9. \A k \in DOMAIN mapRecords : mapRecords[k] \in due /\ mapRecords[k].id # new.id
    BY <1>3, <2>8 DEF Elements
  <2>10. PlainWindow(recs)
    <3>1. \A k \in DOMAIN recs : recs[k].copy = 1
      BY <1>2, <2>2, <2>5, <2>6 DEF PlainWindow
    <3>2. ASSUME NEW k \in DOMAIN recs, NEW l \in DOMAIN recs, recs[k].id = recs[l].id
          PROVE  k = l
      BY <1>2, <2>5, <2>6, <2>9, <3>2 DEF PlainWindow
    <3> QED
      BY <2>5, <3>1, <3>2 DEF PlainWindow
  <2>11. OnlyAs(recs, due \cup Elements(recs))
    <3> SUFFICES ASSUME NEW k \in DOMAIN recs, NEW r \in due \cup {new}, r.id = recs[k].id
                 PROVE  r = recs[k]
      BY <1>3, <2>7 DEF OnlyAs
    <3>1. CASE k = n + 1
      BY <2>5, <2>8, <3>1
    <3>2. CASE k \in DOMAIN mapRecords
      BY <1>2, <2>5, <2>9, <3>2 DEF OnlyAs
    <3> QED
      BY <2>6, <3>1, <3>2
  <2>12. new \notin due
    BY <2>8
  <2> QED
    BY <1>1, <1>3, <1>4, <2>2, <2>7, <2>8, <2>10, <2>11, <2>12
<1> QED
  BY <1>5, <1>6

(* The second copy of a record is nowhere yet.                             *)
LEMMA AgainIsNew ==
  ASSUME NEW recs, PlainWindow(recs), NEW all, OnlyAs(recs, all), NEW k \in DOMAIN recs
  PROVE  Again(recs[k]) \in Lines /\ Again(recs[k]) \notin all /\ Again(recs[k]).id = recs[k].id
<1>1. recs[k] \in Lines /\ recs[k].copy = 1
  BY DEF PlainWindow
<1>2. Again(recs[k]) \in Lines /\ Again(recs[k]).copy = 2 /\ Again(recs[k]).id = recs[k].id
  BY <1>1 DEF Again, Lines, Record
<1> QED
  BY <1>1, <1>2 DEF OnlyAs


(* The deal: every record of the window, and one copy, goes into one batch *)
(* of a mapper or is thrown away.                                          *)
LEMMA DealtOut ==
  ASSUME BatchesInv, mut = "free", NEW recs, PlainWindow(recs), OnlyAs(recs, due \cup Elements(recs)),
         Elements(recs) \subseteq Lines, Elements(recs) \cap Elsewhere = {},
         due \cup Elements(recs) = Elements(recs) \cup Elsewhere, ToMaps(recs)
  PROVE  \E Handed, Left, All \in SUBSET Lines :
           /\ Mapping' = Mapping \cup Handed /\ lost' = lost \cup Left /\ due' = Elsewhere \cup All
           /\ All = Handed \cup Left /\ Handed \cap Left = {} /\ All \cap Elsewhere = {}
           /\ \A r \in All : \E k \in DOMAIN recs : r.id = recs[k].id
           /\ \A b, c \in toMappers' : b # c => b.recs \cap c.recs = {}
           /\ \A b \in toMappers' \ toMappers :
                /\ b.key \in 0..MapSize - 1 /\ b.first \in Ids
                /\ b.recs \subseteq Lines /\ b.recs # {}
           /\ (mut' = "free" /\ mapRecords' = <<>>) \/ (mut' = "kept" /\ mapRecords' = recs)
<1>1. recs \in Seq(Lines) /\ MapSize \in Nat \ {0} /\ PerMapper(recs) \in Nat
  BY DealFits, BatchesNumbers DEF PlainWindow
<1>2. PICK upTo \in 0..MapSize :
        /\ upTo < MapSize => Batch(recs, upTo) # {}
        /\ toMappers' = toMappers \cup
             {MapInvokeData(recs, i) : i \in {i \in 0..upTo - 1 : Batch(recs, i) # {}}}
        /\ mut' = IF upTo = MapSize THEN "free" ELSE "kept"
        /\ mapRecords' = IF upTo = MapSize THEN <<>> ELSE recs
        /\ IF PerMapper(recs) = 0
           THEN lost' = lost \cup Elements(recs) /\ due' = due \cup Elements(recs)
           ELSE /\ lost' = lost \cup UNION {Batch(recs, i) : i \in upTo..MapSize - 1}
                /\ due' = due \cup Elements(recs) \cup {Again(recs[LastDealt(recs)])}
  BY DEF ToMaps
<1>3. (mut' = "free" /\ mapRecords' = <<>>) \/ (mut' = "kept" /\ mapRecords' = recs)
  BY <1>2
<1>4. \A b, c \in toMappers : b # c => b.recs \cap c.recs = {}
  BY DEF BatchesInv, EachRecordOnce
<1>5. CASE PerMapper(recs) = 0
  <2>1. \A i \in 0..MapSize - 1 : Batch(recs, i) = {}
    BY <1>1, <1>5 DEF Batch, TailOf
  <2>2. toMappers' = toMappers
    BY <1>1, <1>2, <2>1
  <2>3. Mapping' = Mapping
    BY <2>2 DEF Mapping
  <2>4. lost' = lost \cup Elements(recs) /\ due' = Elsewhere \cup Elements(recs)
    BY <1>2, <1>5
  <2>5. \A r \in Elements(recs) : \E k \in DOMAIN recs : r.id = recs[k].id
    BY DEF Elements
  <2> QED
    BY <1>3, <1>4, <2>2, <2>3, <2>4, <2>5
<1>6. CASE PerMapper(recs) > 0
  <2> DEFINE Handed == UNION {Batch(recs, i) : i \in 0..upTo - 1}
             Left == UNION {Batch(recs, i) : i \in upTo..MapSize - 1}
             copy == Again(recs[LastDealt(recs)])
             All == Elements(recs) \cup {copy}
             New == {MapInvokeData(recs, i) : i \in {i \in 0..upTo - 1 : Batch(recs, i) # {}}}
  <2>1. /\ UNION {Batch(recs, i) : i \in 0..MapSize - 1} = All
        /\ \A i, j \in 0..MapSize - 1 : i # j => Batch(recs, i) \cap Batch(recs, j) = {}
    BY <1>6, DealCuts
  <2>2. LastDealt(recs) \in DOMAIN recs
    BY <1>1, <1>6, DealFits
  <2>3. copy \in Lines /\ copy \notin Elsewhere /\ copy.id = recs[LastDealt(recs)].id
    BY <2>2, AgainIsNew
  <2>4. All \subseteq Lines /\ All \cap Elsewhere = {}
    BY <2>3
  <2>5. \A r \in All : \E k \in DOMAIN recs : r.id = recs[k].id
    BY <2>2, <2>3 DEF Elements
  <2>6. \A i \in 0..MapSize - 1 : i \in 0..upTo - 1 \/ i \in upTo..MapSize - 1
    BY <1>1, <1>2
  <2>7. /\ \A i \in 0..upTo - 1 : i \in 0..MapSize - 1
        /\ \A i \in upTo..MapSize - 1 : i \in 0..MapSize - 1
        /\ \A i \in 0..upTo - 1, j \in upTo..MapSize - 1 : i # j
    BY <1>1, <1>2
  <2>8. All = Handed \cup Left
    <3>1. \A x : x \in All <=> \E i \in 0..MapSize - 1 : x \in Batch(recs, i)
      BY <2>1
    <3>2. \A x : x \in Handed \cup Left <=> \E i \in 0..MapSize - 1 : x \in Batch(recs, i)
      BY <2>6, <2>7
    <3> HIDE DEF All, Handed, Left
    <3> QED
      BY <3>1, <3>2
  <2>9. Handed \cap Left = {}
    BY <2>1, <2>7
  <2>10. \A i \in 0..upTo - 1 : MapInvokeData(recs, i).recs = Batch(recs, i)
    BY DEF MapInvokeData
  <2>11. toMappers' = toMappers \cup New
    BY <1>2
  <2>12. \A b \in New : \E i \in 0..upTo - 1 : b = MapInvokeData(recs, i) /\ b.recs = Batch(recs, i) /\ b.recs # {}
    BY <2>10
  <2>13. Mapping' = Mapping \cup Handed
    <3>1. \A x : x \in Handed <=> \E b \in New : x \in b.recs
      <4> TAKE x
      <4>1. ASSUME x \in Handed PROVE \E b \in New : x \in b.recs
        <5>1. PICK i \in 0..upTo - 1 : x \in Batch(recs, i)
          BY <4>1
        <5>2. MapInvokeData(recs, i) \in New
          BY <5>1
        <5> QED
          BY <2>10, <5>1, <5>2
      <4>2. ASSUME NEW b \in New, x \in b.recs PROVE x \in Handed
        BY <2>12, <4>2
      <4> QED
        BY <4>1, <4>2
    <3> HIDE DEF New, Handed
    <3> QED
      BY <2>11, <3>1 DEF Mapping
  <2>14. \A b, c \in toMappers' : b # c => b.recs \cap c.recs = {}
    <3> SUFFICES ASSUME NEW b \in toMappers', NEW c \in toMappers', b # c PROVE b.recs \cap c.recs = {}
      OBVIOUS
    <3>1. CASE b \in toMappers /\ c \in toMappers
      BY <1>4, <3>1
    <3>2. ASSUME NEW d \in toMappers, NEW e \in New PROVE d.recs \cap e.recs = {}
      <4>1. d.recs \subseteq Elsewhere
        BY <3>2 DEF Elsewhere, Mapping
      <4>2. e.recs \subseteq All
        <5>1. PICK i \in 0..upTo - 1 : e.recs = Batch(recs, i)
          BY <2>12, <3>2
        <5> QED
          BY <2>1, <2>7, <5>1
      <4> QED
        BY <2>4, <4>1, <4>2
    <3>3. CASE b \in New /\ c \in New
      <4>1. PICK i \in 0..upTo - 1 : b = MapInvokeData(recs, i) /\ b.recs = Batch(recs, i)
        BY <2>12, <3>3
      <4>2. PICK j \in 0..upTo - 1 : c = MapInvokeData(recs, j) /\ c.recs = Batch(recs, j)
        BY <2>12, <3>3
      <4>3. i # j
        BY <4>1, <4>2
      <4> QED
        BY <2>1, <2>7, <4>1, <4>2, <4>3
    <3> HIDE DEF New
    <3> QED
      BY <2>11, <3>1, <3>2, <3>3
  <2>15. ASSUME NEW b \in toMappers' \ toMappers
         PROVE  b.key \in 0..MapSize - 1 /\ b.first \in Ids /\ b.recs \subseteq Lines /\ b.recs # {}
    <3>1. PICK i \in 0..upTo - 1 : b = MapInvokeData(recs, i) /\ b.recs = Batch(recs, i) /\ b.recs # {}
      BY <2>11, <2>12, <2>15
    <3>2. i * PerMapper(recs) + 1 \in DOMAIN recs /\ i \in 0..MapSize - 1
      BY <1>1, <1>6, <2>7, DealFits
    <3>3. recs[i * PerMapper(recs) + 1] \in Lines
      BY <1>1, <3>2
    <3>4. b.key = i /\ b.first = recs[i * PerMapper(recs) + 1].id
      BY <3>1 DEF MapInvokeData
    <3>5. b.recs \subseteq All
      BY <2>1, <3>1, <3>2
    <3> QED
      BY <2>4, <3>1, <3>2, <3>3, <3>4, <3>5 DEF Lines, Record
  <2>16. lost' = lost \cup Left /\ due' = Elsewhere \cup All
    BY <1>2, <1>6
  <2>17. Handed \in SUBSET Lines /\ Left \in SUBSET Lines /\ All \in SUBSET Lines
    BY <2>4, <2>8
  <2> HIDE DEF Handed, Left, All
  <2> QED
    BY <1>3, <2>4, <2>5, <2>8, <2>9, <2>13, <2>14, <2>15, <2>16, <2>17
<1>7. PerMapper(recs) = 0 \/ PerMapper(recs) > 0
  BY <1>1
<1> QED
  BY <1>5, <1>6, <1>7


LEMMA AcceptHolds ==
  ASSUME BatchesInv, NEW did \in Dids \cup {NoDid}, NEW ends \in BOOLEAN, Accept(did, ends)
  PROVE  BatchesInv'
<1>0. PICK recs : recs = Pushed(did)
  OBVIOUS
<1>1. /\ mut = "free" /\ arrived < MaxMsgs /\ arrived' = arrived + 1 /\ counter' = Counted
      /\ hash' = hash /\ toReducers' = toReducers
      /\ records' = records /\ count' = count /\ reported' = reported /\ unwritten' = unwritten
      /\ IF ends THEN ToMaps(recs)
         ELSE /\ mapRecords' = recs /\ due' = due \cup Elements(recs)
              /\ mut' = mut /\ toMappers' = toMappers /\ lost' = lost
  BY <1>0 DEF Accept, reducer
<1>2. /\ PlainWindow(recs) /\ OnlyAs(recs, due \cup Elements(recs)) /\ Elements(recs) \subseteq Lines
      /\ \A r \in due \cup Elements(recs) : r.id <= arrived + 1
      /\ due \cup Elements(recs) = Elements(recs) \cup Elsewhere
      /\ Elements(recs) \cap Elsewhere = {}
  BY <1>0, <1>1, PushedWindow
<1>3. \A k \in DOMAIN recs : recs[k].id <= arrived + 1
  BY <1>2 DEF Elements
<1>4. arrived' \in 0..MaxMsgs /\ counter' \in 0..Int32Max - 1
  <2>1. arrived \in Nat /\ counter \in 0..Int32Max - 1 /\ MaxMsgs \in Nat /\ Int32Max \in Nat \ {0}
    BY BatchesNumbers DEF BatchesInv, BatchesTypeOK
  <2> QED
    BY <1>1, <2>1 DEF Counted
<1>5. HomeInv' /\ SumInv'
  BY <1>1 DEF BatchesInv, HomeInv, SumInv
<1>6. Reducing' = Reducing /\ Windows' = Windows /\ Rows' = Rows
  BY <1>1 DEF Reducing, Windows, Rows
<1>7. recs \in Seq(Lines) /\ <<>> \in Seq(Lines)
  BY <1>2 DEF PlainWindow
<1>8. CASE ~ends
  <2>1. mapRecords' = recs /\ due' = due \cup Elements(recs) /\ mut' = "free" /\ toMappers' = toMappers /\ lost' = lost
    BY <1>1, <1>8
  <2>2. BatchesTypeOK'
    BY <1>1, <1>2, <1>4, <1>7, <2>1 DEF BatchesInv, BatchesTypeOK, Lines
  <2>3. WindowInv'
    BY <1>1, <1>2, <1>3, <2>1 DEF WindowInv
  <2>4. EachRecordOnce'
    <3>1. Mapping' = Mapping /\ Waiting' = Elements(recs)
      BY <2>1 DEF Mapping, Waiting
    <3> QED
      BY <1>1, <1>2, <1>6, <2>1, <3>1 DEF BatchesInv, EachRecordOnce, Elsewhere
  <2> QED
    BY <1>5, <2>2, <2>3, <2>4 DEF BatchesInv
<1>9. CASE ends
  <2>1. PICK Handed, Left, All \in SUBSET Lines :
           /\ Mapping' = Mapping \cup Handed /\ lost' = lost \cup Left /\ due' = Elsewhere \cup All
           /\ All = Handed \cup Left /\ Handed \cap Left = {} /\ All \cap Elsewhere = {}
           /\ \A r \in All : \E k \in DOMAIN recs : r.id = recs[k].id
           /\ \A b, c \in toMappers' : b # c => b.recs \cap c.recs = {}
           /\ \A b \in toMappers' \ toMappers :
                /\ b.key \in 0..MapSize - 1 /\ b.first \in Ids
                /\ b.recs \subseteq Lines /\ b.recs # {}
           /\ (mut' = "free" /\ mapRecords' = <<>>) \/ (mut' = "kept" /\ mapRecords' = recs)
    BY <1>1, <1>2, <1>9, DealtOut
  <2>2. BatchesTypeOK'
    <3>1. \A b \in toMappers' : /\ b.key \in 0..MapSize - 1 /\ b.first \in Ids
                                /\ b.recs \subseteq Lines /\ b.recs # {}
      <4> TAKE b \in toMappers'
      <4>1. CASE b \in toMappers
        BY <4>1 DEF BatchesInv, BatchesTypeOK, Lines
      <4>2. CASE b \in toMappers' \ toMappers
        BY <2>1, <4>2
      <4> QED
        BY <4>1, <4>2
    <3>2. mapRecords' \in Seq(Lines) /\ mut' \in {"free", "kept"}
      BY <1>7, <2>1
    <3>3. lost' \subseteq Lines /\ due' \subseteq Lines
      <4>1. lost \subseteq Lines /\ due \subseteq Lines
        BY DEF BatchesInv, BatchesTypeOK, Lines
      <4>2. Elsewhere \subseteq Lines
        BY <1>2, <4>1
      <4> QED
        BY <2>1, <4>1, <4>2
    <3> QED
      BY <1>1, <1>4, <3>1, <3>2, <3>3 DEF BatchesInv, BatchesTypeOK, Lines
  <2>3. WindowInv'
    <3>1. PlainWindow(mapRecords)' /\ \A k \in DOMAIN mapRecords' : mapRecords'[k].id <= arrived'
      <4>1. CASE mapRecords' = recs
        BY <1>1, <1>2, <1>3, <4>1
      <4>2. CASE mapRecords' = <<>>
        BY <4>2 DEF PlainWindow
      <4> QED
        BY <2>1, <4>1, <4>2
    <3>2. mut' = "free" => OnlyAs(mapRecords, due)'
      BY <2>1 DEF OnlyAs
    <3>3. \A r \in due' : r.id <= arrived'
      <4> SUFFICES ASSUME NEW r \in Elsewhere \cup All PROVE r.id <= arrived'
        BY <2>1
      <4>1. CASE r \in Elsewhere
        BY <1>1, <1>2, <4>1
      <4>2. CASE r \in All
        BY <1>1, <1>3, <2>1, <4>2
      <4> QED
        BY <4>1, <4>2
    <3> QED
      BY <3>1, <3>2, <3>3 DEF WindowInv
  <2>4. EachRecordOnce'
    <3>1. Waiting' = {}
      BY <2>1 DEF Waiting, Elements
    <3>2. due' = Waiting' \cup Mapping' \cup Reducing' \cup Windows' \cup Rows' \cup lost'
      BY <1>6, <2>1, <3>1 DEF Elsewhere
    <3>3. /\ Mapping' \cap (Reducing' \cup Windows' \cup Rows' \cup lost') = {}
          /\ Reducing' \cap (Windows' \cup Rows' \cup lost') = {}
          /\ Windows' \cap (Rows' \cup lost') = {} /\ Rows' \cap lost' = {}
      BY <1>6, <2>1 DEF BatchesInv, EachRecordOnce, Elsewhere
    <3> QED
      BY <1>1, <2>1, <3>1, <3>2, <3>3 DEF BatchesInv, EachRecordOnce
  <2> QED
    BY <1>5, <2>2, <2>3, <2>4 DEF BatchesInv
<1> QED
  BY <1>8, <1>9

(***************************************************************************)
(* The mappers and the reducers.                                           *)
(***************************************************************************)

LEMMA WindowQuiet ==
  ASSUME WindowInv, UNCHANGED consumer
  PROVE  WindowInv' /\ Waiting' = Waiting /\ due' = due /\ mut' = mut
         /\ mapRecords' = mapRecords /\ arrived' = arrived /\ counter' = counter
<1>1. due' = due /\ mut' = mut /\ mapRecords' = mapRecords /\ arrived' = arrived /\ counter' = counter
  BY DEF consumer
<1> QED
  BY <1>1 DEF WindowInv, PlainWindow, OnlyAs, Waiting, Elements

(* A batch that is taken leaves the others as they are.                    *)
LEMMA BatchTaken ==
  ASSUME BatchesInv, NEW b
  PROVE  /\ b \in toMappers => UNION {c.recs : c \in toMappers \ {b}} = Mapping \ b.recs /\ b.recs \subseteq Mapping
         /\ b \in toReducers =>
              UNION {c.recs : c \in toReducers \ {b}} = Reducing \ b.recs /\ b.recs \subseteq Reducing
<1>1. \A c, d \in toMappers : c # d => c.recs \cap d.recs = {}
  BY DEF BatchesInv, EachRecordOnce
<1>2. \A c, d \in toReducers : c # d => c.recs \cap d.recs = {}
  BY DEF BatchesInv, EachRecordOnce
<1>3. ASSUME b \in toMappers
      PROVE  UNION {c.recs : c \in toMappers \ {b}} = Mapping \ b.recs /\ b.recs \subseteq Mapping
  <2>1. \A x : x \in UNION {c.recs : c \in toMappers \ {b}} <=> x \in Mapping /\ x \notin b.recs
    BY <1>1, <1>3 DEF Mapping
  <2> QED
    BY <1>3, <2>1 DEF Mapping
<1>4. ASSUME b \in toReducers
      PROVE  UNION {c.recs : c \in toReducers \ {b}} = Reducing \ b.recs /\ b.recs \subseteq Reducing
  <2>1. \A x : x \in UNION {c.recs : c \in toReducers \ {b}} <=> x \in Reducing /\ x \notin b.recs
    BY <1>2, <1>4 DEF Reducing
  <2> QED
    BY <1>4, <2>1 DEF Reducing
<1> QED
  BY <1>3, <1>4

LEMMA LoseToMapperHolds ==
  ASSUME BatchesInv, NEW b \in toMappers, LoseToMapper(b)
  PROVE  BatchesInv'
<1>1. /\ toMappers' = toMappers \ {b} /\ lost' = lost \cup b.recs
      /\ hash' = hash /\ UNCHANGED consumer /\ toReducers' = toReducers
      /\ records' = records /\ count' = count /\ reported' = reported /\ unwritten' = unwritten
  BY DEF LoseToMapper, reducer
<1>2. /\ WindowInv' /\ Waiting' = Waiting /\ due' = due /\ mut' = mut
      /\ mapRecords' = mapRecords /\ arrived' = arrived /\ counter' = counter
  BY <1>1, WindowQuiet DEF BatchesInv
<1>3. BatchesTypeOK'
  BY <1>1, <1>2 DEF BatchesInv, BatchesTypeOK
<1>4. HomeInv' /\ SumInv'
  BY <1>1 DEF BatchesInv, HomeInv, SumInv
<1>5. Mapping' = Mapping \ b.recs /\ b.recs \subseteq Mapping
  BY <1>1, BatchTaken DEF Mapping
<1>6. Reducing' = Reducing /\ Windows' = Windows /\ Rows' = Rows
  BY <1>1 DEF Reducing, Windows, Rows
<1>7. EachRecordOnce'
  BY <1>1, <1>2, <1>5, <1>6 DEF BatchesInv, EachRecordOnce
<1> QED
  BY <1>2, <1>3, <1>4, <1>7 DEF BatchesInv

LEMMA LoseToReducerHolds ==
  ASSUME BatchesInv, NEW b \in toReducers, LoseToReducer(b)
  PROVE  BatchesInv'
<1>1. /\ toReducers' = toReducers \ {b} /\ lost' = lost \cup b.recs
      /\ hash' = hash /\ UNCHANGED consumer /\ toMappers' = toMappers
      /\ records' = records /\ count' = count /\ reported' = reported /\ unwritten' = unwritten
  BY DEF LoseToReducer, reducer
<1>2. /\ WindowInv' /\ Waiting' = Waiting /\ due' = due /\ mut' = mut
      /\ mapRecords' = mapRecords /\ arrived' = arrived /\ counter' = counter
  BY <1>1, WindowQuiet DEF BatchesInv
<1>3. BatchesTypeOK'
  <2>1. b.recs \subseteq Record(Dids \cup {NoDid})
    BY DEF BatchesInv, BatchesTypeOK, Record
  <2> QED
    BY <1>1, <1>2, <2>1 DEF BatchesInv, BatchesTypeOK
<1>4. HomeInv' /\ SumInv'
  BY <1>1 DEF BatchesInv, HomeInv, SumInv
<1>5. Reducing' = Reducing \ b.recs /\ b.recs \subseteq Reducing
  BY <1>1, BatchTaken DEF Reducing
<1>6. Mapping' = Mapping /\ Windows' = Windows /\ Rows' = Rows
  BY <1>1 DEF Mapping, Windows, Rows
<1>7. EachRecordOnce'
  BY <1>1, <1>2, <1>5, <1>6 DEF BatchesInv, EachRecordOnce
<1> QED
  BY <1>2, <1>3, <1>4, <1>7 DEF BatchesInv

(* The hash of a device names one reducer: the lines of a batch are cut.   *)
LEMMA MapDCOHolds ==
  ASSUME BatchesInv, NEW b \in toMappers, MapDCO(b)
  PROVE  BatchesInv'
<1>1. PICK upTo \in 0..Split :
        /\ toMappers' = toMappers \ {b}
        /\ toReducers' = toReducers \cup
             {[to |-> i, first |-> b.first, recs |-> Words(b, i)] : i \in 0..upTo - 1}
        /\ lost' = lost \cup {r \in b.recs : r.did = NoDid \/ hash[r.did] >= upTo}
        /\ hash' = hash /\ UNCHANGED consumer
        /\ records' = records /\ count' = count /\ reported' = reported /\ unwritten' = unwritten
  BY DEF MapDCO, reducer
<1> DEFINE New == {[to |-> i, first |-> b.first, recs |-> Words(b, i)] : i \in 0..upTo - 1}
           Out == UNION {Words(b, i) : i \in 0..upTo - 1}
           Left == {r \in b.recs : r.did = NoDid \/ hash[r.did] >= upTo}
<1>2. /\ WindowInv' /\ Waiting' = Waiting /\ due' = due /\ mut' = mut
      /\ mapRecords' = mapRecords /\ arrived' = arrived /\ counter' = counter
  BY <1>1, WindowQuiet DEF BatchesInv
<1>3. /\ b.recs \subseteq Lines /\ b.first \in Ids /\ Split \in Nat \ {0} /\ NoDid \notin Dids
      /\ hash \in [Dids -> Reducers]
  BY BatchesNumbers DEF BatchesInv, BatchesTypeOK, Lines
<1>4. \A r \in b.recs : r.did = NoDid \/ (r.did \in Dids /\ hash[r.did] \in 0..Split - 1)
  BY <1>3 DEF Lines, Record, Reducers
<1>5. /\ \A i \in 0..upTo - 1 : i \in Reducers /\ Words(b, i) \subseteq b.recs
      /\ \A i \in 0..upTo - 1 : \A r \in Words(b, i) : r.did \in Dids /\ hash[r.did] = i
  BY <1>3, <1>4 DEF Words, Reducers
<1>6. Out \cup Left = b.recs /\ Out \cap Left = {}
  <2>1. \A r \in b.recs : r \notin Left => \E i \in 0..upTo - 1 : r \in Words(b, i)
    <3> TAKE r \in b.recs
    <3> HAVE r \notin Left
    <3>1. r.did # NoDid /\ ~(hash[r.did] >= upTo) /\ hash[r.did] \in 0..Split - 1
      BY <1>4
    <3>2. hash[r.did] \in 0..upTo - 1
      BY <1>3, <3>1
    <3> QED
      BY <3>1, <3>2 DEF Words
  <2>2. \A r \in Out : r \in b.recs /\ r \notin Left
    <3> TAKE r \in Out
    <3>1. PICK i \in 0..upTo - 1 : r \in Words(b, i)
      OBVIOUS
    <3>2. r \in b.recs /\ r.did # NoDid /\ hash[r.did] = i /\ ~(i >= upTo)
      BY <1>1, <3>1 DEF Words
    <3> QED
      BY <3>2
  <2>3. Left \subseteq b.recs
    OBVIOUS
  <2>4. \A r \in b.recs : r \notin Left => r \in Out
    BY <2>1
  <2> HIDE DEF Out, Left
  <2> QED
    BY <2>2, <2>3, <2>4
<1>7. \A c \in New : /\ c.to \in Reducers /\ c.first \in Ids /\ c.recs \subseteq b.recs
                     /\ \A r \in c.recs : r.did \in Dids /\ hash[r.did] = c.to
  BY <1>3, <1>5
<1>8. toReducers' = toReducers \cup New /\ lost' = lost \cup Left /\ toMappers' = toMappers \ {b}
  BY <1>1
<1>9. Mapping' = Mapping \ b.recs /\ b.recs \subseteq Mapping
  BY <1>8, BatchTaken DEF Mapping
<1>10. Reducing' = Reducing \cup Out
  <2>1. \A x : x \in Out <=> \E c \in New : x \in c.recs
    <3> TAKE x
    <3>1. ASSUME x \in Out PROVE \E c \in New : x \in c.recs
      <4>1. PICK i \in 0..upTo - 1 : x \in Words(b, i)
        BY <3>1
      <4>2. [to |-> i, first |-> b.first, recs |-> Words(b, i)] \in New
        BY <4>1
      <4> QED
        BY <4>1, <4>2
    <3>2. ASSUME NEW c \in New, x \in c.recs PROVE x \in Out
      BY <3>2
    <3> QED
      BY <3>1, <3>2
  <2> HIDE DEF New, Out
  <2> QED
    BY <1>8, <2>1 DEF Reducing
<1>11. Windows' = Windows /\ Rows' = Rows
  BY <1>1 DEF Windows, Rows
<1>12. \A c, d \in New : c # d => c.recs \cap d.recs = {}
  <2> SUFFICES ASSUME NEW c \in New, NEW d \in New, c # d, NEW x \in c.recs, x \in d.recs PROVE FALSE
    OBVIOUS
  <2>1. PICK i \in 0..upTo - 1 : c = [to |-> i, first |-> b.first, recs |-> Words(b, i)]
    OBVIOUS
  <2>2. PICK j \in 0..upTo - 1 : d = [to |-> j, first |-> b.first, recs |-> Words(b, j)]
    OBVIOUS
  <2>3. hash[x.did] = i /\ hash[x.did] = j
    BY <1>5, <2>1, <2>2
  <2> QED
    BY <2>1, <2>2, <2>3
<1> HIDE DEF New, Out, Left
<1>13. BatchesTypeOK'
  <2>1. \A c \in toReducers' : c.to \in Reducers /\ c.first \in Ids /\ c.recs \subseteq Record(Dids)
    <3> TAKE c \in toReducers'
    <3>1. CASE c \in toReducers
      BY <3>1 DEF BatchesInv, BatchesTypeOK
    <3>2. CASE c \in New
      <4>1. \A r \in c.recs : r \in Lines /\ r.did \in Dids
        BY <1>3, <1>7, <3>2
      <4> QED
        BY <1>7, <3>2, <4>1 DEF Lines, Record
    <3> QED
      BY <1>8, <3>1, <3>2
  <2>2. Left \subseteq Lines
    BY <1>3, <1>6
  <2> QED
    BY <1>1, <1>2, <1>8, <2>1, <2>2 DEF BatchesInv, BatchesTypeOK, Lines
<1>14. HomeInv'
  <2>1. \A c \in toReducers' : \A r \in c.recs : hash[r.did] = c.to
    <3> TAKE c \in toReducers'
    <3>1. CASE c \in toReducers
      BY <3>1 DEF BatchesInv, HomeInv
    <3>2. CASE c \in New
      BY <1>7, <3>2
    <3> QED
      BY <1>8, <3>1, <3>2
  <2> QED
    BY <1>1, <2>1 DEF BatchesInv, HomeInv
<1>15. SumInv'
  BY <1>1 DEF BatchesInv, SumInv
<1>16. EachRecordOnce'
  <2>1. \A c, d \in toReducers' : c # d => c.recs \cap d.recs = {}
    <3> SUFFICES ASSUME NEW c \in toReducers', NEW d \in toReducers', c # d PROVE c.recs \cap d.recs = {}
      OBVIOUS
    <3>1. CASE c \in toReducers /\ d \in toReducers
      BY <3>1 DEF BatchesInv, EachRecordOnce
    <3>2. ASSUME NEW p \in toReducers, NEW q \in New PROVE p.recs \cap q.recs = {}
      <4>1. p.recs \subseteq Reducing /\ q.recs \subseteq Mapping
        BY <1>7, <1>9, BatchTaken
      <4>2. Mapping \cap Reducing = {}
        BY DEF BatchesInv, EachRecordOnce
      <4> QED
        BY <4>1, <4>2
    <3>3. CASE c \in New /\ d \in New
      BY <1>12, <3>3
    <3> QED
      BY <1>8, <3>1, <3>2, <3>3
  <2>2. \A c, d \in toMappers' : c # d => c.recs \cap d.recs = {}
    BY <1>8 DEF BatchesInv, EachRecordOnce
  <2>3. \A i, j \in Reducers : i # j =>
          records'[i] \cap records'[j] = {} /\ reported'[i] \cap reported'[j] = {}
    BY <1>1 DEF BatchesInv, EachRecordOnce
  <2>4. due' = Waiting' \cup Mapping' \cup Reducing' \cup Windows' \cup Rows' \cup lost'
    BY <1>2, <1>6, <1>8, <1>9, <1>10, <1>11 DEF BatchesInv, EachRecordOnce
  <2>5. /\ Waiting' \cap (Mapping' \cup Reducing' \cup Windows' \cup Rows' \cup lost') = {}
        /\ Mapping' \cap (Reducing' \cup Windows' \cup Rows' \cup lost') = {}
        /\ Reducing' \cap (Windows' \cup Rows' \cup lost') = {}
        /\ Windows' \cap (Rows' \cup lost') = {} /\ Rows' \cap lost' = {}
    BY <1>2, <1>6, <1>8, <1>9, <1>10, <1>11 DEF BatchesInv, EachRecordOnce
  <2> QED
    BY <2>1, <2>2, <2>3, <2>4, <2>5 DEF EachRecordOnce
<1> QED
  BY <1>2, <1>13, <1>14, <1>15, <1>16 DEF BatchesInv


(* A window with its last batch is kept, reported, or dropped.             *)
LEMMA ReducerAcceptHolds ==
  ASSUME BatchesInv, NEW b \in toReducers, NEW ends \in BOOLEAN, NEW opens \in BOOLEAN,
         ReducerAccept(b, ends, opens)
  PROVE  BatchesInv'
<1> DEFINE window == records[b.to] \cup b.recs
           row == ends /\ b.recs # {} /\ opens
<1>1. PICK kept, shown, dropped \in SUBSET window :
        /\ kept = (IF ends THEN {} ELSE window) /\ shown = (IF row THEN window ELSE {})
        /\ dropped = (IF ends /\ ~row THEN window ELSE {})
  OBVIOUS
<1>2. /\ toReducers' = toReducers \ {b}
      /\ count' = [count EXCEPT ![b.to] = count[b.to] + Cardinality(b.recs)]
      /\ records' = [records EXCEPT ![b.to] = kept]
      /\ reported' = [reported EXCEPT ![b.to] = reported[b.to] \cup shown]
      /\ unwritten' = [unwritten EXCEPT ![b.to] = unwritten[b.to] + Cardinality(dropped)]
      /\ lost' = lost \cup dropped
      /\ hash' = hash /\ UNCHANGED consumer /\ toMappers' = toMappers
  <2>1. (IF row THEN reported[b.to] \cup window ELSE reported[b.to]) = reported[b.to] \cup shown
    BY <1>1
  <2> QED
    BY <1>1, <2>1 DEF ReducerAccept
<1>3. /\ kept \cup shown \cup dropped = window
      /\ kept \cap shown = {} /\ kept \cap dropped = {} /\ shown \cap dropped = {}
  BY <1>1
<1>4. \/ kept = window /\ shown = {} /\ dropped = {}
      \/ kept = {} /\ shown = window /\ dropped = {}
      \/ kept = {} /\ shown = {} /\ dropped = window
  BY <1>1
<1>5. /\ b.to \in Reducers /\ b.first \in Ids /\ b.recs \subseteq Record(Dids)
      /\ records \in [Reducers -> SUBSET Record(Dids)] /\ reported \in [Reducers -> SUBSET Record(Dids)]
      /\ count \in [Reducers -> Nat] /\ unwritten \in [Reducers -> Nat]
  BY DEF BatchesInv, BatchesTypeOK
<1>6. window \subseteq Record(Dids) /\ Record(Dids) \subseteq Lines
  BY <1>5 DEF Lines, Record
<1> HIDE DEF window, row
<1>7. /\ \A i \in Reducers : records'[i] = IF i = b.to THEN kept ELSE records[i]
      /\ \A i \in Reducers : reported'[i] = IF i = b.to THEN reported[i] \cup shown ELSE reported[i]
      /\ \A i \in Reducers : count'[i] = IF i = b.to THEN count[i] + Cardinality(b.recs) ELSE count[i]
      /\ \A i \in Reducers : unwritten'[i] = IF i = b.to THEN unwritten[i] + Cardinality(dropped) ELSE unwritten[i]
  BY <1>2, <1>5
<1>8. /\ WindowInv' /\ Waiting' = Waiting /\ due' = due /\ mut' = mut
      /\ mapRecords' = mapRecords /\ arrived' = arrived /\ counter' = counter
  BY <1>2, WindowQuiet DEF BatchesInv
<1>9. /\ Cardinality(b.recs) \in Nat /\ IsFiniteSet(b.recs) /\ b.recs \subseteq Lines
      /\ Cardinality(kept) \in Nat /\ IsFiniteSet(kept)
      /\ Cardinality(shown) \in Nat /\ IsFiniteSet(shown)
      /\ Cardinality(dropped) \in Nat
      /\ Cardinality(records[b.to]) \in Nat /\ IsFiniteSet(records[b.to])
      /\ Cardinality(reported[b.to]) \in Nat /\ IsFiniteSet(reported[b.to])
  <2>1. /\ b.recs \in SUBSET Lines /\ kept \in SUBSET Lines /\ shown \in SUBSET Lines /\ dropped \in SUBSET Lines
        /\ records[b.to] \in SUBSET Lines /\ reported[b.to] \in SUBSET Lines
    BY <1>1, <1>5, <1>6
  <2> QED
    BY <2>1, LinesFinite
<1>10. BatchesTypeOK'
  <2>1. kept \subseteq Record(Dids) /\ shown \subseteq Record(Dids) /\ dropped \subseteq Lines
    BY <1>1, <1>6
  <2>2. records' \in [Reducers -> SUBSET Record(Dids)]
    BY <1>2, <1>5, <2>1
  <2>3. reported[b.to] \cup shown \in SUBSET Record(Dids)
    BY <1>5, <2>1
  <2>4. reported' \in [Reducers -> SUBSET Record(Dids)]
    BY <1>2, <1>5, <2>3
  <2>5. count' \in [Reducers -> Nat] /\ unwritten' \in [Reducers -> Nat]
    <3>1. count[b.to] + Cardinality(b.recs) \in Nat /\ unwritten[b.to] + Cardinality(dropped) \in Nat
      BY <1>5, <1>9
    <3> QED
      BY <1>2, <1>5, <3>1
  <2>6. lost' \subseteq Lines
    BY <1>2, <2>1 DEF BatchesInv, BatchesTypeOK, Lines
  <2> QED
    BY <1>2, <1>8, <2>2, <2>4, <2>5, <2>6 DEF BatchesInv, BatchesTypeOK, Lines
<1>11. HomeInv'
  <2>1. \A r \in window : hash[r.did] = b.to
    BY <1>5 DEF BatchesInv, HomeInv, window
  <2>2. \A i \in Reducers : \A r \in records'[i] \cup reported'[i] : hash[r.did] = i
    <3> TAKE i \in Reducers
    <3> TAKE r \in records'[i] \cup reported'[i]
    <3>1. CASE i = b.to
      <4>1. r \in window \/ r \in reported[i]
        BY <1>1, <1>7, <3>1
      <4> QED
        BY <2>1, <3>1, <4>1 DEF BatchesInv, HomeInv
    <3>2. CASE i # b.to
      BY <1>7, <3>2 DEF BatchesInv, HomeInv
    <3> QED
      BY <3>1, <3>2
  <2> QED
    BY <1>2, <2>2 DEF BatchesInv, HomeInv
<1>12. Reducing' = Reducing \ b.recs /\ b.recs \subseteq Reducing
  BY <1>2, BatchTaken DEF Reducing
<1>13. /\ records[b.to] \subseteq Windows /\ reported[b.to] \subseteq Rows
       /\ Reducing \cap (Windows \cup Rows) = {} /\ Windows \cap Rows = {}
  BY <1>5 DEF Windows, Rows, BatchesInv, EachRecordOnce
<1>14. b.recs \cap records[b.to] = {} /\ reported[b.to] \cap window = {}
  BY <1>12, <1>13 DEF window
<1>15. SumInv'
  <2>1. Cardinality(window) = Cardinality(records[b.to]) + Cardinality(b.recs)
    <3>1. records[b.to] \cap b.recs = {}
      BY <1>14
    <3>2. Cardinality({}) = 0
      BY FS_EmptySet
    <3>3. Cardinality(records[b.to] \cup b.recs)
            = Cardinality(records[b.to]) + Cardinality(b.recs) - Cardinality(records[b.to] \cap b.recs)
      BY <1>9, FS_Union
    <3> QED
      BY <1>9, <3>1, <3>2, <3>3 DEF window
  <2>2. Cardinality(kept) + Cardinality(shown) + Cardinality(dropped) = Cardinality(window)
    <3>1. Cardinality({}) = 0 /\ Cardinality(window) \in Nat
      BY <1>9, <2>1, FS_EmptySet
    <3>2. CASE kept = window /\ shown = {} /\ dropped = {}
      BY <3>1, <3>2
    <3>3. CASE kept = {} /\ shown = window /\ dropped = {}
      BY <3>1, <3>3
    <3>4. CASE kept = {} /\ shown = {} /\ dropped = window
      BY <3>1, <3>4
    <3> QED
      BY <1>4, <3>2, <3>3, <3>4
  <2>3. Cardinality(reported[b.to] \cup shown) = Cardinality(reported[b.to]) + Cardinality(shown)
    <3>1. reported[b.to] \cap shown = {}
      BY <1>1, <1>14
    <3>2. Cardinality({}) = 0
      BY FS_EmptySet
    <3>3. Cardinality(reported[b.to] \cup shown)
            = Cardinality(reported[b.to]) + Cardinality(shown) - Cardinality(reported[b.to] \cap shown)
      BY <1>9, FS_Union
    <3> QED
      BY <1>9, <3>1, <3>2, <3>3
  <2>4. ASSUME NEW i \in Reducers
        PROVE  count'[i] = Cardinality(reported'[i]) + Cardinality(records'[i]) + unwritten'[i]
    <3>1. count[i] = Cardinality(reported[i]) + Cardinality(records[i]) + unwritten[i]
      BY DEF BatchesInv, SumInv
    <3>2. CASE i # b.to
      BY <1>7, <3>1, <3>2
    <3>3. CASE i = b.to
      <4>1. /\ Cardinality(reported'[i]) = Cardinality(reported[i]) + Cardinality(shown)
            /\ Cardinality(records'[i]) = Cardinality(kept)
            /\ count'[i] = count[i] + Cardinality(b.recs) /\ unwritten'[i] = unwritten[i] + Cardinality(dropped)
        BY <1>7, <2>3, <3>3
      <4>2. count[i] \in Nat /\ unwritten[i] \in Nat
        BY <1>5
      <4> QED
        BY <1>9, <2>1, <2>2, <3>1, <3>3, <4>1, <4>2
    <3> QED
      BY <3>2, <3>3
  <2> QED
    BY <2>4 DEF SumInv
<1>16. Mapping' = Mapping
  BY <1>2 DEF Mapping
<1>17. Windows' = (Windows \ records[b.to]) \cup kept
  <2>1. \A i \in Reducers : i # b.to => records[i] \cap records[b.to] = {}
    BY <1>5 DEF BatchesInv, EachRecordOnce
  <2>2. \A x : (\E i \in Reducers : x \in records'[i]) <=> x \in kept \/ (x \notin records[b.to] /\ \E i \in Reducers : x \in records[i])
    BY <1>5, <1>7, <2>1
  <2> QED
    BY <2>2 DEF Windows
<1>18. Rows' = Rows \cup shown
  <2>1. \A x : (\E i \in Reducers : x \in reported'[i]) <=> x \in shown \/ (\E i \in Reducers : x \in reported[i])
    BY <1>5, <1>7
  <2> QED
    BY <2>1 DEF Rows
<1>19. EachRecordOnce'
  <2>1. window \subseteq Windows \cup Reducing /\ window = records[b.to] \cup b.recs
    BY <1>12, <1>13 DEF window
  <2>2. due' = Waiting' \cup Mapping' \cup Reducing' \cup Windows' \cup Rows' \cup lost'
    <3>1. due = Waiting \cup Mapping \cup Reducing \cup Windows \cup Rows \cup lost
      BY DEF BatchesInv, EachRecordOnce
    <3> QED
      BY <1>2, <1>3, <1>8, <1>12, <1>13, <1>16, <1>17, <1>18, <2>1, <3>1
  <2>3. /\ Waiting \cap (Mapping \cup Reducing \cup Windows \cup Rows \cup lost) = {}
        /\ Mapping \cap (Reducing \cup Windows \cup Rows \cup lost) = {}
        /\ Reducing \cap (Windows \cup Rows \cup lost) = {}
        /\ Windows \cap (Rows \cup lost) = {} /\ Rows \cap lost = {}
    BY DEF BatchesInv, EachRecordOnce
  <2>4. kept \subseteq window /\ shown \subseteq window /\ dropped \subseteq window
    BY <1>1
  <2>5. /\ Waiting' \cap (Mapping' \cup Reducing' \cup Windows' \cup Rows' \cup lost') = {}
        /\ Mapping' \cap (Reducing' \cup Windows' \cup Rows' \cup lost') = {}
    BY <1>2, <1>8, <1>12, <1>16, <1>17, <1>18, <2>1, <2>3, <2>4
  <2>6. Reducing' \cap (Windows' \cup Rows' \cup lost') = {}
    <3>1. Reducing' \cap window = {}
      BY <1>12, <1>13, <2>1
    <3> QED
      BY <1>2, <1>12, <1>17, <1>18, <2>3, <2>4, <3>1
  <2>7. Windows' \cap (Rows' \cup lost') = {} /\ Rows' \cap lost' = {}
    <3>1. (Windows \ records[b.to]) \cap window = {}
      BY <1>12, <2>1, <2>3
    <3>2. (Rows \cup lost) \cap window = {}
      BY <2>1, <2>3
    <3> QED
      BY <1>2, <1>3, <1>17, <1>18, <2>3, <2>4, <3>1, <3>2
  <2>8. \A c, d \in toReducers' : c # d => c.recs \cap d.recs = {}
    BY <1>2 DEF BatchesInv, EachRecordOnce
  <2>9. \A c, d \in toMappers' : c # d => c.recs \cap d.recs = {}
    BY <1>2 DEF BatchesInv, EachRecordOnce
  <2>10. ASSUME NEW i \in Reducers, NEW j \in Reducers, i # j
         PROVE  records'[i] \cap records'[j] = {} /\ reported'[i] \cap reported'[j] = {}
    <3>1. /\ records[i] \cap records[j] = {} /\ reported[i] \cap reported[j] = {}
          /\ records[i] \subseteq Windows /\ records[j] \subseteq Windows
          /\ reported[i] \subseteq Rows /\ reported[j] \subseteq Rows
      BY <2>10 DEF BatchesInv, EachRecordOnce, Windows, Rows
    <3>2. ASSUME NEW k \in Reducers, k # b.to
          PROVE  window \cap records[k] = {} /\ window \cap reported[k] = {}
      <4>1. records[k] \cap records[b.to] = {}
        BY <1>5, <3>2 DEF BatchesInv, EachRecordOnce
      <4>2. records[k] \subseteq Windows /\ reported[k] \subseteq Rows
        BY <3>2 DEF Windows, Rows
      <4> QED
        BY <1>12, <1>13, <2>1, <4>1, <4>2
    <3>3. CASE i # b.to /\ j # b.to
      BY <1>7, <3>1, <3>3
    <3>4. CASE i = b.to
      BY <1>7, <2>4, <2>10, <3>1, <3>2, <3>4
    <3>5. CASE j = b.to
      BY <1>7, <2>4, <2>10, <3>1, <3>2, <3>5
    <3> QED
      BY <3>3, <3>4, <3>5
  <2> QED
    BY <2>2, <2>5, <2>6, <2>7, <2>8, <2>9, <2>10 DEF EachRecordOnce
<1> QED
  BY <1>8, <1>10, <1>11, <1>15, <1>19 DEF BatchesInv

LEMMA BatchesStep == BatchesInv /\ [BatchesNext]_batchesVars => BatchesInv'
<1> SUFFICES ASSUME BatchesInv, [BatchesNext]_batchesVars PROVE BatchesInv'
  OBVIOUS
<1>1. CASE \E did \in Dids \cup {NoDid}, ends \in BOOLEAN : Accept(did, ends)
  BY <1>1, AcceptHolds
<1>2. CASE \E b \in toMappers : MapDCO(b) \/ LoseToMapper(b)
  BY <1>2, MapDCOHolds, LoseToMapperHolds
<1>3. CASE \E b \in toReducers : LoseToReducer(b) \/ \E ends, opens \in BOOLEAN : ReducerAccept(b, ends, opens)
  BY <1>3, LoseToReducerHolds, ReducerAcceptHolds
<1>4. CASE UNCHANGED batchesVars
  <2>1. /\ hash' = hash /\ UNCHANGED consumer /\ toMappers' = toMappers /\ toReducers' = toReducers
        /\ records' = records /\ count' = count /\ reported' = reported /\ unwritten' = unwritten /\ lost' = lost
    BY <1>4 DEF batchesVars, reducer
  <2>2. /\ WindowInv' /\ Waiting' = Waiting /\ due' = due /\ mut' = mut
        /\ mapRecords' = mapRecords /\ arrived' = arrived /\ counter' = counter
    BY <2>1, WindowQuiet DEF BatchesInv
  <2>3. BatchesTypeOK'
    BY <2>1, <2>2 DEF BatchesInv, BatchesTypeOK
  <2>4. HomeInv' /\ SumInv'
    BY <2>1 DEF BatchesInv, HomeInv, SumInv
  <2>5. Mapping' = Mapping /\ Reducing' = Reducing /\ Windows' = Windows /\ Rows' = Rows
    BY <2>1 DEF Mapping, Reducing, Windows, Rows
  <2>6. EachRecordOnce'
    BY <2>1, <2>2, <2>5 DEF BatchesInv, EachRecordOnce
  <2> QED
    BY <2>2, <2>3, <2>4, <2>6 DEF BatchesInv
<1> QED
  BY <1>1, <1>2, <1>3, <1>4 DEF BatchesNext

LEMMA BatchesInvariance == BatchesSpec => []BatchesInv
<1>1. BatchesInit => BatchesInv
  BY BatchesInitHolds
<1>2. BatchesInv /\ [BatchesNext]_batchesVars => BatchesInv'
  BY BatchesStep
<1> QED
  BY <1>1, <1>2, PTL DEF BatchesSpec


(* Windows, batches and rows are of records, and the counter of push never *)
(* reaches INT32_MAX.                                                      *)
THEOREM BatchesTypeCorrect == BatchesSpec => []BatchesTypeOK
<1>1. BatchesInv => BatchesTypeOK
  BY DEF BatchesInv
<1> QED
  BY <1>1, BatchesInvariance, PTL

(* For every number of mappers and reducers and every split of a window by *)
(* toMaps, whatever is lost, overtaken or thrown away: each record is in   *)
(* one place, and only the last one dealt of a window has a second copy.   *)
THEOREM NoRecordTwice == BatchesSpec => []EachRecordOnce
<1>1. BatchesInv => EachRecordOnce
  BY DEF BatchesInv
<1> QED
  BY <1>1, BatchesInvariance, PTL

(* The total that a row of Reducer::accept reports is the sum of the rows, *)
(* the open window and the windows closed without a row; and no device is  *)
(* in the rows of two reducers.                                            *)
THEOREM TotalsAgree == BatchesSpec => []RowsAddUp
<1>1. BatchesInv => RowsAddUp
  <2> SUFFICES ASSUME BatchesInv, NEW i \in Reducers
               PROVE  /\ count[i] = Cardinality(reported[i]) + Cardinality(records[i]) + unwritten[i]
                      /\ \A j \in Reducers \ {i} : \A r \in reported[i] : \A s \in reported[j] : r.did # s.did
    BY DEF RowsAddUp
  <2>1. count[i] = Cardinality(reported[i]) + Cardinality(records[i]) + unwritten[i]
    BY DEF BatchesInv, SumInv
  <2>2. ASSUME NEW j \in Reducers \ {i}, NEW r \in reported[i], NEW s \in reported[j]
        PROVE  r.did # s.did
    <3>1. hash[r.did] = i /\ hash[s.did] = j
      BY DEF BatchesInv, HomeInv
    <3> QED
      BY <2>2, <3>1
  <2> QED
    BY <2>1, <2>2
<1> QED
  BY <1>1, BatchesInvariance, PTL
=============================================================================

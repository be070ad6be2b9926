------------------------------- MODULE Driver -------------------------------
(***************************************************************************)
(* How the driver starts a job (dsc driver/Driver.cpp, core/NodeConfig.cpp,*)
(* core/Partition.cpp, kafka/KafkaDCO.cpp, KafkaJobConsumer.cpp,           *)
(* map/MapSchedule.cpp, MapDCO.cpp, reduce/ReduceDCO.cpp): reducers first, *)
(* then mappers, which are told where the reducers are, then one consumer  *)
(* per Kafka partition with its share of the mappers.  The nodes are taken *)
(* in turn.  The driver waits five seconds for each answer and goes on     *)
(* without it.  What a node keeps about its Kafka partition and its        *)
(* reducer is static: a second one on the node overwrites the first.       *)
(***************************************************************************)
EXTENDS Integers, Sequences, FiniteSets

CONSTANTS
  MaxWorkers,     (* bound: nodes besides the driver's                     *)
  MaxReducers,    (* bound: splitNums2                                     *)
  MaxMappers,     (* bound: splitNums1                                     *)
  MaxPartitions,  (* bound: Kafka partitions                               *)
  MaxLate         (* bound: requests still on the way after their wait     *)

ASSUME DriverAssumption ==
  /\ MaxWorkers \in Nat \ {0} /\ MaxReducers \in Nat /\ MaxMappers \in Nat
  /\ MaxPartitions \in Nat /\ MaxLate \in Nat

VARIABLES
  conf,           (* conf.json and dsc.json                                *)
  cursor,         (* NodeConfig::index; node 0 is the driver               *)
  stage, step,    (* which start_ function the driver is in, and its i     *)
  at,             (* where in the loop                                     *)
  node,           (* the node of this turn                                 *)
  reduceVoxorIds, mapVoxorIds,   (* the nodes of the reducers and mappers  *)
  sent, parsed, done,  (* requests on the way, half handled, handled       *)
  late,           (* history: the driver has gone on without an answer     *)
  reduceInput, reducers,   (* per node: ReduceDCO::input.index, its files  *)
  maps,           (* per node: MapSchedule::maps                           *)
  kafkaIndex, kafkaMappers,  (* per node: KafkaDCO::input                  *)
  consumers       (* per node: JobManager::consumers                       *)

driver == <<cursor, stage, step, at, node, reduceVoxorIds, mapVoxorIds, late>>
workers == <<reduceInput, reducers, maps, kafkaIndex, kafkaMappers, consumers>>
network == <<sent, parsed, done>>
vars == <<conf, driver, workers, network>>

Workers == 1..MaxWorkers
Stages == <<"reduce", "map", "kafka", "finished">>

(* How often the loop of a stage runs. *)
Turns(s) == CASE s = "reduce" -> conf.splitNums2
              [] s = "map" -> conf.splitNums1
              [] s = "kafka" -> conf.partitions
              [] OTHER -> 0
-----------------------------------------------------------------------------
(* Mutation: m = i + 1, as if the partitions were counted from one. *)
DealtFromOne(i) == {m \in 0..conf.splitNums1 - 1 : m >= i + 1 /\ (m - i - 1) % conf.partitions = 0}

(* for (m = i; m < splitNums1; m += partitions) *)
Dealt(i) == {m \in 0..conf.splitNums1 - 1 : m >= i /\ (m - i) % conf.partitions = 0}

(* A list of mappers is a set of node and key: their order has no effect.  *)
Share(i) == {<<mapVoxorIds[m + 1], m>> : m \in Dealt(i)}

(* toJson of PartitionReduce, PartitionMap and PartitionKafka. *)
Request ==
  [stage |-> stage, i |-> step, node |-> node,
   mappers |-> IF stage = "kafka" THEN Share(step) ELSE {},
   reducers |-> IF stage = "map" THEN reduceVoxorIds ELSE <<>>]
-----------------------------------------------------------------------------
(* startJob: more partitions than mappers are refused. *)
Start ==
  /\ stage = "start"
  /\ stage' = IF conf.partitions > conf.splitNums1 THEN "failed" ELSE "reduce"
  /\ UNCHANGED <<conf, cursor, step, at, node, reduceVoxorIds, mapVoxorIds, late, workers, network>>

(* Mutation: back to node 0. *)
NextIndexZero == IF cursor + 1 > conf.workers THEN 0 ELSE cursor + 1

(* Mutation: the last node is left out. *)
NextIndexShort == IF cursor + 1 >= conf.workers THEN 1 ELSE cursor + 1

(* NodeConfig::nextNode: index++; from the last node back to the first     *)
(* after the driver's own.                                                 *)
NextIndex == IF cursor + 1 > conf.workers THEN 1 ELSE cursor + 1

(* One turn of a loop takes a node, and records where the reducer or the   *)
(* mapper will be.                                                         *)
NextNode ==
  /\ at = "next" /\ stage \in {"reduce", "map", "kafka"} /\ step < Turns(stage)
  /\ cursor' = NextIndex
  /\ node' = NextIndex
  /\ at' = "create"
  /\ reduceVoxorIds' = IF stage = "reduce" THEN Append(reduceVoxorIds, NextIndex) ELSE reduceVoxorIds
  /\ mapVoxorIds' = IF stage = "map" THEN Append(mapVoxorIds, NextIndex) ELSE mapVoxorIds
  /\ UNCHANGED <<conf, stage, step, late, workers, network>>

EndStage ==
  /\ at = "next" /\ stage \in {"reduce", "map", "kafka"} /\ step = Turns(stage)
  /\ \E n \in 1..3 : Stages[n] = stage /\ stage' = Stages[n + 1]
  /\ step' = 0
  /\ UNCHANGED <<conf, cursor, at, node, reduceVoxorIds, mapVoxorIds, late, workers, network>>

(* LaneClient::create and invoke. *)
Invoke ==
  /\ at = "create"
  /\ sent' = sent \cup {Request}
  /\ at' = "wait"
  /\ UNCHANGED <<conf, cursor, stage, step, node, reduceVoxorIds, mapVoxorIds, late, workers, parsed, done>>

(* The node cannot be reached: the exception ends the job. *)
CreateFails ==
  /\ at = "create"
  /\ stage' = "failed" /\ at' = "next"
  /\ UNCHANGED <<conf, cursor, step, node, reduceVoxorIds, mapVoxorIds, late, workers, network>>

GoOn == at' = "next" /\ step' = step + 1

(* client->wait() sees the answer. *)
Answered ==
  /\ at = "wait" /\ Request \in done
  /\ GoOn
  /\ UNCHANGED <<conf, cursor, stage, node, reduceVoxorIds, mapVoxorIds, late, workers, network>>

(* Mutation: wait without a timeout. *)
NeverTimedOut == FALSE /\ UNCHANGED vars

(* Five seconds are over: the driver goes on all the same, and closes the  *)
(* connection.  The request may be handled later or be lost.               *)
TimedOut ==
  /\ at = "wait"
  /\ GoOn
  /\ late' = "yes"
  /\ \/ Cardinality(sent) <= MaxLate /\ UNCHANGED sent
     \/ sent' = sent \ {Request}
  /\ UNCHANGED <<conf, cursor, stage, node, reduceVoxorIds, mapVoxorIds, workers, parsed, done>>

(* The connection breaks before the node has the request. *)
Lose(r) ==
  /\ r \in sent
  /\ sent' = sent \ {r}
  /\ UNCHANGED <<conf, driver, workers, parsed, done>>
-----------------------------------------------------------------------------
(* The nodes.  Each request has a handler thread of its own. *)

Handled(r) == r \in sent /\ sent' = sent \ {r} /\ done' = done \cup {r} /\ UNCHANGED parsed

(* ReduceDCO::start: the static input, and an empty file with a header.    *)
ReduceStart(r) ==
  /\ r.stage = "reduce" /\ Handled(r)
  /\ reduceInput' = [reduceInput EXCEPT ![r.node] = r.i]
  /\ reducers' = [reducers EXCEPT ![r.node] = reducers[r.node] \cup {r.i}]
  /\ UNCHANGED <<conf, driver, maps, kafkaIndex, kafkaMappers, consumers>>

(* Mutation: the answer is given before the handler has done its work. *)
MapStartEmpty(r) ==
  /\ r.stage = "map" /\ Handled(r)
  /\ UNCHANGED <<conf, driver, workers>>

(* MapDCO::start and MapSchedule::add. *)
MapStart(r) ==
  /\ r.stage = "map" /\ Handled(r)
  /\ maps' = [maps EXCEPT ![r.node] = maps[r.node] \cup {[key |-> r.i, reducers |-> r.reducers]}]
  /\ UNCHANGED <<conf, driver, reduceInput, reducers, kafkaIndex, kafkaMappers, consumers>>

(* KafkaDCO::start: fromJson assigns the index of the static input, but    *)
(* appends the mappers to those it has.                                    *)
KafkaParse(r) ==
  /\ r.stage = "kafka" /\ r \in sent
  /\ sent' = sent \ {r} /\ parsed' = parsed \cup {r}
  /\ kafkaIndex' = [kafkaIndex EXCEPT ![r.node] = r.i]
  /\ kafkaMappers' = [kafkaMappers EXCEPT ![r.node] = kafkaMappers[r.node] \cup r.mappers]
  /\ UNCHANGED <<conf, driver, done, reduceInput, reducers, maps, consumers>>

(* The consumer copies the mappers the input has by now (ToMap::create_dco)*)
(* and keeps a pointer to it.                                              *)
KafkaCreate(r) ==
  /\ r \in parsed
  /\ parsed' = parsed \ {r} /\ done' = done \cup {r}
  /\ consumers' = [consumers EXCEPT ![r.node] = consumers[r.node] \cup
       {[asked |-> r.i, mappers |-> kafkaMappers[r.node], started |-> -1]}]
  /\ UNCHANGED <<conf, driver, sent, reduceInput, reducers, maps, kafkaIndex, kafkaMappers>>

(* KafkaJobConsumer::doStart, in the consumer's thread, takes the index    *)
(* from the input; and again for every message it asks for.                *)
KafkaThread(n, c) ==
  /\ c \in consumers[n] /\ c.started = -1
  /\ consumers' = [consumers EXCEPT
       ![n] = (consumers[n] \ {c}) \cup 
              {[asked |-> c.asked, mappers |-> c.mappers, started |-> kafkaIndex[n]]}]
  /\ UNCHANGED <<conf, driver, network, reduceInput, reducers, maps, kafkaIndex, kafkaMappers>>
-----------------------------------------------------------------------------
Init ==
  /\ conf \in [workers : 1..MaxWorkers, splitNums1 : 0..MaxMappers, splitNums2 : 1..MaxReducers,
                partitions : 1..MaxPartitions]
  /\ cursor = 0 /\ stage = "start" /\ step = 0 /\ at = "next" /\ node = 0
  /\ reduceVoxorIds = <<>> /\ mapVoxorIds = <<>> /\ late = "no"
  /\ sent = {} /\ parsed = {} /\ done = {}
  /\ reduceInput = [n \in Workers |-> -1] /\ reducers = [n \in Workers |-> {}]
  /\ maps = [n \in Workers |-> {}]
  /\ kafkaIndex = [n \in Workers |-> -1] /\ kafkaMappers = [n \in Workers |-> {}]
  /\ consumers = [n \in Workers |-> {}]

DriverStep == Start \/ NextNode \/ EndStage \/ Invoke \/ CreateFails \/ Answered \/ TimedOut

Next ==
  \/ DriverStep
  \/ \E r \in sent : Lose(r) \/ ReduceStart(r) \/ MapStart(r) \/ KafkaParse(r)
  \/ \E r \in parsed : KafkaCreate(r)
  \/ \E n \in Workers : \E c \in consumers[n] : KafkaThread(n, c)

Spec == Init /\ [][Next]_vars

(* The driver's thread runs; a wait and a connect end by themselves. *)
FairSpec == Spec /\ WF_vars(DriverStep)
-----------------------------------------------------------------------------
Voxors == Workers \X Nat

TypeOK ==
  /\ conf \in [workers : Workers, splitNums1 : Nat, splitNums2 : Nat, partitions : Nat \ {0}]
  /\ cursor \in 0..conf.workers
  /\ node \in 0..conf.workers
  /\ stage \in {"start", "reduce", "map", "kafka", "finished", "failed"}
  /\ step \in Nat /\ at \in {"next", "create", "wait"} /\ late \in {"no", "yes"}
  /\ reduceVoxorIds \in Seq(Workers) /\ mapVoxorIds \in Seq(Workers)
  /\ \A r \in sent \cup parsed \cup done :
       /\ r.node \in Workers /\ r.i \in Nat
       /\ r.mappers \subseteq Voxors /\ r.reducers \in Seq(Workers)
  /\ reduceInput \in [Workers -> Int] /\ reducers \in [Workers -> SUBSET Nat]
  /\ kafkaIndex \in [Workers -> Int] /\ kafkaMappers \in [Workers -> SUBSET Voxors]
  /\ consumers \in [Workers -> SUBSET [asked : Nat, mappers : SUBSET Voxors, started : Int]]
  /\ maps \in [Workers -> SUBSET [key : Nat, reducers : Seq(Workers)]]

(* With no more partitions than nodes each consumer has its partition to   *)
(* itself: it reads the partition it was asked for and feeds the mappers   *)
(* of that partition only, however late any request is handled.  The same  *)
(* for the reducers: the node writes to the file of the one it runs.       *)
(* With more, the node's last request decides for all of them.             *)
OwnPartition ==
  /\ conf.partitions <= conf.workers => \A n \in Workers : \A c \in consumers[n] :
       /\ c.mappers = Share(c.asked)
       /\ c.started \in {-1, c.asked}
       /\ kafkaIndex[n] = c.asked
  /\ conf.splitNums2 <= conf.workers => \A n \in Workers : \A i \in reducers[n] : reduceInput[n] = i

(* A consumer never has an empty list, by which ToMap would divide, and    *)
(* when all have started each mapper is fed by one partition.              *)
EachMapperFedOnce ==
  /\ \A n \in Workers : \A c \in consumers[n] : c.mappers # {}
  /\ stage = "finished" /\ late = "no" /\ conf.partitions <= conf.workers =>
       \A m \in 0..conf.splitNums1 - 1 :
         Cardinality({u \in UNION {{n} \X consumers[n] : n \in Workers} :
                        \E v \in u[2].mappers : v[2] = m}) = 1

(* As long as every answer came in time, a consumer exists only when each  *)
(* of its mappers runs on the node it believes it on, and each of those    *)
(* sends to every reducer, which runs as well.                             *)
ReadyBeforeConsuming ==
  late = "no" => \A n \in Workers : \A c \in consumers[n] : \A v \in c.mappers :
    \E p \in maps[v[1]] :
      /\ p.key = v[2] /\ Len(p.reducers) = conf.splitNums2
      /\ \A k \in 1..conf.splitNums2 : k - 1 \in reducers[p.reducers[k]]

(* The driver comes to an end whatever the nodes and the network do. *)
DriverEnds == <>(stage \in {"finished", "failed"})
=============================================================================

------------------------------ MODULE Batches ------------------------------
(***************************************************************************)
(* What becomes of a message from Kafka (dsc kafka/ToMap.cpp,              *)
(* map/MapSchedule.cpp, MapDCO.cpp, Mapper.cpp, ToReduce.cpp,              *)
(* reduce/ReduceDCO.cpp, Reducer.cpp): one consumer collects a window of   *)
(* messages and deals it to its mappers; a mapper reads the device of each *)
(* line and deals the lines to the reducers by it; a reducer collects a    *)
(* window of its own and reports how many lines and devices it had.  Every *)
(* batch travels on a connection of its own, that its sender drops at      *)
(* once: batches overtake each other and can be lost.                      *)
(***************************************************************************)
EXTENDS Integers, Sequences, FiniteSets

CONSTANTS
  Dids,          (* the devices                                            *)
  NoDid,         (* a line that is no JSON or has no dId                   *)
  MapSize,       (* mappers of this consumer                               *)
  Split,         (* reducers                                               *)
  FilterCondon,  (* dsc.json: one message in so many is kept               *)
  Int32Max,      (* where the counter of the messages starts again         *)
  MaxMsgs        (* bound: messages in all                                 *)

ASSUME BatchesAssumption ==
  /\ IsFiniteSet(Dids) /\ NoDid \notin Dids
  /\ {MapSize, Split, FilterCondon, Int32Max} \subseteq Nat \ {0} /\ MaxMsgs \in Nat

VARIABLES
  hash,          (* std::hash<string> % split                              *)
  arrived,       (* messages consumed                                      *)
  counter,       (* ToMap.cpp: counter                                     *)
  mapRecords,    (* ToMap::mapRecords                                      *)
  mut,           (* ToMap::mut: "free", or "kept" for ever                 *)
  toMappers,     (* map_invoke requests on the way                         *)
  toReducers,    (* reduce_invoke requests on the way                      *)
  records,       (* Reducer::records, per reducer                          *)
  count,         (* Reducer::count                                         *)
  reported,      (* the records of the rows written, per reducer           *)
  lost,          (* history: the records thrown away                       *)
  unwritten,     (* history: records of windows closed without a row       *)
  due            (* history: the records there should be                   *)

consumer == <<arrived, counter, mapRecords, mut, due>>
reducer == <<records, count, reported, unwritten>>
batchesVars == <<hash, consumer, toMappers, toReducers, reducer, lost>>

Ids == 1..MaxMsgs
Reducers == 0..Split - 1

(* A record is its message, its device and which copy of it this is.  Past *)
(* the consumer the order of records has no effect: vectors become sets.   *)
Record(dids) == [id : Ids, did : dids, copy : {1, 2}]
Elements(recs) == {recs[k] : k \in DOMAIN recs}
Again(r) == [r EXCEPT !.copy = 2]
-----------------------------------------------------------------------------
(* range: so many records for each mapper.                                 *)
PerMapper(recs) == Len(recs) \div MapSize

(* Where index stands after the deal.                                      *)
LastDealt(recs) == PerMapper(recs) * MapSize

(* Mutation: the tail begins two behind the last record dealt. *)
TailFromNext(recs) ==
  IF PerMapper(recs) = 0 THEN {} ELSE {recs[k] : k \in LastDealt(recs) + 2..Len(recs)}

(* What is left after range records for each mapper.  index stands on the  *)
(* last record dealt, and the loop starts there; with no record dealt      *)
(* index is -1, and, compared as unsigned, past the end.                   *)
TailOf(recs) ==
  IF PerMapper(recs) = 0 THEN {}
  ELSE {IF k = LastDealt(recs) THEN Again(recs[k]) ELSE recs[k] : k \in LastDealt(recs)..Len(recs)}

(* The batch of mapper i; the last one has the tail too. *)
Batch(recs, i) ==
  {recs[k] : k \in {k \in DOMAIN recs : PerMapper(recs) > 0 /\ (k - 1) \div PerMapper(recs) = i}}
  \cup (IF i = MapSize - 1 THEN TailOf(recs) ELSE {})

(* A batch is told from others by its first record. *)
MapInvokeData(recs, i) ==
  [key |-> i, first |-> recs[i * PerMapper(recs) + 1].id, recs |-> Batch(recs, i)]

(* toMaps: an empty batch is not sent.  When a mapper's node cannot be     *)
(* reached the exception leaves accept with mut locked and the rest unsent.*)
ToMaps(recs) ==
  \E upTo \in 0..MapSize :
    /\ upTo < MapSize => Batch(recs, upTo) # {}
    /\ toMappers' = toMappers \cup
         {MapInvokeData(recs, i) : i \in {i \in 0..upTo - 1 : Batch(recs, i) # {}}}
    /\ mut' = IF upTo = MapSize THEN "free" ELSE "kept"
    /\ mapRecords' = IF upTo = MapSize THEN <<>> ELSE recs
    /\ IF PerMapper(recs) = 0
       THEN lost' = lost \cup Elements(recs) /\ due' = due \cup Elements(recs)
       ELSE /\ lost' = lost \cup UNION {Batch(recs, i) : i \in upTo..MapSize - 1}
            /\ due' = due \cup Elements(recs) \cup {Again(recs[LastDealt(recs)])}

(* Mutation: counter > INT32_MAX. *)
CountedPast == IF counter + 1 > Int32Max THEN 0 ELSE counter + 1

(* push counts every message. *)
Counted == IF counter + 1 >= Int32Max THEN 0 ELSE counter + 1

(* What push leaves in mapRecords: one in filterCondon messages is kept.   *)
Pushed(did) ==
  IF Counted % FilterCondon = 0
  THEN Append(mapRecords, [id |-> arrived + 1, did |-> did, copy |-> 1]) ELSE mapRecords

(* ToMap::accept; ends: the clock shows another window than the current one*)
Accept(did, ends) ==
  /\ mut = "free" /\ arrived < MaxMsgs
  /\ arrived' = arrived + 1
  /\ counter' = Counted
  /\ IF ends THEN ToMaps(Pushed(did))
     ELSE /\ mapRecords' = Pushed(did) /\ due' = due \cup Elements(Pushed(did))
          /\ UNCHANGED <<mut, toMappers, lost>>
  /\ UNCHANGED <<hash, toReducers, reducer>>
-----------------------------------------------------------------------------
(* Mapper::map and ToReduce::send: the lines that name a device, by hash.  *)
Words(b, i) == {r \in b.recs : r.did # NoDid /\ hash[r.did] = i}

(* Every reducer gets a batch, if only an empty one.  An exception, after  *)
(* so many of them, leaves the rest unsent.                                *)
MapDCO(b) ==
  \E upTo \in 0..Split :
    /\ toMappers' = toMappers \ {b}
    /\ toReducers' = toReducers \cup
         {[to |-> i, first |-> b.first, recs |-> Words(b, i)] : i \in 0..upTo - 1}
    /\ lost' = lost \cup {r \in b.recs : r.did = NoDid \/ hash[r.did] >= upTo}
    /\ UNCHANGED <<hash, consumer, reducer>>

(* Mutation: only a window with a row is cleared. *)
ReducerAcceptKeeps(b, ends, opens) ==
  LET window == records[b.to] \cup b.recs
      row == ends /\ b.recs # {} /\ opens
  IN /\ toReducers' = toReducers \ {b}
     /\ count' = [count EXCEPT ![b.to] = count[b.to] + Cardinality(b.recs)]
     /\ records' = [records EXCEPT ![b.to] = IF row THEN {} ELSE window]
     /\ reported' = [reported EXCEPT ![b.to] = IF row THEN reported[b.to] \cup window ELSE reported[b.to]]
     /\ unwritten' = [unwritten EXCEPT
          ![b.to] = unwritten[b.to] + IF ends /\ ~row THEN Cardinality(window) ELSE 0]
     /\ UNCHANGED <<hash, consumer, toMappers, lost>>

(* Reducer::accept, in its mutex: the batch belongs to the window it ends. *)
(* A window ended by an empty batch has no row, and is cleared all the     *)
(* same; so is one whose row could not be written, the file not opening.   *)
ReducerAccept(b, ends, opens) ==
  LET window == records[b.to] \cup b.recs
      row == ends /\ b.recs # {} /\ opens
      dropped == IF ends /\ ~row THEN window ELSE {}
  IN /\ toReducers' = toReducers \ {b}
     /\ count' = [count EXCEPT ![b.to] = count[b.to] + Cardinality(b.recs)]
     /\ records' = [records EXCEPT ![b.to] = IF ends THEN {} ELSE window]
     /\ reported' = [reported EXCEPT ![b.to] = IF row THEN reported[b.to] \cup window ELSE reported[b.to]]
     /\ unwritten' = [unwritten EXCEPT ![b.to] = unwritten[b.to] + Cardinality(dropped)]
     /\ lost' = lost \cup dropped
     /\ UNCHANGED <<hash, consumer, toMappers>>
-----------------------------------------------------------------------------
(* The client is destroyed after invoke, with what it has not yet sent; or *)
(* the mapper is unknown to MapSchedule.                                   *)
LoseToMapper(b) ==
  /\ toMappers' = toMappers \ {b}
  /\ lost' = lost \cup b.recs
  /\ UNCHANGED <<hash, consumer, toReducers, reducer>>

LoseToReducer(b) ==
  /\ toReducers' = toReducers \ {b}
  /\ lost' = lost \cup b.recs
  /\ UNCHANGED <<hash, consumer, toMappers, reducer>>

BatchesInit ==
  /\ hash \in [Dids -> Reducers]
  /\ arrived = 0 /\ counter = 0 /\ mapRecords = <<>> /\ mut = "free" /\ due = {}
  /\ toMappers = {} /\ toReducers = {} /\ lost = {}
  /\ records = [i \in Reducers |-> {}] /\ reported = [i \in Reducers |-> {}]
  /\ count = [i \in Reducers |-> 0] /\ unwritten = [i \in Reducers |-> 0]

BatchesNext ==
  \/ \E did \in Dids \cup {NoDid}, ends \in BOOLEAN : Accept(did, ends)
  \/ \E b \in toMappers : MapDCO(b) \/ LoseToMapper(b)
  \/ \E b \in toReducers : LoseToReducer(b) \/ \E ends, opens \in BOOLEAN : ReducerAccept(b, ends, opens)

BatchesSpec == BatchesInit /\ [][BatchesNext]_batchesVars
-----------------------------------------------------------------------------
BatchesTypeOK ==
  /\ hash \in [Dids -> Reducers]
  /\ arrived \in 0..MaxMsgs /\ counter \in 0..Int32Max - 1
  /\ mapRecords \in Seq(Record(Dids \cup {NoDid})) /\ mut \in {"free", "kept"}
  /\ \A b \in toMappers :
       /\ b.key \in 0..MapSize - 1 /\ b.first \in Ids
       /\ b.recs \subseteq Record(Dids \cup {NoDid}) /\ b.recs # {}
  /\ \A b \in toReducers : b.to \in Reducers /\ b.first \in Ids /\ b.recs \subseteq Record(Dids)
  /\ records \in [Reducers -> SUBSET Record(Dids)] /\ reported \in [Reducers -> SUBSET Record(Dids)]
  /\ count \in [Reducers -> Nat] /\ unwritten \in [Reducers -> Nat]
  /\ lost \subseteq Record(Dids \cup {NoDid}) /\ due \subseteq Record(Dids \cup {NoDid})

(* Where records are.  Once mut is kept what mapRecords holds is never     *)
(* looked at again.                                                        *)
Waiting == IF mut = "free" THEN Elements(mapRecords) ELSE {}
Mapping == UNION {b.recs : b \in toMappers}
Reducing == UNION {b.recs : b \in toReducers}
Windows == UNION {records[i] : i \in Reducers}
Rows == UNION {reported[i] : i \in Reducers}

(* Every message that passed the filter is in exactly one place, the       *)
(* window's, a batch's, a reducer's or the report's, or has been thrown    *)
(* away there; but the last message dealt of each window is in two, for    *)
(* the tail begins with it.                                                *)
EachRecordOnce ==
  /\ due = Waiting \cup Mapping \cup Reducing \cup Windows \cup Rows \cup lost
  /\ Waiting \cap (Mapping \cup Reducing \cup Windows \cup Rows \cup lost) = {}
  /\ Mapping \cap (Reducing \cup Windows \cup Rows \cup lost) = {}
  /\ Reducing \cap (Windows \cup Rows \cup lost) = {}
  /\ Windows \cap (Rows \cup lost) = {} /\ Rows \cap lost = {}
  /\ \A b, c \in toMappers : b # c => b.recs \cap c.recs = {}
  /\ \A b, c \in toReducers : b # c => b.recs \cap c.recs = {}
  /\ \A i, j \in Reducers : i # j =>
       records[i] \cap records[j] = {} /\ reported[i] \cap reported[j] = {}

(* What the reducer says it has had in all is what its rows add up to, and *)
(* its open window, and the windows closed without a row; and no row has a *)
(* device of another reducer's.                                            *)
RowsAddUp ==
  \A i \in Reducers :
    /\ count[i] = Cardinality(reported[i]) + Cardinality(records[i]) + unwritten[i]
    /\ \A j \in Reducers \ {i} : \A r \in reported[i] : \A s \in reported[j] : r.did # s.did
=============================================================================

SPECIFICATION FairSpec
CONSTANTS
  MaxWorkers = 3
  MaxReducers = 2
  MaxMappers = 3
  MaxPartitions = 3
  MaxLate = 1
INVARIANTS TypeOK OwnPartition EachMapperFedOnce ReadyBeforeConsuming
PROPERTY DriverEnds
CHECK_DEADLOCK FALSE

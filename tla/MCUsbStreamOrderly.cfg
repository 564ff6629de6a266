\* Jobs that run to their flush or to the writer's failure, with fairness.
SPECIFICATION FairSpec
CONSTANTS
  Capacity = 3
  Chunk = 2
  MaxPush = 3
  Word = 8
  MaxDoc = 5
  MaxJobs = 2
INVARIANTS
  NoDataRace
  InOrder
  CompletedIsDelivered
PROPERTIES
  IsPrintQueue
  PushReturns
  FlushReturns
\* The run ends when the bounded number of jobs is done and the writer sleeps.
CHECK_DEADLOCK FALSE

\* sendDirect() pushes a block again after part of it was queued.
SPECIFICATION TimeoutSpec
CONSTANTS
  Capacity = 2
  Chunk = 1
  MaxPush = 2
  Word = 5
  MaxDoc = 3
  MaxJobs = 1
INVARIANT
  InOrder
\* The run ends when the bounded number of jobs is done and the writer sleeps.
CHECK_DEADLOCK FALSE

\* Everything the two tasks can do, jobs given up halfway included.
SPECIFICATION Spec
CONSTANTS
  Capacity = 2
  Chunk = 1
  MaxPush = 2
  Word = 5
  MaxDoc = 3
  MaxJobs = 2
INVARIANTS
  TypeOK
  NoLostWakeup
\* The run ends when the bounded number of jobs is done and the writer sleeps.
CHECK_DEADLOCK FALSE

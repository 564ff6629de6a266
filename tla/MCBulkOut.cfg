\* The pipeline with a printer that fails, hangs and comes and goes.
SPECIFICATION FairSpec
CONSTANTS
  Depth = 2
  MaxRetries = 1
  MaxChunks = 2
INVARIANTS
  TypeOK
  SubmittedOnce
  DrainedBus
  OneOnWire
PROPERTIES
  WedgeHeals
\* A failed assertion restarts the system, which is not modelled.
CHECK_DEADLOCK FALSE

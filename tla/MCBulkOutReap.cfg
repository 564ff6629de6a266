\* The previous transfer is waited for before the next one is submitted.
SPECIFICATION Spec
CONSTANTS
  Depth = 2
  MaxRetries = 1
  MaxChunks = 2
INVARIANT ReapsAfterSubmit
\* A failed assertion restarts the system, which is not modelled.
CHECK_DEADLOCK FALSE

\* A transfer called back as failed before anyone waits for it goes unnoticed.
SPECIFICATION Spec
CONSTANTS
  Depth = 2
  MaxRetries = 1
  MaxChunks = 2
INVARIANT AcceptedIsTransmitted
\* A failed assertion restarts the system, which is not modelled.
CHECK_DEADLOCK FALSE

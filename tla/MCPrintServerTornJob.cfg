\* A job aborted by its flush is followed by an idle printer.
SPECIFICATION Spec
CONSTANTS
  Printers = {"unusable", "usable"}
  Ops = {"Print-Job"}
  MaxConns = 1
  MaxChunks = 1
  MaxRequests = 1
  MaxBlocks = 2
INVARIANT CompletedIsPrinted

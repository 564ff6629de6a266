\* Send-Document does not ask who has the USB stream.
SPECIFICATION Spec
CONSTANTS
  Printers = {"usable"}
  Ops = {"Create-Job", "Send-Document"}
  MaxConns = 1
  MaxChunks = 2
  MaxRequests = 2
  MaxBlocks = 1
INVARIANT OneSender

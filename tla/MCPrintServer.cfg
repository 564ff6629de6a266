SPECIFICATION FairSpec
CONSTANTS
  Printers = {"usable"}
  Ops = {"Print-Job", "Create-Job", "Send-Document", "Cancel-Job", "Close-Job"}
  MaxConns = 1
  MaxChunks = 1
  MaxRequests = 2
  MaxBlocks = 1
INVARIANTS TypeOK PendingAwaits PrintJobAlone TailDrained
PROPERTIES TerminalStable CountedOnce JobEnds JobResolves ConnectionEnds

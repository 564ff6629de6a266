\* A request body, or a RAW connection, from clients that stop anywhere.
SPECIFICATION FairSpec
CONSTANTS
  Requests <- MCRequests
  HeadSize = 2
  Capacity = 2
  MaxLine = 4
  Inputs <- MCInputs
  RingSize = 5
  RxChunk = 4
  UsbChunk = 3
INVARIANTS
  TypeOK
  DeliveredIsPayload
  AcceptedIsWhole
  RefusedHasACause
  AnsweredIsRead
  EndsWithEoj
  BytesInOrder
PROPERTIES
  RequestEnds
\* A request that has ended is the last one.
CHECK_DEADLOCK FALSE

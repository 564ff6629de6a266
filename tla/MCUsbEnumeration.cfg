\* A printer that is plugged, exchanged, reset and re-enumerated.
SPECIFICATION FairSpec
CONSTANTS
  MaxInterfaces = 2
  Histories <- MCHistories
  Addresses = {1, 2}
  Rescans = 2
  MaxFailures = 1
  MaxResets = 1
  MaxErrors = 1
INVARIANTS
  TypeOK
  PublishedIsOpen
  StatusIsOfThePrinter
  StatusOneAtATime
  PrintsOnTheBest
PROPERTIES
  PrinterFound
\* Without a USB host, or without a client, nothing more happens.
CHECK_DEADLOCK FALSE

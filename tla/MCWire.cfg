SPECIFICATION WireSpec
CONSTANTS
  Byte = 4
  Messages <- MCMessages
  MaxMessages = 2
  SeqModulus = 3
  MaxReports = 4
  MaxInFlight = 2
  MaxPrinted = 3
  NetworkFaults = {"lose", "duplicate", "reorder", "short", "restart"}
INVARIANTS
  RoundTrip
  Canonical
  FramesExact
  GapsExact
PROPERTY
  ReturnsAfterDisconnect

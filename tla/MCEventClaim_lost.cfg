SPECIFICATION Spec
CONSTANTS
  Messages = {m1}
  LambdaTimeout = 1
  VisibilityTimeout = 2
  ProcessingTimeout = 3
  MaxReceives = 2
  StaleReads = FALSE
  ClientRepeats = FALSE
  MaxFaults = 1
  MaxClock = 6
SYMMETRY Symmetry
INVARIANT FailedMessagesAreRetried

SPECIFICATION Spec
CONSTANTS
  Messages = {m1, m2}
  LambdaTimeout = 1
  VisibilityTimeout = 2
  ProcessingTimeout = 3
  MaxReceives = 2
  StaleReads = FALSE
  ClientRepeats = TRUE
  MaxFaults = 2
  MaxClock = 6
SYMMETRY Symmetry
INVARIANT Exclusive
INVARIANT SuccessesArePaidFor
INVARIANT LossLeavesATrace
PROPERTY ProcessedIsFinal

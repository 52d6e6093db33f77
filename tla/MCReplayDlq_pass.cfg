SPECIFICATION ReplaySpec
CONSTANTS
  Calls = {c1, c2}
  Runs = {r1, r2}
  NoRun = NoRun
  MaxReceives = 1
  MaxMessages = 2
  MaxFaults = 1
SYMMETRY Symmetry
INVARIANTS
  PublishedOnce
  AcceptedIsPublished
  AcceptedIsKept
  RecordsAreTrue
  ReplaysAreBounded
PROPERTY
  ImplementsDelivery

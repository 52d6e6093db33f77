SPECIFICATION Spec
CONSTANTS
  Messages = {m1, m2, u1}
  Updates = {u1}
  MaxVersion = 2
  MaxReceives = 2
  MaxFaults = 1
SYMMETRY Symmetry
INVARIANTS
  PendingHasAHandler
PROPERTIES
  NeverGoesBack
  CompletedIsKept

SPECIFICATION CountingSpec
CONSTANTS
  Calls = {c1,c2,c3,c4}
  Events = {e1,e2}
  Window = 2
  CallTimeout = 1
  StaleReads = FALSE
  MaxFaults = 1
  MaxClock = 5
  SeverityHints = {2}
  RulesItems <- MCRulesItems
SYMMETRY Symmetry
INVARIANT TypeOK
INVARIANT OneFirstPerWindow
INVARIANT SomebodyIsFirst
INVARIANT NeverOvercounts
INVARIANT ExactUnlessOverlapped
INVARIANT SuppressedForAReason
INVARIANT SeverityIsEarned
PROPERTY WindowsDoNotOverlap

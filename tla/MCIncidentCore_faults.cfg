SPECIFICATION Spec
CONSTANTS
  IncidentIds = {i1, i2, i3}
  EventIds = {e1, e2}
  Requests = {r1, r2}
  NoId = NoId
  MaxSeverity = 1
  EventSeverity = {1}
  Suppression = {FALSE, TRUE}
  Actions = {"ack", "resolve"}
  StaleReads = FALSE
  MaxFaults = 1
  MaxReceives = 2
  AiEnabled = FALSE
  AiReanalyze = TRUE
SYMMETRY Symmetry
INVARIANT CopiesAreTrue
INVARIANT NeverCollides
INVARIANT AnnouncementsFormAHistory
INVARIANT EveryListedEventIsCounted
PROPERTY ImplementsLifecycle

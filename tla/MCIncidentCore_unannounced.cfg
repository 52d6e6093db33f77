SPECIFICATION Spec
CONSTANTS
  IncidentIds = {i1, i2, i3}
  EventIds = {e1}
  Requests = {r1, r2}
  NoId = NoId
  MaxSeverity = 1
  EventSeverity = {1}
  Suppression = {FALSE}
  Actions = {"ack", "resolve"}
  StaleReads = FALSE
  MaxFaults = 1
  MaxReceives = 1
  AiEnabled = FALSE
  AiReanalyze = FALSE
SYMMETRY Symmetry
INVARIANT EveryStatusChangeIsAnnounced

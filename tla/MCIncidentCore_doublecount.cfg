SPECIFICATION Spec
CONSTANTS
  IncidentIds = {i1, i2, i3}
  EventIds = {e1, e2}
  Requests = {r1}
  NoId = NoId
  MaxSeverity = 1
  EventSeverity = {1}
  Suppression = {FALSE}
  Actions = {"resolve"}
  StaleReads = FALSE
  MaxFaults = 0
  MaxReceives = 2
  AiEnabled = FALSE
  AiReanalyze = FALSE
SYMMETRY Symmetry
INVARIANT NoEventCountedTwice

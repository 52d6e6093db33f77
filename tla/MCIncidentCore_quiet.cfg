SPECIFICATION FairSpec
CONSTANTS
  IncidentIds = {i1, i2, i3}
  EventIds = {e1, e2}
  Requests = {r1}
  NoId = NoId
  MaxSeverity = 2
  EventSeverity = {1, 2}
  Suppression = {FALSE}
  Actions = {"ack", "resolve"}
  StaleReads = TRUE
  MaxFaults = 0
  MaxReceives = 2
  AiEnabled = TRUE
  AiReanalyze = TRUE
INVARIANT TypeOK
INVARIANT AnnouncementsFormAHistory
INVARIANT ResolvedPointerIsGoing
INVARIANT OpeningAndResolutionAnnounced
PROPERTY ImplementsLifecycle
PROPERTY EveryEventSettles
PROPERTY EveryRequestIsAnswered
ACTION_CONSTRAINT OpenedInOrder

SPECIFICATION Spec
CONSTANTS
  Incidents = {i1, i2}
  t1 = t1
  t2 = t2
  Tenants = {t1, t2}
  TenantOf <- OneTenant
  i1 = i1
  i2 = i2
  Before <- OneOfTheOther
  Times <- OlderAndNewer
  Statuses = {"OPEN"}
  PageSize = 1
  None = None
  MaxCalls = 3
  MaxShown = 2
INVARIANT DetailIsTheSelected
INVARIANT TimelineIsInOrder
INVARIANT FlagsWillBeCleared

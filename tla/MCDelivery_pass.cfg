SPECIFICATION FairSpec
CONSTANTS
  Items = {1, 2, 3}
  Poison = {1}
  Publishers = {p1, p2}
  Limit = 2
  MaxFaults = 1
  t1 = t1
  t2 = t2
  t3 = t3
  TopicArns = {t1, t2, t3}
  Direct <- MCDirect
  Fallback <- MCFallback
  Default <- MCDefault
  Broken = {t3}
  MaxReceives = 2
INVARIANTS
  NothingForgotten
  DuplicatesArePaidFor
  ToldBeforeDeleted
PROPERTY
  EveryoneIsTold

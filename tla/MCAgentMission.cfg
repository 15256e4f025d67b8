SPECIFICATION FairSpec
CONSTANTS
  MaxAgents = 3
  Dispatch = {d1, d2}
  Mission = {m1, m2}
  Null = Null
CHECK_DEADLOCK FALSE
INVARIANTS
  StatesMatchResults
  CoordinatorSeesEveryWorker
PROPERTY MissionReturns

SPECIFICATION FairSpec
CONSTANTS
  s1 = s1
  s2 = s2
  f1 = f1
  None = None
  Stores <- MCStores
  Route <- MCRoute
  Foreign <- MCForeign
  MaxCalls = 6
  HastyCalls = 6
  MaxOthers = 1
  HastyOthers = 0
INVARIANTS
  TypeOK
  PageOfSelectedStore
  PanelTruthful
  QueueTruthful
PROPERTIES
  AgentStops
CHECK_DEADLOCK FALSE

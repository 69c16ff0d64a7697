SPECIFICATION FairSpec
CONSTANTS
  c9 = c9
  c6 = c6
  paste1 = paste1
  paste2 = paste2
  wrapper = wrapper
  Modules <- MCModules
  Evals <- MCEvals
  ModuleOf <- MCModuleOf
  Offline <- MCOffline
  Needs <- MCNeeds
INVARIANTS
  ReferenceRestored
  ScoreIsolated
PROPERTY
  EvalEnds
CHECK_DEADLOCK FALSE

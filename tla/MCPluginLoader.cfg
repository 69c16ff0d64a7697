SPECIFICATION Spec
CONSTANTS
  bundled = bundled
  added = added
  Plugins <- MCPlugins
  Slow <- MCSlow
  Requests = {r1, r2}
  MaxLoads = 2
INVARIANTS
  InStep
  Teardown
  NoneSkipped
PROPERTIES
  ComesDown
CHECK_DEADLOCK FALSE

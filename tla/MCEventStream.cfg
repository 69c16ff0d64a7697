SPECIFICATION StreamSpec
CONSTANTS
  Parsers <- MCParsers
  Bodies <- MCBodies
  Cap = 5
  MaxParts = 5
INVARIANTS
  ExactlyOnce
  EndsAsSent
CHECK_DEADLOCK FALSE

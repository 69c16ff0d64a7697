SPECIFICATION Spec
CONSTANTS
  routes = routes
  adapter = adapter
  key = key
  config = config
  v1 = v1
  v2 = v2
  Services <- MCServices
  Names <- MCNames
  Values <- MCValues
  MaxLines = 4
SYMMETRY Symmetry
INVARIANTS
  LogTruthful
  CacheFresh
PROPERTY
  AnswersMoveForward

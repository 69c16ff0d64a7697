SPECIFICATION FairSpec
CONSTANTS
  socket = socket
  post = post
  s1 = s1
  Calls <- MCCalls
  SocketTurns <- MCSocketTurns
  Sessions <- MCSessions
  SessionOf <- MCSessionOf
  MaxAttempts = 2
  MaxParts = 2
INVARIANTS
  TranscriptReadable
  OutcomeMatchesLog
  DeltasInOrder
  AttemptsSpent
PROPERTIES
  TurnAnswered

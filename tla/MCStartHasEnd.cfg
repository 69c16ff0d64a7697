SPECIFICATION Spec
CONSTANTS
  u = u
  t1 = t1
  read = read
  bash = bash
  Words <- MCWords
  Agents <- MCAgents
  Tools <- MCTools
  Lists <- MCLists
  Signed <- MCSigned
  Turns <- MCTurns
  AgentOf <- MCAgentOf
  Sockets = {s1}
  MaxSteps = 3
  MaxCalls = 2
  Burst = 1
INVARIANT
  StartHasEnd

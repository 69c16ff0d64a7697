--------------------------- MODULE MCTurnStepDriver ---------------------------
(* One turn of one agent and two tools.  Nothing is signed for this agent, *)
(* but for one whose id is its id with a tool's name behind a separator;   *)
(* that signature verifies for it too, with the tool listed twice, and the *)
(* tool is what it may run.                                                *)
EXTENDS TurnStepDriver, TLC

CONSTANTS u, t1, read, bash

MCWords == {u, read, bash}
MCAgents == {<<u>>, <<u, read>>}
MCTools == {read, bash}
MCLists == {<<bash>>, <<read>>, <<read, read>>}
MCSigned == {[agent |-> <<u, read>>, capabilities |-> <<read>>]}
MCTurns == {t1}
MCAgentOf == t1 :> <<u>>
=============================================================================

---------------------------- MODULE MCEventStream ----------------------------
(* Answers of up to MaxParts parts of every kind, whole or without their   *)
(* last newline.                                                           *)
EXTENDS EventStream, SequencesExt

CONSTANT MaxParts

MCParsers == {"adapter", "openai", "anthropic"}

ok == <<"data", "ok", "n">>

MCParts ==
  [adapter   |-> {<<"n">>, ok, <<"data", "done", "n">>, <<"text", "n">>},
   openai    |-> {<<"n">>, ok, <<"data", "done", "n">>, <<"data", "bad", "n">>},
   anthropic |-> {<<"n">>, <<"delta", "n">> \o ok, <<"stop", "n">> \o ok, ok}]

MCWhole ==
  [p \in MCParsers |->
     {FlattenSeq(parts) : parts \in UNION {[1..n -> MCParts[p]] : n \in 1..MaxParts}}]

MCBodies == [p \in MCParsers |-> MCWhole[p] \union {Front(whole) : whole \in MCWhole[p]}]
=============================================================================

------------------------------ MODULE MCChatTab ------------------------------
(* The chat tab with two sessions, and a budget for each of the scenarios  *)
(* that make it hard; a behaviour picks one of them.                       *)
EXTENDS ChatTab

CONSTANTS s1, s2, m1, openai, f1, f2

NoOps == [op \in Operations |-> 0]

(* Found are new sessions, by their title, and the answer of turn 1.       *)
MCMentions == [q \in Queries |-> {<<"user", 0>>, <<"assistant", 1>>}]

MCBudgets ==
    {[NoOps EXCEPT !["select"] = 2, !["send"] = 1, !["tool"] = 1],
     [NoOps EXCEPT !["select"] = 1, !["send"] = 2],
     [NoOps EXCEPT !["select"] = 1, !["send"] = 1, !["fail"] = 1],
     [NoOps EXCEPT !["select"] = 2, !["send"] = 1, !["type"] = 1, !["toggle"] = 2],
     [NoOps EXCEPT !["select"] = 1, !["send"] = 1, !["drop"] = 1],
     [NoOps EXCEPT !["create"] = 1, !["pin"] = 1, !["type"] = 1, !["toggle"] = 1],
     [NoOps EXCEPT !["select"] = 1, !["delete"] = 1, !["archive"] = 1, !["fail"] = 1],
     [NoOps EXCEPT !["select"] = 1, !["model"] = 1, !["send"] = 1],
     [NoOps EXCEPT !["select"] = 2, !["config"] = 2, !["edit"] = 1, !["save"] = 1],
     [NoOps EXCEPT !["select"] = 2, !["archive"] = 1, !["config"] = 1, !["edit"] = 1, !["save"] = 2],
     [NoOps EXCEPT !["select"] = 1, !["keys"] = 2, !["key"] = 3, !["fail"] = 1]}

(* Sessions, configurations and secrets vary where a behaviour creates or *)
(* changes them.                                                           *)
MCInit ==
    /\ Init
    /\ left["create"] = 0 => status = [id \in Sessions |-> "listed"]
    /\ left["config"] = 0 => stored_config = [id \in Sessions |-> Defaults]
    /\ left["config"] > 0 => \A id \in Sessions : stored_config[id][f2] = 0
    /\ left["save"] = 2 => stored_config = [id \in Sessions |-> Defaults]
    /\ left["key"] = 0 => secrets = {}

MCSpec == MCInit /\ [][Next]_vars
=============================================================================

------------------------------ MODULE MCWebPage ------------------------------
(* The web client with two plugins, and a budget for each of the scenarios *)
(* that make it hard; a behaviour picks one of them.                       *)
EXTENDS WebPage

CONSTANTS browser, other, x1, k1, k2

NoOps == [op \in Operations |-> 0]

MCBudgets ==
    {[NoOps EXCEPT !["command"] = 2, !["change"] = 1],
     [NoOps EXCEPT !["command"] = 2, !["fail"] = 1],
     [NoOps EXCEPT !["command"] = 1, !["score"] = 2],
     [NoOps EXCEPT !["tab"] = 2, !["command"] = 2],
     [NoOps EXCEPT !["tab"] = 1, !["prompt"] = 2, !["change"] = 1, !["fail"] = 1],
     [NoOps EXCEPT !["tab"] = 3, !["command"] = 1, !["prompt"] = 1],
     [NoOps EXCEPT !["event"] = 4, !["tab"] = 2, !["close"] = 1]}

(* The socket is there where a behaviour is about events.                  *)
MCInit ==
    /\ Init
    /\ (wsState = "no-token") = (left["event"] = 0)

MCSpec == MCInit /\ [][Next]_vars /\ Fairness
=============================================================================

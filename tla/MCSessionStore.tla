---------------------------- MODULE MCSessionStore ----------------------------
(* Two sessions and a cap of two messages; one session goes well past it.  *)
EXTENDS SessionStore, TLC

CONSTANTS s1, s2

MCSessions == {s1, s2}
MCMaxHistory == s1 :> 4 @@ s2 :> 0
=============================================================================

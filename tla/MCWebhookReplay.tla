--------------------------- MODULE MCWebhookReplay ---------------------------
(* Three nonces for a store of two, so that one is always forgotten.       *)
EXTENDS WebhookReplay, TLC

CONSTANTS n1, n2, n3

MCNonces == {n1, n2, n3}

Symmetry == Permutations(MCNonces)
=============================================================================

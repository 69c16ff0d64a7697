----------------------------- MODULE ChatTypes -----------------------------
(* What the chat panel and its dialogs share: the ids of sessions, and     *)
(* null.                                                                   *)
CONSTANTS Sessions, None

ASSUME ChatTypesAssumption == None \notin Sessions
=============================================================================

----------------------------- MODULE MCEvalSandbox -----------------------------
(* Two pasted submissions for C6 and the wrapper at C9, which C6's tests   *)
(* import.                                                                 *)
EXTENDS EvalSandbox, TLC

CONSTANTS c9, c6, paste1, paste2, wrapper

MCModules == {c9, c6}
MCEvals == {paste1, paste2, wrapper}
MCModuleOf == paste1 :> c6 @@ paste2 :> c6 @@ wrapper :> c9
MCOffline == {wrapper}
MCNeeds == c9 :> {c9} @@ c6 :> {c9, c6}
=============================================================================

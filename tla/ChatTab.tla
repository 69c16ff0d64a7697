------------------------------ MODULE ChatTab ------------------------------
(* The chat tab: the chat panel with the dialogs it mounts.  No style      *)
(* sheet lets them cover the page, so that the user goes on using it while *)
(* they are open.                                                          *)
EXTENDS ChatPanel, ModelConfigMenu, SettingsModal

vars == <<chatVars, menuVars, keyVars>>
spent == <<view, net, sockets, server, history>>

TypeOK == ChatTypeOK /\ MenuTypeOK /\ KeyTypeOK

ShownId(session) == IF session = None THEN None ELSE session.id

Init == ChatInit /\ MenuInit /\ SettingsInit

-----------------------------------------------------------------------------
(* What happens in the chat panel may give the configuration menu another  *)
(* session.                                                                *)
ChatMoves ==
    /\ ChatNext
    /\ MenuFollows(ShownId(active), ShownId(active'))
    /\ UNCHANGED keyVars

ConfigDialog ==
    /\ Clickable /\ active # None
    /\ \/ Spend("config") /\ (OpenConfig(active.id) \/ CloseConfig)
       \/ \E f \in Fields, v \in Values : Spend("edit") /\ EditConfig(f, v)
       \/ Spend("save") /\ SaveConfig(active.id)
    /\ UNCHANGED <<spent, keyVars>>

(* The button is in the header of the session that is shown; the dialog    *)
(* stays.                                                                  *)
SettingsDialog ==
    /\ Clickable
    /\ \/ active # None /\ Spend("keys") /\ OpenSettings
       \/ Spend("keys") /\ CloseSettings
       \/ \E p \in Providers : Spend("key") /\ (TypeKey(p) \/ SaveKey(p) \/ DeleteKey(p))
    /\ UNCHANGED <<spent, menuVars>>

(* What the dialogs and the server do when the user does nothing.          *)
ConfigMoves ==
    /\ \/ ConfigServerAnswers /\ UNCHANGED left
       \/ page = "up" /\ MenuTakesAnswer /\ UNCHANGED left
       \/ ConfigFetchFails /\ Spend("fail")
    /\ UNCHANGED <<spent, keyVars>>

SettingsMoves ==
    /\ \/ KeyServerAnswers /\ UNCHANGED left
       \/ page = "up" /\ (ModelsArrive \/ KeyTakesAnswer) /\ UNCHANGED left
       \/ KeyFetchFails /\ Spend("fail")
    /\ UNCHANGED <<spent, menuVars>>

Next == ChatMoves \/ ConfigDialog \/ SettingsDialog \/ ConfigMoves \/ SettingsMoves

Spec == Init /\ [][Next]_vars
=============================================================================

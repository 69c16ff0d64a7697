-------------------------- MODULE ModelConfigMenu --------------------------
(* The dialog for a session's model configuration, <ModelConfigMenu/>, and *)
(* the /api/sessions/{id}/config routes of C1 behind it.  The chat panel   *)
(* mounts it with the id of the session that is shown, keeps it mounted    *)
(* when another session is shown, and unmounts it when none is.            *)
EXTENDS ChatTypes, Naturals, Bags

CONSTANTS Fields,         \* of a configuration
          Values          \* of a field; 0 is its default

ASSUME ModelConfigAssumption == Values \subseteq Nat /\ 0 \in Values

VARIABLES configOpen,     \* the chat panel's flag, which outlives the dialog
          config,         \* what the dialog shows
          saving, failed, \* its button is disabled; it shows an error
          mount,          \* how often it was unmounted
          menuNet,        \* its requests and their answers: a bag
          stored_config,  \* server: the configuration of each session
          edited,         \* history: the fields changed since they were loaded
          loaded,         \* history: are the others what the session has?
          resaved         \* history: sessions with two saves under way at once

forms == <<edited, loaded>>
menuVars ==
    <<configOpen, config, saving, failed, mount, menuNet, stored_config, forms, resaved>>

Configs == [Fields -> Values]
Defaults == [f \in Fields |-> 0]
GetConfig(id) == [op |-> "get", id |-> id, stage |-> "sent", body |-> Defaults]
PostConfig(id) ==
    [op |-> "post", id |-> id, stage |-> "sent", body |-> config, mount |-> mount,
     edited |-> edited, loaded |-> loaded]

ConfigRequests ==
    [op : {"get"}, id : Sessions, stage : {"sent", "answered"}, body : Configs] \cup
    [op : {"post"}, id : Sessions, stage : {"sent", "answered"}, body : Configs,
     mount : 0..mount, edited : SUBSET Fields, loaded : BOOLEAN]

MenuTypeOK ==
    /\ {configOpen, saving, failed, loaded} \subseteq BOOLEAN
    /\ config \in Configs
    /\ mount \in Nat
    /\ BagToSet(menuNet) \subseteq ConfigRequests
    /\ stored_config \in [Sessions -> Configs]
    /\ edited \subseteq Fields
    /\ resaved \subseteq Sessions

MenuInit ==
    /\ configOpen = FALSE
    /\ config = Defaults
    /\ saving = FALSE /\ failed = FALSE
    /\ mount = 0
    /\ menuNet = EmptyBag
    /\ stored_config \in [Sessions -> Configs]
    /\ edited = {} /\ loaded = FALSE /\ resaved = {}

(* Cleaning up after the effect cancels its fetch: nobody takes the answer *)
(* any more.                                                               *)
Posts == {r \in BagToSet(menuNet) : r.op = "post"}
Uncancelled == [r \in Posts |-> menuNet[r]]

SavesOf(id) == {r \in Posts : r.stage = "sent" /\ r.id = id}

(* Faulty variant: fetches of other sessions are not cancelled.            *)
LoadConfigToo(id) ==
    /\ failed' = FALSE
    /\ menuNet' = menuNet (+) SetToBag({GetConfig(id)})
    /\ edited' = {} /\ loaded' = FALSE
    /\ UNCHANGED <<config, saving, mount, stored_config, resaved>>

(* The effect of the open dialog, for the session it has then.             *)
LoadConfig(id) ==
    /\ failed' = FALSE
    /\ menuNet' = Uncancelled (+) SetToBag({GetConfig(id)})
    /\ edited' = {} /\ loaded' = FALSE
    /\ UNCHANGED <<config, saving, mount, stored_config, resaved>>

OpenConfig(id) ==
    /\ ~configOpen /\ id # None
    /\ configOpen' = TRUE
    /\ LoadConfig(id)

CloseConfig ==
    /\ configOpen
    /\ configOpen' = FALSE
    /\ menuNet' = Uncancelled
    /\ UNCHANGED <<config, saving, failed, mount, stored_config, forms, resaved>>

Unmount ==
    /\ config' = Defaults
    /\ saving' = FALSE /\ failed' = FALSE
    /\ mount' = mount + 1
    /\ menuNet' = Uncancelled
    /\ edited' = {} /\ loaded' = FALSE
    /\ UNCHANGED <<configOpen, stored_config, resaved>>

(* The chat panel shows the session new after old.                         *)
MenuFollows(old, new) ==
    \/ new = None /\ old # None /\ Unmount
    \/ new \notin {old, None} /\ configOpen /\ LoadConfig(new) /\ UNCHANGED configOpen
    \/ (new = old \/ (new # None /\ ~configOpen)) /\ UNCHANGED menuVars

(* Neither editing nor saving waits for the load.                          *)
EditConfig(f, v) ==
    /\ configOpen /\ v # config[f]
    /\ config' = [config EXCEPT ![f] = v]
    /\ edited' = edited \cup {f}
    /\ UNCHANGED <<configOpen, saving, failed, mount, menuNet, stored_config, loaded, resaved>>

SaveConfig(id) ==
    /\ configOpen /\ ~saving
    /\ saving' = TRUE /\ failed' = FALSE
    /\ menuNet' = menuNet (+) SetToBag({PostConfig(id)})
    /\ resaved' = resaved \cup (IF SavesOf(id) = {} THEN {} ELSE {id})
    /\ UNCHANGED <<configOpen, config, mount, stored_config, forms>>

-----------------------------------------------------------------------------
MenuWithout(r) == menuNet (-) SetToBag({r})
MenuReply(r, answer) == menuNet' = MenuWithout(r) (+) SetToBag({answer})

AnswerGetConfig(r) ==
    /\ r.op = "get"
    /\ MenuReply(r, [r EXCEPT !.stage = "answered", !.body = stored_config[r.id]])
    /\ UNCHANGED stored_config

AnswerPostConfig(r) ==
    /\ r.op = "post"
    /\ MenuReply(r, [r EXCEPT !.stage = "answered"])
    /\ stored_config' = [stored_config EXCEPT ![r.id] = r.body]

ConfigServerAnswers ==
    \E r \in BagToSet(menuNet) :
        /\ r.stage = "sent"
        /\ AnswerGetConfig(r) \/ AnswerPostConfig(r)
        /\ UNCHANGED <<configOpen, config, saving, failed, mount, forms, resaved>>

(* What the user edited meanwhile is overwritten.                          *)
TakeConfig(r) ==
    /\ r.op = "get"
    /\ config' = r.body
    /\ menuNet' = MenuWithout(r)
    /\ edited' = {}
    /\ loaded' = (r.body = stored_config[r.id] /\ SavesOf(r.id) = {})
    /\ UNCHANGED <<configOpen, saving>>

(* onClose() closes the dialog, also one that was opened since.            *)
TakeConfigSaved(r) ==
    /\ r.op = "post"
    /\ configOpen' = FALSE
    /\ saving' = (saving /\ r.mount # mount)
    /\ menuNet' = Uncancelled (-) SetToBag({r})
    /\ UNCHANGED <<config, forms>>

MenuTakesAnswer ==
    \E r \in BagToSet(menuNet) :
        /\ r.stage = "answered"
        /\ TakeConfig(r) \/ TakeConfigSaved(r)
        /\ UNCHANGED <<failed, mount, stored_config, resaved>>

ConfigFetchFails ==
    \E r \in BagToSet(menuNet) :
        LET heeded == r.op = "get" \/ r.mount = mount
        IN  /\ failed' = (failed \/ heeded)
            /\ saving' = (saving /\ (r.op = "get" \/ ~heeded))
            /\ menuNet' = MenuWithout(r)
            /\ UNCHANGED <<configOpen, config, mount, stored_config, forms, resaved>>

-----------------------------------------------------------------------------
(* A save touches what the user edited and nothing else: no answer for     *)
(* another session, and no late one, gets into the form that is then       *)
(* saved.  Excused is a form saved before it was loaded, or loaded while a *)
(* save of the session was still under way, and a session with two saves   *)
(* under way at once, which only a dialog that was unmounted in between    *)
(* can send.                                                               *)
ConfigKept ==
    [][\A id \in Sessions, f \in Fields :
         stored_config'[id][f] # stored_config[id][f] /\ id \notin resaved =>
           \E r \in SavesOf(id) : f \in r.edited \/ ~r.loaded]_menuVars
=============================================================================

------------------------------ MODULE WebPage ------------------------------
(* The web client: <App/> with the Modules, Events and Prompts tabs, one   *)
(* of which is mounted at a time, and the C1 they share.  The Chat tab is  *)
(* the subject of ChatTab; here it is a tab where nothing happens.         *)
EXTENDS AppShell, ModulesPanel, PromptsPanel

CONSTANTS Browser,        \* the plugin that serves the prompts
          Budgets         \* bounds: how often a behaviour does each operation

Operations == {"tab", "command", "score", "prompt", "fail", "change", "event", "close"}

ASSUME WebPageAssumption ==
    /\ Browser \in Plugins
    /\ Budgets \subseteq [Operations -> Nat]

VARIABLES page,           \* "down" once rendering has thrown
          left            \* what is left of the budget

vars == <<appVars, modulesVars, promptsVars, page, left>>

Spend(op) == /\ left[op] > 0
             /\ left' = [left EXCEPT ![op] = @ - 1]

Browsing == Browser \in loaded

Up == page = "up" /\ UNCHANGED page

Init == AppInit /\ ModulesInit /\ PromptsInit /\ page = "up" /\ left \in Budgets

-----------------------------------------------------------------------------
(* A click on a tab unmounts the panel that was shown and mounts another.  *)
ShowTab(t) ==
    /\ Up
    /\ t # tab
    /\ Spend("tab")
    /\ SetTab(t)
    /\ CASE tab = "modules" -> LeaveModules
         [] t = "modules" -> EnterModules
         [] OTHER -> UNCHANGED modulesVars
    /\ CASE tab = "prompts" -> LeavePrompts
         [] t = "prompts" -> EnterPrompts
         [] OTHER -> UNCHANGED promptsVars

Connection ==
    /\ Up
    /\ \/ WsOpens /\ UNCHANGED left
       \/ WsMessage /\ UNCHANGED left
       \/ ServerSends /\ Spend("event")
       \/ \E code \in CloseCodes : WsCloses(code) /\ Spend("close")
    /\ UNCHANGED <<modulesVars, promptsVars>>

UsesModules ==
    /\ Up
    /\ tab = "modules"
    /\ \/ \E p \in Plugins : Spend("command") /\ (LoadPlugin(p) \/ UnloadPlugin(p))
       \/ \E x \in Pastes : Spend("score") /\ PasteScore(x)
    /\ UNCHANGED <<appVars, promptsVars>>

Polls == Up /\ tab = "modules" /\ PollTick /\ UNCHANGED <<appVars, promptsVars, left>>

(* C1 goes on when the page is down.                                       *)
Answers == ModulesServerAnswers /\ UNCHANGED <<appVars, promptsVars, page, left>>

(* Another client, or the command line, loads or unloads a plugin.         *)
OthersChange(p) ==
    /\ Spend("change")
    /\ loaded' = IF p \in loaded THEN loaded \ {p} ELSE loaded \cup {p}
    /\ UNCHANGED <<appVars, promptsVars, healthz, busy, evalResult, panel, modNet, page>>

ModulesTakes == Up /\ ModulesTakeAnswer /\ UNCHANGED <<appVars, promptsVars, left>>

ModulesFails == Up /\ ModulesFetchFails /\ Spend("fail") /\ UNCHANGED <<appVars, promptsVars>>

(* There is no error boundary: <App/> goes with its panels, until the user *)
(* loads the page again, which is another behaviour.                       *)
GoesDown ==
    /\ page = "up" /\ page' = "down"
    /\ ModulesShowRefusal
    /\ Unmounts
    /\ UNCHANGED <<promptsVars, left>>

UsesPrompts ==
    /\ Up
    /\ \/ \E key \in Keys : OpenPrompt(key) /\ Spend("prompt")
       \/ PromptsServerAnswers(Browsing) /\ UNCHANGED left
       \/ PromptsTakeAnswer /\ UNCHANGED left
       \/ PromptsFetchFails /\ Spend("fail")
    /\ UNCHANGED <<appVars, modulesVars>>

Next ==
    \/ \E t \in Tabs : ShowTab(t)
    \/ Connection
    \/ UsesModules \/ Polls \/ Answers \/ ModulesTakes \/ ModulesFails \/ GoesDown
    \/ \E p \in Plugins : OthersChange(p)
    \/ UsesPrompts

(* The timer of a mounted panel goes off again and again, C1 answers, and  *)
(* the page takes answers.                                                 *)
Fairness ==
    /\ WF_vars(Polls)
    /\ WF_vars(Answers)
    /\ WF_vars(ModulesTakes)

Spec == Init /\ [][Next]_vars /\ Fairness

-----------------------------------------------------------------------------
(* Once the plugins no longer change the Modules tab comes to show those   *)
(* that are loaded, and goes on doing so: older answers that overtook      *)
(* newer ones, failed fetches and other clients are made up for by a poll. *)
(* A page that a refused score has taken down shows nothing.               *)
PluginsCatchUp == <>[](page = "up" /\ tab = "modules" => healthz = loaded)
=============================================================================

---------------------------- MODULE ModulesPanel ----------------------------
(* The Modules tab, <ModulesPanel/> with its cards, and the part of C1 it  *)
(* polls and commands: /healthz, /plugins/{id} and /api/eval.  An answer   *)
(* that comes when the panel was unmounted, or mounted again, finds nobody *)
(* to take it, but what it answers was done.                               *)
EXTENDS Naturals, Bags

CONSTANTS Plugins,        \* the plugins C1 discovered
          Pastes,         \* codes that are pasted and scored
          Nothing,        \* null
          MaxPolls        \* bound: polls under way at a time

ASSUME ModulesPanelAssumption ==
    /\ Nothing \notin Plugins \cup Pastes /\ "paste" \notin Plugins
    /\ MaxPolls \in Nat \ {0}

VARIABLES healthz,        \* the plugins shown as loaded, or Nothing yet
          busy,           \* the plugin a button waits for, or "paste"
          evalResult,     \* the paste whose score is shown
          panel,          \* which mounted panel this is
          modNet,         \* its requests and their answers: a bag
          loaded          \* server: the plugins that are loaded

modulesVars == <<healthz, busy, evalResult, panel, modNet, loaded>>

ModRequest(op, arg) ==
    [op |-> op, arg |-> arg, panel |-> panel, stage |-> "sent", got |-> {}]
Poll == ModRequest("poll", Nothing)
Refetch(r) == ModRequest("refetch", r.arg)
ModWithout(r) == modNet (-) SetToBag({r})
ModSend(r) == modNet' = modNet (+) SetToBag({r})
ModInstead(r, next) == modNet' = ModWithout(r) (+) SetToBag({next})

ModulesTypeOK ==
    /\ healthz = Nothing \/ healthz \subseteq Plugins
    /\ busy \in Plugins \cup {"paste", Nothing}
    /\ evalResult \in Pastes \cup {Nothing}
    /\ \A r \in BagToSet(modNet) : r.panel \in 1..panel /\ r.got \subseteq Plugins
    /\ loaded \subseteq Plugins

Unmounted ==
    /\ healthz' = Nothing /\ busy' = Nothing
    /\ evalResult' = Nothing

ModulesInit ==
    /\ healthz = Nothing /\ busy = Nothing
    /\ evalResult = Nothing
    /\ panel = 1
    /\ modNet = SetToBag({Poll})
    /\ loaded \in SUBSET Plugins

(* Mounting polls at once; leaving stops the timer and forgets all but     *)
(* what the server still has to do.                                        *)
EnterModules ==
    /\ ModSend(Poll)
    /\ UNCHANGED <<healthz, busy, evalResult, panel, loaded>>

LeaveModules ==
    /\ Unmounted
    /\ panel' = panel + 1
    /\ LET pending == {r \in BagToSet(modNet) : r.op \in {"load", "unload"} /\ r.stage = "sent"}
       IN  modNet' = [r \in pending |-> modNet[r]]
    /\ UNCHANGED loaded

-----------------------------------------------------------------------------
(* Faulty variant: the panel asks once, when it is mounted.                *)
PollNever == FALSE /\ UNCHANGED modulesVars

(* The interval of two seconds does not wait for the poll before.          *)
PollTick ==
    /\ BagCardinality([r \in {q \in BagToSet(modNet) : q.op = "poll"} |-> modNet[r]]) < MaxPolls
    /\ ModSend(Poll)
    /\ UNCHANGED <<healthz, busy, evalResult, panel, loaded>>

(* The button of a card sets busy, whatever it was before, and a button is *)
(* disabled only while busy is its own.                                    *)
Command(op, p) ==
    /\ busy # p
    /\ busy' = p
    /\ ModSend(ModRequest(op, p))
    /\ UNCHANGED <<healthz, evalResult, panel, loaded>>

LoadPlugin(p) == healthz # Nothing /\ p \notin healthz /\ Command("load", p)
UnloadPlugin(p) == healthz # Nothing /\ p \in healthz /\ Command("unload", p)

PasteScore(x) ==
    /\ busy # "paste"
    /\ busy' = "paste"
    /\ ModSend(ModRequest("score", x))
    /\ UNCHANGED <<healthz, evalResult, panel, loaded>>

-----------------------------------------------------------------------------
(* C1 answers with what is loaded; it loads or unloads, or refuses.        *)
Executed(r) ==
    CASE r.op = "load" -> loaded \cup {r.arg}
      [] r.op = "unload" -> loaded \ {r.arg}
      [] OTHER -> loaded

(* A harness without a repo_root refuses to score: the answer is JSON, but *)
(* an error and no scorecard.                                              *)
Answer(r) == {"answered"} \cup (IF r.op = "score" THEN {"refused"} ELSE {})

ModulesServerAnswers ==
    \E r \in BagToSet(modNet) :
        /\ r.stage = "sent"
        /\ loaded' \in {loaded, Executed(r)}
        /\ IF r.panel = panel
           THEN \E stage \in Answer(r) :
                    ModInstead(r, [r EXCEPT !.stage = stage,
                                     !.got = IF r.op \in {"poll", "refetch"} THEN loaded ELSE {}])
           ELSE modNet' = ModWithout(r)
        /\ UNCHANGED <<healthz, busy, evalResult, panel>>

TakeHealthz(r) ==
    /\ r.op \in {"poll", "refetch"}
    /\ healthz' = r.got
    /\ busy' = IF r.op = "refetch" THEN Nothing ELSE busy
    /\ modNet' = ModWithout(r)
    /\ UNCHANGED evalResult

TakeCommanded(r) ==
    /\ r.op \in {"load", "unload"}
    /\ ModInstead(r, Refetch(r))
    /\ UNCHANGED <<healthz, busy, evalResult>>

TakeScore(r) ==
    /\ r.op = "score"
    /\ evalResult' = r.arg
    /\ busy' = Nothing
    /\ modNet' = ModWithout(r)
    /\ UNCHANGED healthz

ModulesTakeAnswer ==
    \E r \in BagToSet(modNet) :
        /\ r.stage = "answered"
        /\ TakeHealthz(r) \/ TakeCommanded(r) \/ TakeScore(r)
        /\ UNCHANGED <<panel, loaded>>

(* The handler does not look at the status and shows the error as it would *)
(* a scorecard: rendering it throws, nothing catches that, and the whole   *)
(* page is unmounted, this panel with it.                                  *)
ModulesShowRefusal ==
    /\ \E r \in BagToSet(modNet) : r.stage = "refused"
    /\ LeaveModules

(* Faulty variant: a handler that fails leaves its button waiting.         *)
FreedNever(r) == busy

(* A poll that fails is ignored; a handler that fails still resets busy.   *)
Freed(r) == IF r.op = "poll" THEN busy ELSE Nothing

ModulesFetchFails ==
    \E r \in BagToSet(modNet) :
        /\ r.panel = panel
        /\ busy' = Freed(r)
        /\ modNet' = ModWithout(r)
        /\ UNCHANGED <<healthz, evalResult, panel, loaded>>

-----------------------------------------------------------------------------
(* A button that says "..." waits for something: whatever a plugin or the  *)
(* paste is busy with is still under way for this panel, since each way    *)
(* out of a handler resets busy.  The types are part of it.                *)
BusyIsWork ==
    /\ ModulesTypeOK
    /\ busy # Nothing =>
          \E r \in BagToSet(modNet) :
              /\ r.panel = panel
              /\ IF busy = "paste" THEN r.op = "score"
                 ELSE r.op \in {"load", "unload", "refetch"} /\ r.arg = busy
=============================================================================

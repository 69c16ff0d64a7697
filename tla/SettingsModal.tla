--------------------------- MODULE SettingsModal ---------------------------
(* The dialog for the API keys of the providers, <SettingsModal/>, and the *)
(* secrets it lists, saves and deletes at C1.  A provider has several      *)
(* models and so may several names; Settings saves and deletes the name of *)
(* the first model, and takes any of them for a saved key.                 *)
EXTENDS Naturals, Bags

CONSTANTS Providers

VARIABLES settingsOpen,   \* the chat tab's isOpen flag
          models,         \* has it the list of models, and so of providers?
          rows,           \* the dialog's row of each provider that has one
          keyNet,         \* its requests and their answers: a bag
          secrets,        \* server: the names that have a value
          crossed         \* history: requests overlapped or an answer was lost

keyVars == <<settingsOpen, models, rows, keyNet, secrets, crossed>>

Names == Providers \X {"first", "other"}
Row(saved, state, draft) == [saved |-> saved, state |-> state, draft |-> draft]
EmptyRow == Row(FALSE, "empty", "")
RowOf(p) == IF p \in DOMAIN rows THEN rows[p] ELSE EmptyRow
SetRow(p, row) == rows' = [q \in DOMAIN rows \cup {p} |-> IF q = p THEN row ELSE rows[q]]

KeyRequest(op, p, row) == [op |-> op, provider |-> p, row |-> row, stage |-> "sent", names |-> {}]
Discover == KeyRequest("list", "all", EmptyRow)
Changes == {r \in BagToSet(keyNet) : r.op # "list"}
ChangesOnly == [r \in Changes |-> keyNet[r]]

Rows == [saved : BOOLEAN, state : {"empty", "saving", "saved", "error"}, draft : {"", "key"}]

KeyTypeOK ==
    /\ {settingsOpen, models, crossed} \subseteq BOOLEAN
    /\ DOMAIN rows \subseteq Providers /\ \A p \in DOMAIN rows : rows[p] \in Rows
    /\ BagToSet(keyNet) \subseteq
          [op : {"list", "save", "delete"}, provider : Providers \cup {"all"}, row : Rows,
           stage : {"sent", "ok", "error"}, names : SUBSET Names]
    /\ secrets \subseteq Names

SettingsInit ==
    /\ settingsOpen = FALSE
    /\ models = FALSE
    /\ rows = [p \in {} |-> EmptyRow]
    /\ keyNet = EmptyBag
    /\ secrets \in SUBSET Names
    /\ crossed = FALSE

(* The effect that finds out which keys are saved, when the dialog opens   *)
(* and when the providers become known.                                    *)
RunDiscovery == keyNet' = ChangesOnly (+) SetToBag({Discover})

OpenSettings ==
    /\ ~settingsOpen
    /\ settingsOpen' = TRUE
    /\ RunDiscovery
    /\ crossed' = (ChangesOnly # EmptyBag)
    /\ UNCHANGED <<models, rows, secrets>>

CloseSettings ==
    /\ settingsOpen
    /\ settingsOpen' = FALSE
    /\ keyNet' = ChangesOnly
    /\ UNCHANGED <<models, rows, secrets, crossed>>

ModelsArrive ==
    /\ ~models
    /\ models' = TRUE
    /\ IF settingsOpen THEN RunDiscovery ELSE UNCHANGED keyNet
    /\ UNCHANGED <<settingsOpen, rows, secrets, crossed>>

TypeKey(p) ==
    /\ settingsOpen /\ models /\ RowOf(p).draft = ""
    /\ SetRow(p, [RowOf(p) EXCEPT !.draft = "key"])
    /\ UNCHANGED <<settingsOpen, models, keyNet, secrets, crossed>>

(* Ask for a change; the row as it was goes with it.                       *)
Change(op, p) ==
    /\ keyNet' = keyNet (+) SetToBag({KeyRequest(op, p, RowOf(p))})
    /\ crossed' = (crossed \/ keyNet # EmptyBag)
    /\ UNCHANGED <<settingsOpen, models, secrets>>

SaveKey(p) ==
    /\ settingsOpen /\ models /\ RowOf(p).state # "saving" /\ RowOf(p).draft # ""
    /\ SetRow(p, [RowOf(p) EXCEPT !.state = "saving"])
    /\ Change("save", p)

(* Offered for a saved key, also while another is being saved over it.     *)
DeleteKey(p) ==
    /\ settingsOpen /\ models /\ RowOf(p).saved
    /\ Change("delete", p)
    /\ UNCHANGED rows

-----------------------------------------------------------------------------
Answered(r, stage, names) ==
    keyNet' = (keyNet (-) SetToBag({r})) (+)
              SetToBag({[r EXCEPT !.stage = stage, !.names = names]})

(* A save may be refused; C1 has no POST route and refuses each of them.   *)
KeyServerAnswers ==
    \E r \in BagToSet(keyNet) :
        /\ r.stage = "sent"
        /\ \/ /\ r.op = "list"
              /\ Answered(r, "ok", secrets)
              /\ UNCHANGED secrets
           \/ /\ r.op = "save"
              /\ \/ Answered(r, "ok", {}) /\ secrets' = secrets \cup {<<r.provider, "first">>}
                 \/ Answered(r, "error", {}) /\ UNCHANGED secrets
           \/ /\ r.op = "delete"
              /\ IF <<r.provider, "first">> \in secrets
                 THEN Answered(r, "ok", {}) /\ secrets' = secrets \ {<<r.provider, "first">>}
                 ELSE Answered(r, "error", {}) /\ UNCHANGED secrets
        /\ UNCHANGED <<settingsOpen, models, rows, crossed>>

SavedIn(names, p) == \E n \in names : n[1] = p

TakeDiscovery(r) ==
    /\ r.op = "list"
    /\ rows' = IF models
               THEN [p \in Providers |-> [RowOf(p) EXCEPT !.saved = SavedIn(r.names, p)]]
               ELSE rows

(* Faulty variant: saving sets the state of the row and not its flag.      *)
TakeKeySavedOnly(r) ==
    /\ r.op = "save"
    /\ SetRow(r.provider, IF r.stage = "ok" THEN [r.row EXCEPT !.state = "saved", !.draft = ""]
                          ELSE [r.row EXCEPT !.state = "error"])

TakeKeySaved(r) ==
    /\ r.op = "save"
    /\ SetRow(r.provider, IF r.stage = "ok" THEN Row(TRUE, "saved", "")
                          ELSE [r.row EXCEPT !.state = "error"])

TakeKeyDeleted(r) ==
    /\ r.op = "delete"
    /\ SetRow(r.provider, IF r.stage = "ok" THEN EmptyRow
                          ELSE [RowOf(r.provider) EXCEPT !.state = "error"])

KeyTakesAnswer ==
    \E r \in BagToSet(keyNet) :
        /\ r.stage # "sent"
        /\ TakeDiscovery(r) \/ TakeKeySaved(r) \/ TakeKeyDeleted(r)
        /\ keyNet' = keyNet (-) SetToBag({r})
        /\ UNCHANGED <<settingsOpen, models, secrets, crossed>>

(* A fetch that throws: taken for a refusal, or for a store without keys.  *)
KeyFetchFails ==
    \E r \in BagToSet(keyNet) :
        /\ LET lost == [r EXCEPT !.stage = "error", !.names = {}]
           IN  TakeDiscovery(lost) \/ TakeKeySaved(lost) \/ TakeKeyDeleted(lost)
        /\ keyNet' = keyNet (-) SetToBag({r})
        /\ crossed' = TRUE
        /\ UNCHANGED <<settingsOpen, models, secrets>>

-----------------------------------------------------------------------------
(* When nothing is under way, a provider whose key is stored is shown with *)
(* "Key saved", and one that is shown so has a key of some model; unless   *)
(* requests of the dialog overlapped or one of them failed.                *)
BadgeTruthful ==
    settingsOpen /\ keyNet = EmptyBag /\ ~crossed =>
        \A p \in DOMAIN rows :
            /\ <<p, "first">> \in secrets => rows[p].saved
            /\ rows[p].saved => SavedIn(secrets, p)
=============================================================================

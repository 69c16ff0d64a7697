---------------------------- MODULE PromptsPanel ----------------------------
(* The Prompts tab, <PromptsPanel/>, and the /prompts routes, which the    *)
(* plugin prompt_browser_v1 serves while it is loaded.                     *)
EXTENDS Bags

CONSTANTS Keys,           \* of the master prompts
          Closed          \* no prompt is open

ASSUME PromptsPanelAssumption == Closed \notin Keys

VARIABLES prompts,        \* the list
          open, body,     \* the prompt that is open, whose body is shown
          status,         \* the line above the list
          promptNet       \* requests and their answers: a bag

promptsVars == <<prompts, open, body, status, promptNet>>

PromptRequest(op, key) == [op |-> op, key |-> key, stage |-> "sent", found |-> FALSE]
Prompts == PromptRequest("list", Closed)

PromptsTypeOK ==
    /\ prompts \in {{}, Keys}
    /\ {open, body} \subseteq Keys \cup {Closed}
    /\ status \in {"", "note", "loading", "failed"}

PromptsInit ==
    /\ prompts = {}
    /\ open = Closed /\ body = Closed
    /\ status = ""
    /\ promptNet = EmptyBag

EnterPrompts ==
    /\ promptNet' = SetToBag({Prompts})
    /\ UNCHANGED <<prompts, open, body, status>>

LeavePrompts ==
    /\ prompts' = {}
    /\ open' = Closed /\ body' = Closed
    /\ status' = ""
    /\ promptNet' = EmptyBag

-----------------------------------------------------------------------------
(* "Close" asks for the body again and closes nothing.                     *)
OpenPrompt(key) ==
    /\ key \in prompts
    /\ status' = "loading"
    /\ promptNet' = promptNet (+) SetToBag({PromptRequest("body", key)})
    /\ UNCHANGED <<prompts, open, body>>

PromptWithout(r) == promptNet (-) SetToBag({r})

PromptsServerAnswers(browsing) ==
    \E r \in BagToSet(promptNet) :
        /\ r.stage = "sent"
        /\ promptNet' = PromptWithout(r) (+)
                        SetToBag({[r EXCEPT !.stage = "answered", !.found = browsing]})
        /\ UNCHANGED <<prompts, open, body, status>>

(* Without the plugin the list is empty and comes with a note.             *)
TakePrompts(r) ==
    /\ r.op = "list"
    /\ prompts' = IF r.found THEN Keys ELSE {}
    /\ status' = IF r.found THEN status ELSE "note"
    /\ UNCHANGED <<open, body>>

(* Faulty variant: the early return leaves the line as it is.              *)
TakeBodyQuietly(r) ==
    /\ r.op = "body"
    /\ status' = IF r.found THEN "" ELSE status
    /\ open' = IF r.found THEN r.key ELSE open
    /\ body' = IF r.found THEN r.key ELSE body
    /\ UNCHANGED prompts

TakeBody(r) ==
    /\ r.op = "body"
    /\ status' = IF r.found THEN "" ELSE "failed"
    /\ open' = IF r.found THEN r.key ELSE open
    /\ body' = IF r.found THEN r.key ELSE body
    /\ UNCHANGED prompts

PromptsTakeAnswer ==
    \E r \in BagToSet(promptNet) :
        /\ r.stage = "answered"
        /\ TakePrompts(r) \/ TakeBody(r)
        /\ promptNet' = PromptWithout(r)

PromptsFetchFails ==
    \E r \in BagToSet(promptNet) :
        /\ status' = "failed"
        /\ promptNet' = PromptWithout(r)
        /\ UNCHANGED <<prompts, open, body>>

-----------------------------------------------------------------------------
(* When nothing is under way the panel says neither "loading..." nor does  *)
(* it show the body of one prompt under the key of another, in whatever    *)
(* order the bodies came.  The types are part of it.                       *)
PromptSettles ==
    /\ PromptsTypeOK
    /\ promptNet = EmptyBag => status # "loading" /\ body = open
=============================================================================

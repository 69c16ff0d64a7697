# TLA+ models of the DHC harness

The harness runs LLM agents in one Python process: a Cordis context (an event
bus and a service table) with ten modules C1..C10 plugged into it, a chat server
with persistent sessions, live LLM providers, a handful of plugins, and an
evaluation of submitted module code. A React client in the browser shows and
commands all this. This directory models the stateful core of both,
checks the models with TLC and proves with TLAPS the safety properties of the turn
driver, the chat turns with their provider calls, the event parsers, the session
store, the secrets store, the evaluations, the webhook's nonce store, the plugins and
the web client.

Source paths below are relative to `src/dhc/` of the repository, those of the web
client to `apps/web/src/`.

## Inventory

| Component | State | Operations | Hard part | What makes it correct |
|---|---|---|---|---|
| C6 turn driver (`modules/c6_turn_step_driver`) | per call: steps, aborted, reason | `run_turn` | eleven awaits, listeners that raise or change the state, three kinds of failure, one circuit breaker | bounded steps, one `turn/end`, truthful reason, no work after an abort |
| Cordis bus (`cordis/events.py`) | listener lists | `on`, `off`, `emit`, `waterfall` | a listener that raises cuts the emission short and hits the emitter | listeners see every event, in order |
| C9 policy, C5 registry | grants, manifests | `grant`, `revoke`, `check`; `register`, `unregister` | two tables about one thing, changed while turns run | only what is signed for is ever dispatched |
| rate_limiter_v1 | token buckets | `set_rate`, `check`, `pre_execute` | the verdict has to reach the driver | a dry bucket stops the call |
| Session store (`services/session_manager.py`) | session files, index file, cache | create, get, update, append, delete, list | two writes per save, OSErrors, restarts, a cap with exceptions | nothing acknowledged is lost, deletes are final, listings complete |
| Provider clients, C7 | attempts, chunks, a buffer of unread bytes | `chat_stream`, `_consume_*_sse` | retries of half-delivered answers; a body cut into chunks anywhere | every answer from its beginning, attempts used up, every event handed on once |
| C1 chat channel | the turn under way | `/ws/chat` `chat.send`, `POST .../messages` | seconds between reading a session and writing to it | readable transcript, every turn answered, the outcome told is the outcome stored |
| C1 event sockets | registered listeners | `/ws` connect, break, disconnect | run inside other coroutines' turns | an observer does not disturb |
| C2 log, C10 sink | recorded events, heartbeat ring | listeners | the waterfall's calling convention | the log matches what happened |
| Secrets store (`cordis/secrets.py`) | append-only log, cache | put, get, delete, list | torn last line, several instances, partial cache | last write wins, deletes stick |
| Plugin loader and `Context` (`plugins/loader.py`, `cordis/`) | loaded plugins; services, listeners, disposables | load, unload; `dispose` at shutdown | two loads at once, a failing or repeated dispose, registrations during an emission or a shutdown | record, service and listener in step; nothing left behind |
| Evaluation (`eval/backup.py`, `plugins/_inproc_eval.py`, `eval/run_llm_eval.py`) | the modules' source files, a snapshot in memory | snapshot, overwrite, test, restore | evaluations overlap in executor threads and processes; the snapshot dies with the process | the original comes back, a score is about the submitted code |
| C8 webhook (`modules/c8_webhook_dispatch`) | nonces | `accept` | eviction by number, a clock that may be set | no nonce again before as many others |
| Web client: frame (`App.tsx`, `panels/EventsPanel.tsx`) | tab, socket state, the last 200 events | change tab, open, close, receive | events go on while other panels are mounted | the last events are there, once and in order |
| Web client: chat panel (`panels/ChatPanel.tsx`, `SessionList`, `SearchOverlay`, `ModelSelect`) | list, selected and shown session, streamed text, search, socket | select, create, pin, archive, delete, set model, search, send; answers and frames | answers overtake one another, handlers keep the values of the render they were made in, a socket that is closed and opened by typing | what is shown is what is stored, what is typed goes where it was meant to |
| Web client: configuration dialog (`components/ModelConfigMenu.tsx`) | form, saving, error | open, close, load, edit, save | the session under it changes or goes | a save changes what the user changed |
| Web client: keys dialog (`components/SettingsModal.tsx`) | a row per provider | open, close, find out, type, save, delete | three kinds of request set one row | "Key saved" is true |
| Web client: modules panel (`panels/ModulesPanel.tsx`, `components/ModuleCard.tsx`) | health, busy, score | poll, load, unload, score | polls overlap commands; one busy flag for all | buttons wait for something, the plugins shown catch up |
| Web client: prompts panel (`panels/PromptsPanel.tsx`) | list, open prompt, body, status | list, open | several bodies under way, early returns | the body belongs to its key, "loading..." ends |
| C3 prompts, C4 guards, model registry, scorer, other plugins, `serve_c1.py`, rendering of Markdown and payloads | little or none | | | |

Interactions: C6 emits on the bus; C2, C10 and every `/ws` socket (C1) listen to
the lifecycle events, C9 and the rate limiter to `tools/pre-execute`, and all of
the former to the `agent/pre-step` waterfall too. C5 calls C9. C1's chat handlers
call the session store directly and C7's `chat_stream`, which looks the key up
in the secrets store and runs a provider client; the generator advances only
while the handler awaits it. Evaluations share nothing but the source files: each takes its
snapshot of one, replaces it, and lets pytest import that and others. The web
client talks to C1 alone: by fetches that C1 answers one by one, by `/ws/chat`,
whose handler takes one frame after the other, and by `/ws`, on which events
arrive. Its panels share nothing but the frame's events and the server.

## Modules

| Module | Models | State and actions against the code |
|---|---|---|
| `CapabilityPolicy` | C9, C5 | `caps` is `_caps`, `manifest` is `_registered`; one action per method. A signature verifies for every manifest whose canonical form (`Canonical`), the agent id and the capabilities read back to back, is that of one in `Signed`. |
| `RateLimiter` | rate_limiter_v1 | `tokens`, in whole tokens; only "at least one" is tested by the code. |
| `TurnContract` | abstract | What a turn promises its caller: open, at most `MaxSteps` steps, one verdict that fits, close; or an exception outside the loop. |
| `TurnStepDriver` | C6, the bus, and the listeners of C1, C2, C9, C10 | `pc[t]` is the point of `run_turn` that call `t` has reached; every action is one stretch of `run_turn` between two places where another coroutine can run or an exception can arise, and `seen` counts what the bus was given. |
| `TurnStepDriver_proofs` | | Theorems about it. |
| `SessionStore` | session_manager.py | `file`, `index` and `cache` are the two kinds of file and `_cache`; `op` is the operation holding the lock. Operations begin with one action each and go through `_save` (`WriteFile`, `EnsureIndex`, `SaveReturns`) or its counterparts; `OpFails` and `Crash` strike anywhere between. |
| `SessionStore_proofs` | | Theorems about it. |
| `ProviderClient` | provider clients, C7 dispatch | `stage`, `attempt`, `part` of a `chat_stream` generator. |
| `ChatTurn` | C1 chat handlers over `ProviderClient` | `log` is the session as the store keeps it, `handler` and `text` the coroutine's place and local list. The store's operations do not suspend, so each is one step here. |
| `ChatTurn_proofs` | | Theorems about `ChatTurn` over `ProviderClient`. |
| `EvalSandbox` | evaluations | `source` is what each `service.py` holds, `stage` and `snapshot` an evaluation's place and its `ReferenceBackup`. Opening a file to write it, which empties it, and filling it are two steps. |
| `EvalSandbox_proofs` | | Theorems about it. |
| `SecretsLog` | secrets.py | `log` is the file's lines, `unfinished` whether the last has its newline, `cache` each object's `_cache`. Methods hold a lock and do not suspend: one action each, and one more for each that raises or dies in its append, with none, some, all but the end or all of its line written (`WriteFails`). |
| `SecretsLog_proofs` | | Theorems about it. |
| `EventStream` | the three SSE parsers (C7, OpenAI, Anthropic) | `body` is the answer as parts, `buffer` what was received and not yet taken; `Receive` is a chunk of any size, `TakeEvent` an event cut from the buffer, `Yield` handing on the next payload `due` of it, `EndOfBody` what a parser does with the rest. |
| `WebhookReplay` | C8 `accept`, `NonceStore` | `store` is `_store`, oldest first; one action, as a call does not suspend. |
| `PluginLoader` | loader.py, cordis/, the plugins' `apply` and `dispose`, C1's plugin routes, shutdown | `loaded` is `PluginState.loaded`, `service` and `stack` the context's tables, `listeners` the bus's list for one event. Requests for bundled plugins are one action, those for plugins that may suspend are two. |
| `Services_proofs` | | Theorems about `WebhookReplay`, `PluginLoader` and `EventStream`. |
| `AppShell` | `App.tsx` | `tab`, `wsState`, `events` are the states of `<App/>`, `socket` its `/ws` socket; an event is the number it was sent as. |
| `ChatTypes` | | The ids of sessions. |
| `ChatPanel` | the chat panel, C1's session routes and `/ws/chat` as the panel meets them | `sessions` ... `searchQuery` are the states of `<ChatPanel/>`; `net` holds what was fetched and not yet taken, `sockets` every chat socket with what is under way on it, `status`, `pinned`, `model` and `stored` are the server's sessions; a row of the list (`Summary`) has the title, the number of messages, the model and the pin, and a search (`Found`) looks into titles and messages. |
| `ModelConfigMenu` | the dialog and the config routes | `config`, `saving`, `failed` are its states, `mount` tells one mounting from the next. |
| `SettingsModal` | the dialog and the secrets routes | `rows` is its state; of the names of a provider's models one is the first, the one it saves and deletes. |
| `ChatTab` | the chat panel with both dialogs | composes the three: the panel's moves give the configuration dialog its session. |
| `ModulesPanel` | the panel, `/healthz`, the plugin routes and `/api/eval` as the panel meets them | `healthz`, `busy`, `evalResult` are its states, `loaded` the server's plugins. A score that C1 refuses with a JSON error is shown as one, which throws and takes the page down (`ModulesShowRefusal`). |
| `PromptsPanel` | the panel and the prompts routes | `prompts`, `open`, `body`, `status` are its states. |
| `WebPage` | the frame with these two panels | composes them: a tab's panel is mounted and unmounted, the prompts need their plugin; `page` is down once a panel threw (`GoesDown`). |
| `ChatTab_proofs`, `WebPage_proofs` | | Theorems about the two compositions. |

`MC*` modules give the constants their values.

Points where the translation needs a word:

- *The waterfall.* All sockets behave alike and the first one in a waterfall
  ends the turn, so the pending listeners hold at most one `socket`, after
  those of the plugins loaded at start.
- *An emission* is atomic in the model. Its listeners are C2's and C10's, which
  do not suspend, and the sockets', which come later and change no state the
  turn reads; whether one of them raises is a free choice while some registered
  transport is broken.
- *Sockets* break and are noticed later: between the two, `ws.closed` is false
  and `send_str` raises.
- *Histories* (`SessionStore`: `history`, `saved`, `acked`, `deleted`,
  `unsaved`; `TurnStepDriver`: `seen`, `ran`) are recorded for the properties.
  `seen` is also what C2 stores.
- *Signatures* (`CapabilityPolicy`): what is signed is `agent_id` and the sorted
  capabilities, joined by 0x1F, and only capabilities are refused for holding it (C5
  service.py:41-65). An agent id is therefore the sequence of words that separators cut
  it into, and a signature fits every split of the same words. `RanOnlySigned` says what
  this leaves of the promise: an agent runs what was signed for it, or what can be taken
  for its own in a manifest of an id that is a cut of its own, or the other way round
  (`Straddling`). Where no id holds a separator, it is only what was signed for the agent
  (`PlainIdsRunOnlyTheirOwn`).
- *Overlaps* (`EvalSandbox`): `disturbed` and `damaged` record which evaluations
  met another one at a module their tests import, and which modules an overlap,
  a killed process or a failed restore touched. The code promises nothing for
  these and the properties are about the others: a snapshot taken of a submission, a
  test that imports another's submission, a submission that a killed process left, all
  happen in the model and are excused. No step reads either.
- *Lines* (`SecretsLog`): a record opens to what was sealed in it, and a line
  that is cut off, or that two appends share, does not parse (the envelope's tag
  and JSON see to that). `truth`, `tried`, `behind` and `failed` are recorded
  for the properties: a call that raises or dies after its line is complete has changed what
  the log says, and nobody knows, so a name may be what was acknowledged or what was `tried`
  since.
- *Slow plugins* (`PluginLoader`): docs/plugin-authoring.md lets anybody add a
  plugin. Such a one may await something in `apply` and `dispose`, and raise; it
  is assumed to do so before it registers or removes anything. The bundled ones
  do not suspend there. `late`, `stuck` and `steady` are recorded for the
  properties. Requests that are refused change nothing and are left out.
- *Bodies* (`EventStream`): what a parser makes of one whole event is an operator
  of its own; the model is about which events are seen, in what order and how it
  ends.
- *Fetches* (web client) are three steps: sent, answered by C1 from the state it
  has then, taken by the page. Several of one kind may be under way, in a bag, and
  are answered and taken in any order; a fetch may fail before or after C1 did
  its part. C1's session, plugin and secrets operations are single steps here:
  what they do inside is the subject of `SessionStore`, `PluginLoader` and
  `SecretsLog`.
- *Rendering* (web client): what React does after an event, rendering and running
  effects, is part of the step that handles the event, but for the effect that
  copies the streamed text to `streamingRef`, which is a step of its own: frames
  may arrive between a render and its effects.
- *Handlers* (web client) keep the values of the render they were made in: the
  search text and whether a session was the selected one travel with the request
  (`query`, `arg`).
- *What the page asked for* (`ChatPanel`): `asked` is the session the page asked to show
  last, `askedText` the search text it asked a list for last. The user's last click and
  the text in the field are not always these. A turn that ends, and a model that was
  set, load *their* session, whatever is selected by then (`ChatPanel.tsx:133`, `223`): the
  screen then shows another session than the one highlighted in the list, for good. A handler
  that ends after more was typed refreshes the list with the older text. The properties
  state this as what happens: they are about the session and the text asked for last.
- *Excuses* (`ChatPanel`: `blurred`, `unseen`, `listBlurred`, `unlisted`, `residue`;
  `SettingsModal`: `crossed`; `ModelConfigMenu`: `edited`, `loaded`, `resaved`) record a
  cause for which the screen may be wrong, where it occurs:
  - `blurred`: an answer taken was not the last one to the last question (answers carry
    no number, and the page takes them as they come); the load of the session asked for
    failed; a message was typed while no socket was open or into another session that was
    shown (the bubble goes into the session on the screen, `ChatPanel.tsx:248`); a tool
    call was shown; the socket of a turn was closed.
  - `unseen`: sessions of which C1 gave a body while a message for them was on its way, or
    of which the page did not hear that a turn ended or did not get the answer it asked for.
  - `listBlurred`: a list taken was not the last one for the last text, or the fetch failed.
  - `unlisted`: sessions that changed and whose row the page does not ask for again: their
    turn ended in `chat.error`, which clears the streamed text and fetches nothing
    (`ChatPanel.tsx:134-136`), though the message is stored, counts and may give the title;
    their model was set, after which only the session is loaded (213-227); the fetch that
    would have been followed by the list failed; the end of their turn was not heard.
  - `residue`: a socket was closed with half an answer on the screen.
  - `crossed`: requests of the keys dialog overlapped or failed. `resaved`: two saves of one
    session were under way at once.

  Each is set from the cause alone and never from what the property concludes; no step
  reads one. What they let through is what the code gets wrong: overtaken answers, lost
  sockets, rows that stay stale and badges that requests crossed. `blurred`, `listBlurred`,
  `unseen` and `unlisted` end with the next answer that is up to date, `residue` with the
  end of the next turn, `crossed` with the next opening of the dialog.
- *The dialogs* are not drawn over the page: no style sheet has a rule for them,
  and so the user goes on using the page while they are open. The search overlay
  does cover it.
- *`wsState` in the chat header* (`HeaderRenders`): line 313 of `ChatPanel.tsx` reads
  a name that is not defined there. `header_renders` shows what that does; the
  other runs suppose that it resolves, as it would with `props.wsState`. The page's
  own `/ws` is taken to be open in the chat tab; otherwise the input is disabled.
- *Left out of the web client*: frames that are not JSON; leaving the Chat tab, which
  starts the panel anew (`ChatTab`), while `WebPage` has a Chat tab where nothing
  happens; development's double mounting by `<StrictMode/>`.
- *A key is saved* (`SettingsModal`) by `POST /api/secrets`, a route C1 does not have:
  in the model the server may accept, as the dialog's own test has it, or refuse.
- *Test runs* import each module at once, at some moment of the run; a run
  stopped by its timeout may not have come to it.

## Runs

| Run | Asks | Bounds, and why they are enough |
|---|---|---|
| `turn` | Does a turn keep its contract, a readable log, a true reason, within its step budget and its signed capabilities, and end? | One turn, 3 steps, up to 2 calls a reply, one socket, burst 1. Two tools, of which the agent may run one, by a signature made for another agent id with the same canonical form, and the other is never signed for. Turns share only grants, tokens and sockets, which the environment already changes at every step in every way; the theorems hold for any number of turns. Three steps meet the first, a middle and the last iteration; two calls are needed for "the rest of the reply". |
| `session_store` | Do failures, restarts, the cap and deletes leave the store in order? | Two sessions, so that one is listed or repaired while another is written; cap 2 and up to 4 messages of both kinds: over the cap by one and by two, all-system sessions, a marked message dropped in turn. |
| `chat` | Do interleaved turns, retries, departures and deletes leave a readable transcript, and is every turn answered? | One turn of each kind in one session, 2 attempts, 2 chunks: a broken first attempt with text, and gaps and mixtures would show in 2 chunks. |
| `eval` | Does the reference come back, is a score about the submitted code, does every evaluation end? | Two pastes for one module and the wrapper at a second one that the first's tests import: two that can overlap at one file, in order or nested, and one in another process that meets them through an import only. Each of the three runs once, so it may follow, precede or overlap any other. |
| `secrets` | Does the log say what was acknowledged, and how far can a cache be off? | Two services, so that one changes what the other has cached; two names, so that an append for one may spoil the other; two values; four lines: put, overwrite, delete, put again, with garbage or a line nobody acknowledged in between. |
| `events` | Is what a parser hands on, and how it ends, independent of where the body was cut? | Five parts: two events with their ends and one more, in every order with marks of the end, text that is no JSON and empty lines between; each of them cut anywhere. |
| `webhook` | How soon can a nonce be let in again? | A store of two, three nonces and five messages: one nonce is dropped and comes back; the clock may move either way between messages. |
| `plugins` | Do loads, unloads, an emission and a shutdown leave record, service and listener in step and nothing behind? | One bundled plugin and one that may suspend or raise; two instances of each, so that an old dispose function meets a newer instance; two requests, so that two loads, or an unload and a load, of one plugin overlap; an emission and the shutdown at any point. |
| `web_chat` | Does the screen say what the server has when all is quiet, and do messages, configurations and keys go where they were meant to? | Two sessions, so that one is shown while another is selected; one model; one search text that finds new sessions by their title and the answer of the first turn by its content, so that a session leaves the list when it is titled and comes back when it is answered; one provider, two fields of two values; an answer of one delta. A behaviour has one of eleven budgets, each for a scenario: selecting twice around a turn with a tool call, two turns, a failed fetch, typing in the search field during a turn, a lost socket, creating and pinning under a search, deleting and archiving, a model set during a turn, a configuration dialog that meets two sessions, one that is unmounted and mounted again during a save, and a keys dialog. All orders of answers within a scenario occur; the state space of all operations at once is out of reach (1.3 million states as it is). |
| `web_page` | Are events kept, does no button or status line wait for nothing, do the plugins shown catch up? | Two plugins, two prompts, one paste, two polls at a time, so that one overtakes another; a ring of two and four events, so that it overflows by two. Seven budgets: commands with other clients' changes, with failures, with scores, given or refused, with changes of tab; prompts with a plugin that goes and failures; prompts and plugins across tabs; events across tabs with a close. |

`eval`, `events`, `plugins`, `web_chat`, `web_page` and `header_renders` describe
something that is over in the end (each evaluation happens once, one answer is read,
the harness goes down, a user's budget is spent, a page has crashed), so deadlock is
not checked there. In the other runs the system comes to rest only where the
environment can still act, and deadlock is checked.

The other runs each check one statement of the repository's documentation which
the code does not keep; TLC's counterexample is the evidence.

| Run | The statement | What happens |
|---|---|---|
| `start_has_end` | C6: `turn/start` ... `turn/end` | a connected `/ws` client makes the waterfall raise `TypeError`; no `turn/end` |
| `header_renders` | `ModelSelect.tsx`: the chat header's widget lets the user pick a model | the header of the first session that is shown reads the free name `wsState`; the `ReferenceError` unmounts the page |

### Fairness

`TurnStepDriver!Fairness`: weak fairness of each started call's own steps. The
event loop runs every ready coroutine; a provider's stream is finite and bounded
by the client's read timeout, and tools are assumed to return (C6 sets no
timeout: a dispatcher that hangs would hang the turn). Starting a turn, sockets,
registrations and refills have none. `ChatTurn!Fairness`: weak fairness of each
turn's next step, as every wait for a chunk is bounded by the read timeout and a
frame's delivery by the transport. Nothing is assumed of clients, deletes, or
the outcome of a request.
`EvalSandbox!Fairness`: weak fairness of the steps of an evaluation that took its
snapshot. Its thread is scheduled, the wrapper's LLM call has a timeout and a
bounded number of retries (`eval/client.py:78`), and the test run is killed at
`timeout_sec`. Nothing makes an evaluation begin or a process die.
`PluginLoader!Fairness`: weak fairness of the steps of `ctx.dispose()` and of C1's
stop, which waits for its requests for a limited time. It supposes that each
dispose function returns or raises, since `ctx.dispose()` sets no timeout; it
does not suppose that a request ends.
`WebPage!Fairness`: weak fairness of the poll of the mounted Modules tab, of C1's
answers and of the page's taking them. The timer is `setInterval`, which goes off as
long as the panel is mounted and whatever becomes of a poll; C1's health route reads
a table and answers at once, and both event loops run what is ready. A page that was taken
down by a refused score polls no more, and `PluginsCatchUp` says nothing of it. Nothing is
assumed of the user, of other clients, or of a fetch's success; the budget bounds
how often fetches fail. `ChatTab` has no liveness property: nothing repeats a fetch
there, so what is lost stays lost.

## Proofs

`TurnStepDriver_proofs` proves, for every set of turns, agents, tools and
sockets, every `MaxSteps > 0`, `MaxCalls` and `Burst`:

- type correctness, and the safety invariants `StepBudget`, `EndAnnouncedOnce`,
  `LogMatchesSteps`, `ReasonTruthful` and `RanOnlySigned`;
- the action property `NoWorkAfterAbort`;
- `KeepsContract`: every behaviour of the driver on the bus, its program stages
  read as the contract's, is one of `TurnContract`.

None of the invariants is inductive: `ReasonTruthful` at the return, say, needs to know
what an aborted turn looked like at every stage before. The inductive invariant
`IInv` adds to `TypeOK`, for each turn, which combinations of stage, abort flag,
reason and event counts occur together (`TurnInv`), that the calls still to be
processed are non-empty where their head is read, and that grants and
dispatched tools stay within what was signed for (`VerifiedAllowed`: a verified manifest
has the canonical form of a signed one, and if the ids differ neither differs from the
other in a word both have). Preservation is proved
action by action over the turn that moves (`TurnTyped`, `OwnTurn`), with one lemma
that a step of one turn leaves the record of every other as it was
(`OthersUntouched`), and `InvStep` puts them together; the
invariants follow from `IInv` state by state. For the refinement, each action
maps to one contract step or a stutter of the turn that moves, using `IInv`
(`TurnViewed`, `ViewIsContractStep`).

`EvalSandbox_proofs` proves `TypeOK`, `ReferenceRestored` and `ScoreIsolated` for
any modules, any number of evaluations and any imports between modules. Neither
invariant is inductive: that the file is the reference once nobody holds it
depends on what the last holder had in its snapshot, and what a test imports on
who could have been there since the evaluation began. `IInv` adds that an
undamaged module is held by at most one evaluation, which has the reference to
write back (`FileInv`), and that what an undisturbed evaluation's tests import is
neither damaged nor held by another (`MeetInv`). A step of an evaluation changes
one file (`OtherFiles`), and a snapshot is the only step that begins an overlap.

`SecretsLog_proofs` proves `TypeOK`, `LogTruthful`, `TombstonesNeeded`,
`CacheFresh` and the action property `AnswersMoveForward` for any services, names
and values and logs of any length. `LogTruthful` speaks of what replay returns,
which is not what a step changes; `LogInv` says the same of the log's lines: the
last about a name is what was acknowledged of it, or was tried since by a call that
raised or died (`MayBe`).
`ReplayedTruth` connects the two for a log that can be read. An append, whether it
returns or not, leaves a readable log only if it wrote
its own record after a finished line (`ReadableAppends`), which settles every
case in which something was cut short before. `CacheInv` says the same of caches.

`Services_proofs` has three parts that share lemmas about numbers and sequences only.

- *Nonces*: `NonceTypeOK` and `ReplayDistance` for every capacity and any clock.
  `ReplayDistance` speaks of the whole past and a step looks only at the store;
  `Recent` says that the store holds the last nonces of the past, as many as it has
  room for, in their order, and so that a nonce it does not hold is at least a
  capacity away.
- *Plugins*: `InStep` (with the types), `Teardown` and `NoneSkipped` for any plugins,
  bundled or slow, any requests and number of loads. `InStep` says what listens, but
  not what the functions on the stack may still take away: `Disposed` takes whatever
  is bound to the plugin's name, so an old dispose function could unbind a newer
  instance. `StackOrder` says that the instances of a plugin are on the stack in the
  order they were applied in, and `Remaining` that what listens has its function on
  the stack, below the place `ctx.dispose()` has come to, unless it came late or was
  given up. When the function of an earlier load of a bundled plugin is called, that of
  the last load was called before it, and what it brought is gone (`InTune`).
  `WalkOK` says that an emission has called the first ones of a copy without
  repetitions, from which `NoneSkipped` follows.
- *Event parsers*: `ExactlyOnce` (with the types) and `EndsAsSent` for any set of bodies,
  every way to cut them into chunks and every limit of C7's buffer. Both compare a
  parser with a reader of the whole body, who finds the ends of events by the runs of
  newlines (`EventEnds`), however long. `EndsAre` says what this means place by place: an
  event ends with a newline behind one that is a newline and ends none. So the first
  two newlines in the buffer are the next end (`NextEnd`), since the buffer begins
  behind an end (`Held`). `Handed` says that what was handed on and what is due is what
  the events taken so far promise, and lies where they do; `Judged` that none of them
  but the last stops the stream, and how the parser goes on. `PromisedNext` is the
  step of the reader of the whole body that `TakeEvent` corresponds to.

`SessionStore_proofs` proves `AckedDurable`, `CacheClean`, `NoResurrection`,
`ListingComplete` and `HistoryRetained` for any sessions, any `max_messages` and
histories of any length. The first four follow from `StoreInv`: a session without a
file leaves no trace in the cache or the histories (`NoTrace`); what is acknowledged
is saved, what is not cached is saved whole (`Counted`); what the operation that
holds the lock has done so far (`OpOK`); the cache agrees with the files but for a
write that is under way or failed (`Agrees`); the index that a listing reads after
its repair is complete (`Indexed`). `HistoryRetained` relates the result of cutting
after every message to the cap applied once to all of them. It is inductive on top of
`StoreInv`; its step is `ReadingGrows`: appending one message to what the cap leaves
of a history, and truncating, gives what it leaves of the longer history. The code
pops the first message that is not of the system one by one; `Truncate` says which
ones are left in the end, `KeptOfLonger` that these are the ones the cap keeps,
`LeftIs` that they are in their order, and `MarksStay` and `MarksMove` where the
truncation mark is, when nothing is dropped and when something is. They rest on
lemmas about a finite set of numbers written in increasing order (`InOrderIs`,
`InOrderOnly`), proved with `WFMin` of `WellFoundedInduction`: what has no least
counterexample has none. That form of induction needs no operator parameter.

`ChatTurn_proofs` proves `TypeOK`, `AttemptsSpent`, `DeltasInOrder`,
`TranscriptReadable` and `OutcomeMatchesLog` for any number of turns, sessions,
attempts and chunks, from three invariants. `TypeInv` relates the stage of a
provider call to its attempts and to the failures it has met, of which one that is not
transient ends it, and the handler's place to the stage, whence a turn
that has not begun has called nobody. `TextInv` says that no collected delta is of a
later attempt than the current one, and of the current one only when the last chunk
yielded is the last of the text: only then does the next chunk leave no gap. `LogInv`
says which messages a session may hold, given where the turns are (`Placed`), and
which it must (`Kept`); with `Kept` a turn's own message is there when its answer is
appended, and with `Placed` there is no other answer of it.

`WebPage_proofs` proves `AppTypeOK` and `EventsKept` of the frame for every size of
the ring and any number of events. `EventsKept` with the types is inductive; the work is in what
an event more does to a ring that is not full (`RingFills`) and to one that is
(`RingSlides`), where every place of the list moves. It carries `EventsKept` over to
the page with its panels, which implements the frame (`PageImplementsShell`), and
proves `BusyIsWork` and
`PromptSettles` for any plugins, prompts and bags of requests. Neither is inductive:
a request must have its types to be answered, a bag its counts to keep the other
requests when one leaves it, and "loading..." needs a body that was
asked for, which no unmounted panel may have (`ModInv`, `PromptInv`).

`ChatTab_proofs` proves everything the run `web_chat` checks, for any number of
sessions, models, providers, fields and messages, any number of requests, frames
and sockets, and any budget: `TypeOK`, `FiledWhereTyped`, `StreamingIsLive`,
`ListTruthful`, `ViewTruthful`, `BadgeTruthful` and `ConfigKept`. Most of these speak of
a moment when nothing is under way; each invariant says what they become while
something is. The invariants of the chat panel are proved one on top of the other:

- `PanelInv` types the panel, every request and answer in the bag, both queues of
  every socket and the server's sessions. Only the last socket is open, and none
  that is not has frames for the page. What is a message or a frame depends on the
  number of messages typed so far, which grows.
- `FiledInv`: a message that was typed is at one place on its way, of one queue, and in
  the session it was typed for; or at one place of that session's transcript, and
  then in no queue; or nowhere. `FiledWhereTyped` alone does not say where
  a message in a queue came from, or that it is there once.
- `StreamInv`: behind each delta on a socket its end is still to come, and the text
  on the screen, unless excused, has its end still to come on the last socket.
- `ListInv`: the list is the last that C1 gave for the text asked for last, or a request
  is under way that brings it (`ListFresh`); and of each session that is not in
  `unlisted` the row in what C1 gave is up to date, or something is under way that leads
  to asking again: a list not answered yet, a request that is followed by a list, a turn
  being served or a `chat.done` on its way (`RowsFresh`). It also says that requests are a
  bag, with which the others stay when one is taken out.
- `BornInv`: what the page, the requests and the sockets name was created before, and
  a session that was not found is gone for good. Without it a late answer could show
  a session that does not exist yet.
- `SeenInv`: of each session that is not in `unseen` and is not gone, the body that C1 gave
  last is all it has, with no message for it on its way, or another load will follow.
  A body that is shown and not excused is therefore the truth when it is shown.
- `ViewInv`: unless excused, either an answer or a `chat.done` is on its way that
  leads to loading the session asked for last, or the screen is caught up with the server
  (`CaughtUp`): it shows what is stored and behind it, in order, the messages of that
  session which the last socket still carries, and no other socket carries any. Every
  step of the page, the server or a socket moves one end of this equation: typing appends
  to the screen and to the queue (`OneMoreTyped`), the server takes from the queue
  and appends to the transcript, a closed socket is an excuse.

`GivenOK` types what was asked for and given.

`KeyInv` types the keys dialog. `BadgeInv` says that, unless excused, at most one
request is under way, and what it has still to bring is all that the rows may be
wrong about; the row it carries, which is written back, is right too.

What a save of a configuration overwrites depends on the whole history of its
form: `MenuInv` says that fetches not cancelled are for the session that is shown,
that a loaded form differs from the stored configuration, and from each save of it
that is under way, in edited fields only, that such a save agrees with what it will
overwrite in the others, and that but for the sessions in `resaved` there is one
save of a session at a time. The dialog gets its session from the chat panel, of
which `PanelInv` says that it shows a session or none. `TabStepInv` puts the three
together, as a dialog's step leaves the panel alone but for the budget, and a step of
the panel gives the configuration dialog its session.

Type invariants are theorems for all components, those of `EventStream` and
`PluginLoader` as the first conjuncts of `ExactlyOnce` and `InStep`.
`StepBudget`, `EndAnnouncedOnce` and `TombstonesNeeded` are theorems
too, with no run of their own.

The proofs rest on these assumptions about the constants, each evaluated by TLC in
the run of its module (the other modules' assumptions are evaluated the same way):

- `SignedAssumption`, `TurnAssumption` (`turn`): agent ids are words joined by
  separators, tools are words without; what is signed is a manifest; types of the constants.
- `StoreAssumption` (`session_store`): the bounds are natural numbers; `None`, the
  absence of a file or an operation's session, is neither a session nor a document.
- `ProviderAssumption`, `ChatAssumption` (`chat`): at least one attempt and one chunk;
  every turn has a session, and those on a socket are turns.
- `EvalAssumption` (`eval`): types of the constants, a module's own tests import it,
  and a submission differs from the reference.
- `SecretsAssumption` (`secrets`): a value or name is none of the model's marks; the
  bound is a natural number.
- `WebhookAssumption` (`webhook`): the store has room for one nonce; the bounds are
  natural numbers.
- `PluginAssumption` (`plugins`): slow plugins are plugins; at least one load each.
- `StreamAssumption` (`events`): there are three parsers, whose bodies are sequences of
  symbols; the limit is a natural number.
- `AppShellAssumption`, `ModulesPanelAssumption` (`web_page`): the ring has room for one
  event; close codes are natural numbers; null and the paste are no plugins.
- `ChatTypesAssumption`, `ChatPanelAssumption`, `ModelConfigAssumption` (`web_chat`):
  `None`, the page's null, is no session id, no model and no session object; of every search
  text it is known which messages and titles mention it, and there is the empty one; an
  answer has at least one delta;
  values are natural numbers, the default among them.

Only model-checked:

- `TurnEnds`, `TurnAnswered`, `EvalEnds`, `ComesDown` and `PluginsCatchUp`: liveness
  under fairness, which the prover does not handle.
- The two counterexamples.

## Not modelled

Envelope cryptography, HTTP authorization and headers, prompt assembly, PII
scrubbing, the JSON of an event, code extraction and test subprocesses, static
tables: sequential text processing or I/O with no state that
outlives a call. Of the web client the rendering of Markdown, tool results and
payloads, the coloured dots of the cards, the grouping of sessions and models, styles,
and the LLM health label. C4 is not called by C6. Session titles, tags, pins and
timestamps are left out of `SessionStore`, and with them the order and the limit
of a listing.

Observations that no run shows, made while reading:

- C1's `apply` (service.py:1231-1240) does not hand `sessions_dir` and
  `secrets_dir` on to `GuiWebCore`, so that as `serve_c1.py` assembles them the
  session, chat and secrets routes answer 503. The models describe a
  `GuiWebCore` built with both directories, as the tests build it.
- The rate limiter's `pre_execute` catches `RateLimited` and only emits
  `system/throttled` (service.py:103): a call that finds the bucket dry is dispatched all
  the same, where its docstring (4-6) has the step aborted.
- A network error in the middle of a 2xx answer is retried after its first deltas were
  sent on (openai_client.py:97-111): the client has deltas of both attempts, where
  ADR-0008 (docs/adr/0008-retry-policy.md:64) has none sent for a failed attempt.
  `DeltasInOrder` says what does hold.
- Of two overlapping evaluations of a module the later one may take its snapshot of
  what the earlier one is writing, and restore that (`_inproc_eval.py:77`, whose
  docstring, 11-13, has the original restored). `ReferenceRestored` excuses overlaps.
- `list_summaries` stops at `limit` in index order and sorts afterwards
  (session_manager.py:224): a limited listing may lack the most recent session.
- `SettingsModal.tsx:116` saves a key by `POST /api/secrets`; C1 has `PUT
  /api/secrets/{name}` only (service.py:1081-1083) and answers 405, so no key is ever
  saved from the dialog. Its test double answers 204.
- Each keystroke in the search field closes the chat socket and opens another
  (`ChatPanel.tsx:142`): the rest of an answer under way is not heard, and its text
  stays on the screen until the next turn ends. A message sent while the socket is
  connecting is shown and not sent. Neither socket is opened again when it is lost.
- `ModelSelect.tsx:32-34` says that the chat panel renders a `chat.error` inline; it
  clears the streamed text and shows nothing.
- `ModelConfigMenu` may be saved before its values arrived, or after they failed to,
  and then writes the values of the session shown before, or the defaults. `onClose`
  of a late save closes a dialog that was opened since; the flag outlives the dialog,
  which opens by itself when a session is shown again, and may then send a second
  save while the first is under way: whichever C1 takes last wins in every field.
- "Close" in the Prompts tab fetches the body again and closes nothing.
- The `unauthorized` state never occurs: C1 refuses the handshake with 401, and the
  browser reports a close with 1006 and not 1008. `moduleHealth` looks for events
  named after modules (`c4/...`), which nobody emits.
- A signature does not belong to one manifest (`Canonical`): one made for agent `a` with
  the tools `b` and `c` verifies for an agent whose id is `a`, a separator and `b`, with
  the tool `c`. C5's docstring (service.py:9-12) says that the delimiter keeps an agent id
  from smuggling anything into a capability; it keeps it from doing so by `|` only, since an
  agent id may hold the delimiter itself. The run `turn` has such a pair of ids.
- `/api/eval` takes its reference modules from the harness's `repo_root`, which C1's `apply`
  (service.py:1245) computes as the directory `src/` of a checkout: it looks for
  `src/src/dhc/modules` and finds none. Its tests cannot run, and every paste
  scores as a failed collection. Where there is no `repo_root` at all it answers with an
  error as JSON (455-458), which the page shows as a scorecard (`ModulesPanel.tsx:113`):
  `evalResult.dhc_v.toFixed` (192) throws, and the page is gone.
- A turn that ends takes the screen: `ChatPanel.tsx:133` loads the session of the turn
  whichever is selected by then, and the messages typed next are shown under it and
  filed under the other. Setting a model does the same (223). `asked` is this session.
- The rows of the list stay stale after `chat.error` and after a model was set, as nothing
  asks for the list then (`unlisted`).
- One append to `secrets.log` that is cut short makes every later read of every
  name raise, for good: nothing skips or repairs the line.
- C6's docstring (service.py:8-9) wants a listener on the `agent/pre-step`
  waterfall to return `current`; the loggers of C2 and C10 return `None`, which
  is then what the driver has. It does not use the value.
- `/ws/chat` leaves the stream at the first chunk with a finish reason
  (C1 service.py:976-994); OpenAI sends its usage block in the chunk after it, so
  that the session keeps the estimate (the comment at 972-975 prefers the block).
- There is more than one `SecretsService` over a directory (`serve_c1.py:97`,
  `GuiWebCore`); one that has a name cached answers the old value after another
  put a new one, though the docstring (secrets.py:257-258) says that reads
  decrypt the latest envelope. `CacheFresh` says how far that goes.
- A comment in C7 (service.py:234-236) says its buffer check fires when many small
  chunks cumulatively exceed the cap; events that are complete leave the buffer,
  so it measures one unfinished event.
- C7 and OpenAI's parser differ over an extra empty line between events: C7 takes
  the first line of what it cuts off, which is then empty, and loses the event.
- C8's docstring (service.py:6) keeps nonces for `replay_window_ms`; the value is
  stored and never read, and a nonce is kept until `max_size` others came.
- After a turn that failed the user's message stays in the session without an
  answer (docs/chat-architecture.md:81-82 calls the two appends atomic).
- `plugins_auto_load` calls the synchronous `load()` from inside the event loop
  (C1 service.py:1253-1257), which raises `PluginApplyError` there
  (loader.py:210-219): no plugin is ever loaded at start.
- A plugin whose module raises on import stays, half imported, in `sys.modules`:
  every later load of it is refused until the process is restarted.
- A plugin that is loaded while C1 waits for its last requests is never disposed
  of, and after an unload it may be called once more by an emission that had
  begun before.

## Plan

Done, in this order: the turn on the bus with its policy; the contract it
implements; the session store; provider calls and chat turns; the proofs about
turns; evaluations and the proofs about them; the secrets log and the proofs
about it; the event parsers; the webhook's nonces and the proofs about them;
plugins that come and go; the web client's chat tab with its dialogs; its frame with
the modules and prompts panels; the proofs about its events, its buttons and lines,
and the configuration dialog; the proofs about chat turns and provider calls, the session
store, the rest of the chat tab, the plugins and the event parsers. Every safety
property a passing run checks is a theorem. Next:

1. An abstract store that `SessionStore` implements, and the proof of it.
2. `SessionListing` (order, pins and limit of a listing) and the scorer's gates as
   pure functions against reference definitions.
3. C2's branches and heartbeat ring, C4's pipeline.

---------------------------- MODULE PluginLoader ----------------------------
(* Plugins that come and go while the harness runs: the routes of C1 that  *)
(* load and unload them, the loader, the bookkeeping of the Context and of *)
(* the event bus they register with, and the shutdown that disposes of     *)
(* everything (plugins/loader.py, cordis/, the bundled plugins, C1).       *)
(*                                                                         *)
(* Every plugin provides one service under a name of its own and listens   *)
(* to one event (session_exporter_v1 has no service, prompt_browser_v1 no  *)
(* listener, memory_store_v1 two).  The bundled plugins do that, and undo  *)
(* it, without ever suspending; a plugin somebody adds may be Slow:        *)
(* importing it may raise, and its apply() and dispose() may await         *)
(* something, and raise, before they have registered or removed anything.  *)
(* The k-th application of plugin p is the instance <<p, k>>.              *)
EXTENDS Naturals, SequencesExt

CONSTANTS Plugins,      \* the discovered plugins
          Slow,         \* those whose functions may suspend or raise
          Requests,     \* HTTP requests that may be in flight together
          MaxLoads      \* bound: applications of one plugin

ASSUME PluginAssumption ==
    /\ Slow \subseteq Plugins
    /\ MaxLoads \in Nat \ {0}

VARIABLES applied,      \* how often each plugin was applied
          imported,     \* sys.modules: "no", "partly" or "whole"
          loaded,       \* PluginState.loaded: the recorded instance, 0 if none
          service,      \* Context.services: the instance bound to the name
          listeners,    \* EventEmitter._listeners of the event
          stack,        \* Context._disposables above those of the modules
          request,      \* what a suspended request is about to do, to whom
          phase,        \* of the harness: "up", "disposing", "stopping", "down"
          at,           \* the stack position ctx.dispose() has come to
          walking,      \* an emission of the event is under way
          copy,         \* the copy of the listeners it works on
          called,       \* the listeners it has called
          steady,       \* history: those that listened ever since it began
          late,         \* history: instances applied after shutdown began
          stuck         \* history: instances whose dispose has raised

ctxVars == <<applied, imported, loaded, service, listeners, stack>>
emission == <<walking, copy, called>>
vars == <<ctxVars, request, phase, at, emission, steady, late, stuck>>

Instances == Plugins \X (1..MaxLoads)
Idle == [doing |-> "nothing"]
Applying(p) == [doing |-> "applying", plugin |-> p]
Disposing(i) == [doing |-> "disposing", instance |-> i]

TypeOK ==
    /\ applied \in [Plugins -> 0..MaxLoads]
    /\ imported \in [Plugins -> {"no", "partly", "whole"}]
    /\ \A p \in Plugins : loaded[p] \in 0..applied[p] /\ service[p] \in 0..applied[p]
    /\ listeners \in Seq(Instances) /\ IsInjective(listeners)
    /\ stack \in Seq(Instances) /\ IsInjective(stack)
    /\ request \in [Requests -> {Idle} \cup {Applying(p) : p \in Slow}
                                       \cup {Disposing(i) : i \in Slow \X (1..MaxLoads)}]
    /\ phase \in {"up", "disposing", "stopping", "down"}
    /\ at \in 0..Len(stack)
    /\ walking \in BOOLEAN
    /\ copy \in Seq(Instances) /\ called \in Seq(Instances)
    /\ steady \subseteq Range(listeners)
    /\ late \subseteq Instances /\ stuck \subseteq Instances

Init ==
    /\ applied = [p \in Plugins |-> 0]
    /\ imported = [p \in Plugins |-> "no"]
    /\ loaded = [p \in Plugins |-> 0]
    /\ service = [p \in Plugins |-> 0]
    /\ listeners = <<>> /\ stack = <<>>
    /\ request = [r \in Requests |-> Idle]
    /\ phase = "up" /\ at = 0
    /\ walking = FALSE /\ copy = <<>> /\ called = <<>>
    /\ steady = {} /\ late = {} /\ stuck = {}

(* ctx.dispose() calls the fast functions on its way in one go: nothing    *)
(* else has the event loop until it comes to one that suspends.            *)
LoopFree ==
    /\ phase # "down"
    /\ phase = "disposing" => at > 0 /\ stack[at][1] \in Slow

AtRest(r) == request[r] = Idle
-----------------------------------------------------------------------------
(* Loading.                                                                *)

(* Faulty variant: the wrapper leaves the dispose function to its caller.  *)
RegisterOffStack(p) ==
    LET i == <<p, applied[p] + 1>>
    IN  /\ applied[p] < MaxLoads
        /\ applied' = [applied EXCEPT ![p] = @ + 1]
        /\ service' = [service EXCEPT ![p] = i[2]]
        /\ listeners' = Append(listeners, i)
        /\ stack' = stack
        /\ loaded' = [loaded EXCEPT ![p] = i[2]]
        /\ late' = IF phase = "up" THEN late ELSE late \cup {i}

(* What a successful apply() leaves behind: the service under its name, a  *)
(* listener, its dispose function on the stack of the context, and the     *)
(* instance recorded as the one that is loaded.                            *)
Register(p) ==
    LET i == <<p, applied[p] + 1>>
    IN  /\ applied[p] < MaxLoads
        /\ applied' = [applied EXCEPT ![p] = @ + 1]
        /\ service' = [service EXCEPT ![p] = i[2]]
        /\ listeners' = Append(listeners, i)
        /\ stack' = Append(stack, i)
        /\ loaded' = [loaded EXCEPT ![p] = i[2]]
        /\ late' = IF phase = "up" THEN late ELSE late \cup {i}

(* The checks of the route and of load_async() that let a request through; *)
(* a module that raised on import stays, without an apply(), in            *)
(* sys.modules, and every later load is refused.                           *)
MayLoad(p) == loaded[p] = 0 /\ imported[p] # "partly"

(* A request for a plugin that does not suspend runs to its end.           *)
Load(r, p) ==
    /\ LoopFree /\ AtRest(r) /\ p \notin Slow
    /\ MayLoad(p)
    /\ imported' = [imported EXCEPT ![p] = "whole"]
    /\ Register(p)
    /\ UNCHANGED <<request, phase, at, emission, steady, stuck>>

(* A configuration apply() cannot use: it raises before it registers.      *)
LoadRefused(r, p) ==
    /\ LoopFree /\ AtRest(r) /\ p \notin Slow
    /\ MayLoad(p)
    /\ imported' = [imported EXCEPT ![p] = "whole"]
    /\ UNCHANGED <<applied, loaded, service, listeners, stack, request, phase, at,
                   emission, steady, late, stuck>>

(* A request for a slow plugin: the import may raise; else apply() starts  *)
(* and suspends.                                                           *)
LoadSlow(r, p) ==
    /\ LoopFree /\ AtRest(r) /\ p \in Slow
    /\ MayLoad(p)
    /\ \/ /\ imported' = [imported EXCEPT ![p] = "whole"]
          /\ request' = [request EXCEPT ![r] = Applying(p)]
       \/ /\ imported[p] = "no"
          /\ imported' = [imported EXCEPT ![p] = "partly"]
          /\ UNCHANGED request
    /\ UNCHANGED <<applied, loaded, service, listeners, stack, phase, at, emission,
                   steady, late, stuck>>

ApplyEnds(r, p) ==
    /\ LoopFree /\ request[r] = Applying(p)
    /\ Register(p)
    /\ request' = [request EXCEPT ![r] = Idle]
    /\ UNCHANGED <<imported, phase, at, emission, steady, stuck>>

ApplyRaises(r, p) ==
    /\ LoopFree /\ request[r] = Applying(p)
    /\ request' = [request EXCEPT ![r] = Idle]
    /\ UNCHANGED <<ctxVars, phase, at, emission, steady, late, stuck>>
-----------------------------------------------------------------------------
(* Unloading.                                                              *)

(* What a dispose function does: it takes its own listener, which is there *)
(* once at most, off the bus and whatever is bound to the plugin's name    *)
(* out of the services.                                                    *)
Disposed(i) ==
    /\ listeners' = RemoveFirst(listeners, i)
    /\ service' = [service EXCEPT ![i[1]] = 0]
    /\ steady' = steady \ {i}

(* The record goes first; the dispose function stays on the stack.         *)
Unload(r, p) ==
    LET i == <<p, loaded[p]>>
    IN  /\ LoopFree /\ AtRest(r)
        /\ loaded[p] # 0
        /\ loaded' = [loaded EXCEPT ![p] = 0]
        /\ IF p \in Slow
           THEN /\ request' = [request EXCEPT ![r] = Disposing(i)]
                /\ UNCHANGED <<listeners, service, steady>>
           ELSE Disposed(i) /\ UNCHANGED request
        /\ UNCHANGED <<applied, imported, stack, phase, at, emission, late, stuck>>

DisposeEnds(r, i) ==
    /\ LoopFree /\ request[r] = Disposing(i)
    /\ Disposed(i)
    /\ request' = [request EXCEPT ![r] = Idle]
    /\ UNCHANGED <<applied, imported, loaded, stack, phase, at, emission, late, stuck>>

DisposeRaises(r, i) ==
    /\ LoopFree /\ request[r] = Disposing(i)
    /\ stuck' = stuck \cup {i}
    /\ request' = [request EXCEPT ![r] = Idle]
    /\ UNCHANGED <<ctxVars, phase, at, emission, steady, late>>
-----------------------------------------------------------------------------
(* Shutdown: ctx.dispose() goes down the stack; C1, which was applied      *)
(* before any of the plugins, comes after them and waits for its requests. *)

Stop ==
    /\ phase = "up"
    /\ phase' = "disposing"
    /\ at' = Len(stack)
    /\ UNCHANGED <<ctxVars, request, emission, steady, late, stuck>>

(* Faulty variant: from the oldest function to the newest.                 *)
DisposeOldest ==
    /\ phase = "disposing" /\ at > 0
    /\ Disposed(stack[Len(stack) + 1 - at])
    /\ at' = at - 1
    /\ UNCHANGED <<applied, imported, loaded, stack, request, phase, emission, late, stuck>>

DisposeNext ==
    /\ phase = "disposing" /\ at > 0
    /\ Disposed(stack[at])
    /\ at' = at - 1
    /\ UNCHANGED <<applied, imported, loaded, stack, request, phase, emission, late, stuck>>

(* Faulty variant: ctx.dispose() without its try.                          *)
DisposeNextRaisesOut ==
    /\ phase = "disposing" /\ at > 0 /\ stack[at][1] \in Slow
    /\ phase' = "failed"
    /\ stuck' = stuck \cup {stack[at]}
    /\ UNCHANGED <<ctxVars, request, at, emission, steady, late>>

(* It is noted where there is a telemetry service, and passed over.        *)
DisposeNextRaises ==
    /\ phase = "disposing" /\ at > 0 /\ stack[at][1] \in Slow
    /\ at' = at - 1
    /\ stuck' = stuck \cup {stack[at]}
    /\ UNCHANGED <<ctxVars, request, phase, emission, steady, late>>

StopServing ==
    /\ phase = "disposing" /\ at = 0
    /\ phase' = "stopping"
    /\ UNCHANGED <<ctxVars, request, at, emission, steady, late, stuck>>

(* The server's cleanup waits for the requests and cancels what does not   *)
(* end; a cancelled dispose has done nothing.  Then the stack is cleared.  *)
Clear ==
    /\ phase = "stopping"
    /\ phase' = "down"
    /\ stuck' = stuck \cup {i \in Instances :
                              \E r \in Requests : request[r] = Disposing(i)}
    /\ request' = [r \in Requests |-> Idle]
    /\ stack' = <<>>
    /\ walking' = FALSE /\ copy' = <<>> /\ called' = <<>> /\ steady' = {}
    /\ UNCHANGED <<applied, imported, loaded, service, listeners, at, late>>
-----------------------------------------------------------------------------
(* An emission of the event, whose listeners suspend.                      *)

EmitBegins ==
    /\ LoopFree /\ ~walking
    /\ walking' = TRUE
    /\ copy' = listeners
    /\ steady' = Range(listeners)
    /\ UNCHANGED <<ctxVars, request, phase, at, called, late, stuck>>

(* Faulty variant: the list itself, off() removing from it on the way.     *)
LiveRound == listeners

(* The list an emission goes through.                                      *)
Round == copy

EmitCalls ==
    /\ LoopFree /\ walking
    /\ Len(called) < Len(Round)
    /\ called' = Append(called, Round[Len(called) + 1])
    /\ UNCHANGED <<ctxVars, request, phase, at, walking, copy, steady, late, stuck>>

(* All were called, or the last one that was has raised.                   *)
EmitEnds ==
    /\ LoopFree /\ walking
    /\ Len(called) >= Len(Round) \/ called # <<>>
    /\ walking' = FALSE /\ copy' = <<>> /\ called' = <<>> /\ steady' = {}
    /\ UNCHANGED <<ctxVars, request, phase, at, late, stuck>>
-----------------------------------------------------------------------------
Next ==
    \/ \E r \in Requests, p \in Plugins :
         \/ Load(r, p) \/ LoadRefused(r, p) \/ LoadSlow(r, p)
         \/ ApplyEnds(r, p) \/ ApplyRaises(r, p)
         \/ Unload(r, p)
    \/ \E r \in Requests, i \in Instances : DisposeEnds(r, i) \/ DisposeRaises(r, i)
    \/ Stop \/ DisposeNext \/ DisposeNextRaises \/ StopServing \/ Clear
    \/ EmitBegins \/ EmitCalls \/ EmitEnds

(* Once asked to stop the harness goes on stopping, and a slow dispose     *)
(* function returns or raises: nothing in ctx.dispose() limits its time.   *)
Fairness ==
    /\ WF_vars(DisposeNext) /\ WF_vars(DisposeNextRaises)
    /\ WF_vars(StopServing) /\ WF_vars(Clear)

Spec == Init /\ [][Next]_vars /\ Fairness
-----------------------------------------------------------------------------
(* Until it is disposed of at shutdown, a bundled plugin has its record,   *)
(* its listener and its service together or not at all, and never two      *)
(* instances of it listen: load_async() and unload() keep PluginState, the *)
(* bus and the services in step, and the reversed stack keeps a function   *)
(* left over from an earlier load from taking a later one's service away.  *)
(* (That nothing is registered twice is in the types.)                     *)
InStep ==
  /\ TypeOK
  /\ \A p \in Plugins \ Slow :
        LET mine == {i \in Range(listeners) : i[1] = p}
        IN  /\ phase = "up" =>
                 IF loaded[p] = 0 THEN mine = {} /\ service[p] = 0
                                  ELSE mine = {<<p, loaded[p]>>}
            /\ phase # "down" =>
                 \A i \in mine \ late : service[p] = i[2]

(* When the harness is down nothing listens any more that was applied      *)
(* before it was asked to stop, whatever loads and unloads were under way  *)
(* and whichever record was overwritten by a second load, but what its own *)
(* dispose function failed to remove.                                      *)
Teardown == phase = "down" => Range(listeners) \subseteq late \cup stuck

(* An emission that has come to its end has called every listener that was *)
(* there all the time, and nobody twice, though plugins registered and     *)
(* left while a listener was awaited.                                      *)
NoneSkipped ==
    walking => /\ IsInjective(called)
               /\ Len(called) >= Len(Round) => steady \subseteq Range(called)

(* A dispose function that raises does not keep the harness from stopping. *)
ComesDown == phase = "disposing" ~> phase = "down"
=============================================================================

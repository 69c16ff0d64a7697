---------------------------- MODULE TurnStepDriver ----------------------------
(***************************************************************************)
(* C6 TurnStepDriver.run_turn on the Cordis event bus, together with the   *)
(* listeners that can change its course:                                   *)
(*   - the agent/pre-step waterfall, whose listeners C2, C10, a plugin and *)
(*     every connected /ws browser socket (C1) register;                   *)
(*   - C9's gate and the rate limiter on tools/pre-execute;                *)
(*   - the /ws listeners on the lifecycle events, which raise when their   *)
(*     transport is gone.                                                  *)
(*                                                                         *)
(* Each element of Turns is one call of run_turn; the calls interleave at  *)
(* their awaits.  An emission is one step: the recorders C2 and C10 come   *)
(* first and never raise, a socket may raise, and then the exception       *)
(* leaves emit.  The turn's events are counted per turn in seen, which is  *)
(* what C2 recorded of it (and, for llm/error, what the bus carried).      *)
(***************************************************************************)
EXTENDS Integers, Sequences, CapabilityPolicy

CONSTANTS Turns,       \* the calls of run_turn
          AgentOf,     \* the agent_id each is called with
          MaxSteps,    \* max_steps
          MaxCalls,    \* bound: tool calls in one LLM reply
          Sockets,     \* /ws clients
          Burst        \* the rate limiter's burst

ASSUME TurnAssumption ==
  /\ AgentOf \in [Turns -> Agents]
  /\ MaxSteps \in Nat \ {0}
  /\ MaxCalls \in Nat
  /\ Burst \in Nat

VARIABLES
  pc,        \* where each run_turn call is
  steps,     \* state.steps
  aborted,   \* state.aborted
  reason,    \* state.abort_reason
  calls,     \* tool calls of the current reply still to be processed
  pending,   \* waterfall listeners still to be called
  current,   \* the value the waterfall hands to the next listener
  seen,      \* how often each event was emitted by the turn
  ran,       \* tools handed to tool_dispatch
  chain,     \* agent/pre-step listeners of the loaded plugins, in order
  listening, \* sockets whose listeners are registered
  broken,    \* of these, the ones whose transport is gone
  tokens     \* the rate limiter's buckets

Limiter == INSTANCE RateLimiter

turnVars == <<pc, steps, aborted, reason, calls, pending, current, seen, ran>>
busVars == <<chain, listening, broken>>
vars == <<turnVars, busVars, tokens, policyVars>>

Reasons == {"completed", "max_steps_exceeded", "tool_error",
            "policy_denied", "llm_error"}

(* A tool/call event that carries an "error" key is counted as tool/error. *)
Events == {"turn/start", "step/start", "llm/stream", "tool/call",
           "tool/error", "step/end", "llm/error", "turn/end"}

(* Listeners on agent/pre-step: "log" is C2 and C10, "veto" a plugin that  *)
(* aborts the turn it is shown, "socket" any /ws client.                   *)
Listeners == {"log", "veto", "socket"}

Chains == {<<>>, <<"log">>, <<"veto">>, <<"log", "veto">>}

Finished == {"returned", "limit", "raised"}

Stages == {"idle", "prestep", "loop", "stream", "gate", "tool", "step_end",
           "handler", "turn_end"} \union Finished

(* The replies an LLM stream can carry, by the tools they ask for.         *)
Replies == UNION {[1..n -> Tools] : n \in 0..MaxCalls}

TypeOK ==
  /\ pc \in [Turns -> Stages]
  /\ steps \in [Turns -> Nat]
  /\ aborted \in [Turns -> BOOLEAN]
  /\ reason \in [Turns -> Reasons]
  /\ calls \in [Turns -> Seq(Tools)]
  /\ pending \in [Turns -> Seq(Listeners)]
  /\ current \in [Turns -> {"state", "vetoed", "none"}]
  /\ seen \in [Turns -> [Events -> Nat]]
  /\ ran \in [Turns -> SUBSET Tools]
  /\ chain \in Chains
  /\ listening \subseteq Sockets
  /\ broken \subseteq listening
  /\ Limiter!BucketTypeOK
  /\ PolicyTypeOK

Init ==
  /\ pc = [t \in Turns |-> "idle"]
  /\ steps = [t \in Turns |-> 0]
  /\ aborted = [t \in Turns |-> FALSE]
  /\ reason = [t \in Turns |-> "completed"]
  /\ calls = [t \in Turns |-> <<>>]
  /\ pending = [t \in Turns |-> <<>>]
  /\ current = [t \in Turns |-> "state"]
  /\ seen = [t \in Turns |-> [e \in Events |-> 0]]
  /\ ran = [t \in Turns |-> {}]
  /\ chain \in Chains
  /\ listening = {}
  /\ broken = {}
  /\ Limiter!BucketInit
  /\ PolicyInit

-----------------------------------------------------------------------------
(* The /ws sockets                                                         *)

Connect(s) ==
  /\ listening' = listening \union {s}
  /\ UNCHANGED <<chain, broken>>

(* The transport dies; until the handler's read loop notices, ws.closed is *)
(* false and the listener still tries to send.                             *)
Break(s) ==
  /\ s \in listening
  /\ broken' = broken \union {s}
  /\ UNCHANGED <<chain, listening>>

(* The handler's finally block takes the listeners off.                    *)
Disconnect(s) ==
  /\ listening' = listening \ {s}
  /\ broken' = broken \ {s}
  /\ UNCHANGED chain

SocketNext == \E s \in Sockets : Connect(s) \/ Break(s) \/ Disconnect(s)

-----------------------------------------------------------------------------
(* Steps of a turn                                                         *)

Goto(t, stage) == pc' = [pc EXCEPT ![t] = stage]

Count(t, event) == seen' = [seen EXCEPT ![t][event] = @ + 1]

(* The circuit breaker's test.                                             *)
AtLimit(n) == n >= MaxSteps

Abort(t, why) ==
  /\ aborted' = [aborted EXCEPT ![t] = TRUE]
  /\ reason' = [reason EXCEPT ![t] = why]

(* Emit an event the sockets forward: the recorders count it, and then a   *)
(* broken socket may raise, which sends control to caught.                 *)
Emit(t, event, next, caught) ==
  /\ Count(t, event)
  /\ \/ Goto(t, next)
     \/ broken # {} /\ Goto(t, caught)

(* The waterfall works on a copy of the listeners.  The first socket in it *)
(* ends the turn wherever it stands, so one entry at the end stands for    *)
(* all of them.                                                            *)
StartTurn(t) ==
  /\ pc[t] = "idle"
  /\ Emit(t, "turn/start", "prestep", "raised")
  /\ pending' = [pending EXCEPT ![t] =
                   IF listening = {} THEN chain ELSE Append(chain, "socket")]
  /\ UNCHANGED <<steps, aborted, reason, calls, current, ran>>

(* The listeners of C2 and C10 take the value and return None.             *)
PreStepLog(t) ==
  /\ pc[t] = "prestep" /\ pending[t] # <<>> /\ Head(pending[t]) = "log"
  /\ current' = [current EXCEPT ![t] = "none"]
  /\ pending' = [pending EXCEPT ![t] = Tail(@)]
  /\ UNCHANGED <<pc, steps, aborted, reason, calls, seen, ran>>

(* A plugin's listener sets aborted on the state it is given; given None   *)
(* it fails on the attribute.                                              *)
PreStepVeto(t) ==
  /\ pc[t] = "prestep" /\ pending[t] # <<>> /\ Head(pending[t]) = "veto"
  /\ IF current[t] = "none"
       THEN Goto(t, "raised") /\ UNCHANGED <<current, pending>>
       ELSE /\ current' = [current EXCEPT ![t] = "vetoed"]
            /\ pending' = [pending EXCEPT ![t] = Tail(@)]
            /\ UNCHANGED pc
  /\ UNCHANGED <<steps, aborted, reason, calls, seen, ran>>

(* C1's on_event(payload) is called with the keyword agent_id, which it    *)
(* does not accept: TypeError.                                             *)
PreStepSocket(t) ==
  /\ pc[t] = "prestep" /\ pending[t] # <<>> /\ Head(pending[t]) = "socket"
  /\ Goto(t, "raised")
  /\ UNCHANGED <<steps, aborted, reason, calls, pending, current, seen, ran>>

(* Only a returned _TurnState replaces the driver's state.                 *)
PreStepDone(t) ==
  /\ pc[t] = "prestep" /\ pending[t] = <<>>
  /\ aborted' = [aborted EXCEPT ![t] = (current[t] = "vetoed")]
  /\ Goto(t, "loop")
  /\ UNCHANGED <<steps, reason, calls, pending, current, seen, ran>>

(* The top of the while loop.                                              *)
LoopVetoed(t) ==
  /\ pc[t] = "loop" /\ aborted[t]
  /\ Goto(t, "turn_end")
  /\ UNCHANGED <<steps, aborted, reason, calls, pending, current, seen, ran>>

StartStep(t) ==
  /\ pc[t] = "loop" /\ ~aborted[t]
  /\ Emit(t, "step/start", "stream", "handler")
  /\ UNCHANGED <<steps, aborted, reason, calls, pending, current, ran>>

(* The whole LLM stream of a step has been read; an emission that raises   *)
(* leaves the reply's tool calls unprocessed.                              *)
StreamReply(t) ==
  /\ pc[t] = "stream"
  /\ Count(t, "llm/stream")
  /\ \/ \E reply \in Replies :
          /\ calls' = [calls EXCEPT ![t] = reply]
          /\ IF reply = <<>>
               THEN Abort(t, "completed") /\ Goto(t, "step_end")
               ELSE UNCHANGED <<aborted, reason>> /\ Goto(t, "gate")
     \/ broken # {} /\ Goto(t, "handler") /\ UNCHANGED <<calls, aborted, reason>>
  /\ UNCHANGED <<steps, pending, current, ran>>

StreamFails(t) ==
  /\ pc[t] = "stream"
  /\ Goto(t, "handler")
  /\ UNCHANGED <<steps, aborted, reason, calls, pending, current, seen, ran>>

(* Faulty variants: after a denial, go on with the next call of the reply; *)
(* wait at the gate until the capability is granted.                       *)
GateDeniesAndGoesOn(t) ==
  /\ pc[t] = "gate" /\ ~Allowed(AgentOf[t], Head(calls[t]))
  /\ Abort(t, "policy_denied")
  /\ calls' = [calls EXCEPT ![t] = Tail(@)]
  /\ Emit(t, "tool/error",
          IF Tail(calls[t]) = <<>> THEN "step_end" ELSE "gate", "handler")
  /\ UNCHANGED <<steps, pending, current, ran, tokens>>

GateWaits(t) ==
  /\ pc[t] = "gate" /\ ~Allowed(AgentOf[t], Head(calls[t]))
  /\ UNCHANGED <<turnVars, tokens>>

(* tools/pre-execute: C9's hook raises CapabilityDenied before any later   *)
(* listener runs, and the turn aborts.                                     *)
GateDenies(t) ==
  /\ pc[t] = "gate" /\ ~Allowed(AgentOf[t], Head(calls[t]))
  /\ Abort(t, "policy_denied")
  /\ Emit(t, "tool/error", "step_end", "handler")
  /\ UNCHANGED <<steps, calls, pending, current, ran, tokens>>

(* C9 permits, the rate limiter takes a token if there is one, and the     *)
(* tool is dispatched: no listener of the event suspends in between.       *)
GatePasses(t) ==
  /\ pc[t] = "gate" /\ Allowed(AgentOf[t], Head(calls[t]))
  /\ Limiter!TakeToken(AgentOf[t])
  /\ ran' = [ran EXCEPT ![t] = @ \union {Head(calls[t])}]
  /\ Goto(t, "tool")
  /\ UNCHANGED <<steps, aborted, reason, calls, pending, current, seen>>

ToolReturns(t) ==
  /\ pc[t] = "tool"
  /\ calls' = [calls EXCEPT ![t] = Tail(@)]
  /\ Emit(t, "tool/call",
          IF Tail(calls[t]) = <<>> THEN "step_end" ELSE "gate", "handler")
  /\ UNCHANGED <<steps, aborted, reason, pending, current, ran>>

ToolRaises(t) ==
  /\ pc[t] = "tool"
  /\ Abort(t, "tool_error")
  /\ Emit(t, "tool/error", "step_end", "handler")
  /\ UNCHANGED <<steps, calls, pending, current, ran>>

(* step/end, the step count and the circuit breaker at the end of the loop *)
(* body.                                                                   *)
EndStep(t) ==
  /\ pc[t] = "step_end"
  /\ Count(t, "step/end")
  /\ steps' = [steps EXCEPT ![t] = @ + 1]
  /\ IF aborted[t]
       THEN Goto(t, "turn_end") /\ UNCHANGED <<aborted, reason>>
       ELSE IF AtLimit(steps[t] + 1)
         THEN Abort(t, "max_steps_exceeded") /\ Goto(t, "turn_end")
         ELSE Goto(t, "loop") /\ UNCHANGED <<aborted, reason>>
  /\ UNCHANGED <<calls, pending, current, ran>>

EndStepRaises(t) ==
  /\ pc[t] = "step_end" /\ broken # {}
  /\ Count(t, "step/end")
  /\ Goto(t, "handler")
  /\ UNCHANGED <<steps, aborted, reason, calls, pending, current, ran>>

(* Faulty variants: blame the stream whatever happened before; swallow the *)
(* error; start the step over.                                             *)
HandleErrorOverrides(t) ==
  /\ pc[t] = "handler"
  /\ Abort(t, "llm_error")
  /\ Count(t, "llm/error")
  /\ Goto(t, "turn_end")
  /\ UNCHANGED <<steps, calls, pending, current, ran>>

HandleErrorSilently(t) ==
  /\ pc[t] = "handler"
  /\ IF aborted[t] THEN UNCHANGED <<aborted, reason>> ELSE Abort(t, "llm_error")
  /\ Goto(t, "turn_end")
  /\ UNCHANGED <<steps, calls, pending, current, seen, ran>>

HandleErrorRetries(t) ==
  /\ pc[t] = "handler"
  /\ Goto(t, "loop")
  /\ UNCHANGED <<steps, aborted, reason, calls, pending, current, seen, ran>>

(* except Exception: the first reason to abort stays; nothing listens to   *)
(* llm/error.                                                              *)
HandleError(t) ==
  /\ pc[t] = "handler"
  /\ IF aborted[t] THEN UNCHANGED <<aborted, reason>> ELSE Abort(t, "llm_error")
  /\ Count(t, "llm/error")
  /\ Goto(t, "turn_end")
  /\ UNCHANGED <<steps, calls, pending, current, ran>>

EndTurn(t) ==
  /\ pc[t] = "turn_end"
  /\ Emit(t, "turn/end",
          IF reason[t] = "max_steps_exceeded" THEN "limit" ELSE "returned",
          "raised")
  /\ UNCHANGED <<steps, aborted, reason, calls, pending, current, ran>>

(* What run_turn does once it has been called.                             *)
Proceed(t) ==
  \/ /\ \/ PreStepLog(t) \/ PreStepVeto(t) \/ PreStepSocket(t) \/ PreStepDone(t)
        \/ LoopVetoed(t) \/ StartStep(t)
        \/ StreamReply(t) \/ StreamFails(t)
        \/ ToolReturns(t) \/ ToolRaises(t)
        \/ EndStep(t) \/ EndStepRaises(t)
        \/ HandleError(t) \/ EndTurn(t)
     /\ UNCHANGED tokens
  \/ GateDenies(t) \/ GatePasses(t)

TurnNext(t) ==
  /\ (StartTurn(t) /\ UNCHANGED tokens) \/ Proceed(t)
  /\ UNCHANGED <<busVars, policyVars>>

Next ==
  \/ \E t \in Turns : TurnNext(t)
  \/ SocketNext /\ UNCHANGED <<turnVars, tokens, policyVars>>
  \/ PolicyNext /\ UNCHANGED <<turnVars, busVars, tokens>>
  \/ Limiter!BucketNext /\ UNCHANGED <<turnVars, busVars, policyVars>>

(* A started call is scheduled until it ends: the event loop runs every    *)
(* ready coroutine, LLM streams are finite and tools return.  Callers,     *)
(* browsers, the registry and the clock owe nothing.                       *)
Fairness ==
  \A t \in Turns : WF_vars(Proceed(t) /\ UNCHANGED <<busVars, policyVars>>)

Spec == Init /\ [][Next]_vars

FairSpec == Spec /\ Fairness

-----------------------------------------------------------------------------
(* Correctness                                                             *)

(* The circuit breaker: no turn takes more than max_steps steps, whatever  *)
(* mixture of replies, denials and failures it meets, and StepLimitExceeded*)
(* is raised exactly for a turn that used all of them, after turn/end.     *)
StepBudget ==
  \A t \in Turns :
    /\ steps[t] <= MaxSteps
    /\ pc[t] = "loop" => steps[t] < MaxSteps
    /\ pc[t] = "limit" => steps[t] = MaxSteps /\ seen[t]["turn/end"] = 1

(* turn/end is announced at most once, never before the turn is over, and  *)
(* every turn that hands its caller a result or the step limit announced   *)
(* it.                                                                     *)
EndAnnouncedOnce ==
  \A t \in Turns :
    /\ seen[t]["turn/end"] = 1 => pc[t] \in Finished
    /\ seen[t]["turn/end"] <= 1
    /\ pc[t] \in {"returned", "limit"} => seen[t]["turn/end"] = 1

(* The session log can be read back: each reported step has its step/end,  *)
(* one more step/end than steps only when a listener of step/end raised    *)
(* (then llm/error is there too), and at most the last step has no end.    *)
LogMatchesSteps ==
  \A t \in Turns :
    LET surplus == seen[t]["step/end"] - steps[t]
        unended == seen[t]["step/start"] - seen[t]["step/end"] IN
    /\ surplus \in {0, 1}
    /\ surplus = 1 => pc[t] = "handler" \/ seen[t]["llm/error"] = 1
    /\ unended \in {0, 1}
    /\ pc[t] \in {"returned", "limit"} /\ unended = 1 => seen[t]["llm/error"] = 1

(* The reason reported with turn/end is what happened: a denied or failed  *)
(* call is in the log exactly once and is the reason, a broken stream is   *)
(* an llm/error, and the step limit is never blamed for another failure.   *)
ReasonTruthful ==
  \A t \in Turns :
    pc[t] \in {"returned", "limit"} =>
      /\ seen[t]["tool/error"] = IF reason[t] \in {"policy_denied", "tool_error"}
                                   THEN 1 ELSE 0
      /\ reason[t] = "llm_error" => seen[t]["llm/error"] = 1
      /\ reason[t] = "max_steps_exceeded" => seen[t]["llm/error"] = 0

(* No tool is dispatched for an agent unless a manifest signed with the    *)
(* root secret for that agent names it: registry, policy and driver        *)
(* together.  Only where one agent id is another cut off at a separator    *)
(* does what was signed for the one count for the other.                   *)
RanOnlySigned ==
  \A t \in Turns : ran[t] \subseteq SignedFor(AgentOf[t]) \union Straddling(AgentOf[t])

(* Once a turn has been aborted it does no more work: no new step, no      *)
(* dispatch, no further tool result.                                       *)
NoWorkAfterAbort ==
  [][\A t \in Turns : aborted[t] =>
       /\ aborted'[t] /\ reason'[t] = reason[t] /\ ran'[t] = ran[t]
       /\ \A e \in {"step/start", "tool/call", "tool/error"} :
            seen'[t][e] = seen[t][e]]_vars

(* Every call that was started ends: it returns, raises the step limit, or *)
(* lets a listener's exception through.                                    *)
TurnEnds ==
  \A t \in Turns : pc[t] # "idle" ~> pc[t] \in Finished

(* The turn contract, with the program stage read as the contract's.       *)
ContractStage(t) ==
  CASE pc[t] = "idle" -> "new"
    [] pc[t] \in {"prestep", "loop"} -> "open"
    [] pc[t] \in {"stream", "gate", "tool", "step_end", "handler"} -> "step"
    [] pc[t] = "turn_end" -> "decided"
    [] pc[t] \in {"returned", "limit"} -> "closed"
    [] pc[t] = "raised" -> "escaped"

ContractVerdict(t) ==
  IF \/ pc[t] \in {"turn_end", "returned", "limit"}
     \/ pc[t] = "raised" /\ seen[t]["turn/end"] = 1
    THEN reason[t] ELSE "none"

ContractStages == [t \in Turns |-> ContractStage(t)]

ContractVerdicts == [t \in Turns |-> ContractVerdict(t)]

C == INSTANCE TurnContract WITH
       stage <- ContractStages, taken <- steps, verdict <- ContractVerdicts

(* Every turn keeps the turn contract.                                     *)
KeepsContract == C!Contract

(* The turn/end of the waterfall in C6's docstring and the README: a turn  *)
(* that announced its start has announced its end when the call is over.   *)
StartHasEnd ==
  \A t \in Turns :
    pc[t] \in Finished => seen[t]["turn/end"] = seen[t]["turn/start"]
=============================================================================

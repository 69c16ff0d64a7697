------------------------- MODULE TurnStepDriver_proofs -------------------------
(***************************************************************************)
(* Type correctness, the inductive invariant and the theorems of           *)
(* TurnStepDriver, for any number of turns, agents, tools and sockets and  *)
(* any step limit.                                                         *)
(***************************************************************************)
EXTENDS TurnStepDriver, TLAPS

-----------------------------------------------------------------------------
(* The inductive invariant, one conjunct per relation between pieces of a  *)
(* turn's state.                                                           *)

InStep == {"stream", "gate", "tool", "step_end"}
BeforeEnd == {"idle", "prestep", "loop", "handler"} \union InStep
Over == {"turn_end"} \union Finished

(* An aborted turn is on its way out.                                      *)
AbortedInv(t) ==
  /\ aborted[t] => pc[t] \in {"loop", "step_end", "handler"} \union Over
  /\ aborted[t] /\ pc[t] = "loop" => steps[t] = 0
  /\ pc[t] = "loop" => reason[t] = "completed"
  /\ ~aborted[t] => reason[t] = "completed"
  /\ pc[t] = "turn_end" => aborted[t]

(* How many steps have been taken, and that no step starts beyond the cap. *)
StepInv(t) ==
  /\ steps[t] <= MaxSteps
  /\ pc[t] \in {"idle", "prestep"} => steps[t] = 0
  /\ pc[t] \in {"loop", "handler"} \union InStep => steps[t] < MaxSteps
  /\ reason[t] = "max_steps_exceeded" => pc[t] \in Over /\ steps[t] = MaxSteps
  /\ pc[t] = "limit" => reason[t] = "max_steps_exceeded"
  /\ pc[t] = "returned" => reason[t] # "max_steps_exceeded"

(* What the log holds of the end of the turn.                              *)
EndInv(t) ==
  /\ pc[t] \in BeforeEnd \union {"turn_end"} => seen[t]["turn/end"] = 0
  /\ pc[t] \in {"returned", "limit"} => seen[t]["turn/end"] = 1
  /\ pc[t] = "raised" => \/ seen[t]["turn/end"] = 0 /\ steps[t] = 0
                         \/ seen[t]["turn/end"] = 1

(* What the log holds of the steps.                                        *)
LogInv(t) ==
  LET starts == seen[t]["step/start"]
      ends == seen[t]["step/end"]
      errors == seen[t]["llm/error"] IN
  /\ errors \in {0, 1}
  /\ pc[t] \in BeforeEnd => errors = 0
  /\ pc[t] \in BeforeEnd \ {"handler"} => ends = steps[t]
  /\ pc[t] \in {"idle", "prestep", "loop"} => starts = ends
  /\ pc[t] \in InStep => starts = ends + 1
  /\ pc[t] \in {"handler"} \union Over =>
       /\ ends = steps[t] \/ ends = steps[t] + 1
       /\ starts = ends \/ starts = ends + 1
  /\ pc[t] \in Over /\ errors = 0 => starts = ends /\ ends = steps[t]

(* What the log holds of failures.                                         *)
ReasonInv(t) ==
  /\ seen[t]["tool/error"] = IF reason[t] \in {"policy_denied", "tool_error"}
                               THEN 1 ELSE 0
  /\ reason[t] = "llm_error" => pc[t] \in Over /\ seen[t]["llm/error"] = 1
  /\ reason[t] = "max_steps_exceeded" => seen[t]["llm/error"] = 0

(* Tool calls are taken from a reply that still holds one.                 *)
CallInv(t) == pc[t] \in {"gate", "tool"} => calls[t] # <<>>

OneTurnInv(t) == /\ AbortedInv(t) /\ StepInv(t) /\ EndInv(t)
                 /\ LogInv(t) /\ ReasonInv(t) /\ CallInv(t)

TurnInv == \A t \in Turns : OneTurnInv(t)

AllowedTo(a) == SignedFor(a) \union Straddling(a)

(* Nothing is granted, and nothing has run, beyond what was signed.        *)
PolicyInv ==
  /\ \A a \in Agents : caps[a] \subseteq AllowedTo(a)
  /\ RanOnlySigned

IInv == TypeOK /\ TurnInv /\ PolicyInv

-----------------------------------------------------------------------------
(* Type correctness                                                        *)

(* What a reply asks for is a sequence of tools.                           *)
LEMMA RepliesAreSequences == Replies \subseteq Seq(Tools)
  <1> SUFFICES ASSUME NEW n \in 0..MaxCalls, NEW r \in [1..n -> Tools]
               PROVE  r \in Seq(Tools)
    BY DEF Replies
  <1> n \in Nat
    BY TurnAssumption
  <1> QED  OBVIOUS

(* So is every order in which listeners can be registered.                 *)
LEMMA ChainsAreSequences == Chains \subseteq Seq(Listeners)
  <1>1. "log" \in Listeners /\ "veto" \in Listeners
    BY DEF Listeners
  <1>2. <<>> \in Seq(Listeners)
    OBVIOUS
  <1>3. \A x, y \in Listeners : <<x>> \in Seq(Listeners) /\ <<x, y>> \in Seq(Listeners)
    OBVIOUS
  <1> QED  BY <1>1, <1>2, <1>3 DEF Chains

(* The initial states have their types.                                    *)
LEMMA InitTyped == Init => TypeOK
  BY TurnAssumption DEF Init, TypeOK, Stages, Reasons, Events, Chains, Listeners,
     Limiter!BucketInit, Limiter!BucketTypeOK, PolicyInit, PolicyTypeOK

(* The helpers the actions are made of keep their part of the state typed. *)
LEMMA GotoTyped ==
  ASSUME TypeOK, NEW t \in Turns, NEW stage \in Stages, Goto(t, stage)
  PROVE  pc' \in [Turns -> Stages]
  BY DEF TypeOK, Goto

(* An event is counted.                                                    *)
LEMMA CountTyped ==
  ASSUME TypeOK, NEW t \in Turns, NEW event \in Events, Count(t, event)
  PROVE  seen' \in [Turns -> [Events -> Nat]]
  BY DEF TypeOK, Count

(* An abort notes one of the reasons.                                      *)
LEMMA AbortTyped ==
  ASSUME TypeOK, NEW t \in Turns, NEW why \in Reasons, Abort(t, why)
  PROVE  aborted' \in [Turns -> BOOLEAN] /\ reason' \in [Turns -> Reasons]
  BY DEF TypeOK, Abort

(* An emission goes on to a stage, raised or not.                          *)
LEMMA EmitTyped ==
  ASSUME TypeOK, NEW t \in Turns, NEW event \in Events,
         NEW next \in Stages, NEW caught \in Stages, Emit(t, event, next, caught)
  PROVE  pc' \in [Turns -> Stages] /\ seen' \in [Turns -> [Events -> Nat]]
  BY GotoTyped, CountTyped DEF Emit

(* A step of a turn keeps the state typed.                                 *)
LEMMA TurnTyped ==
  ASSUME TypeOK, NEW t \in Turns, CallInv(t), TurnNext(t)
  PROVE  TypeOK'
  <1>a. \A next \in Stages, caught \in Stages, event \in Events :
          Emit(t, event, next, caught) =>
            pc' \in [Turns -> Stages] /\ seen' \in [Turns -> [Events -> Nat]]
    BY EmitTyped
  <1> USE DEF TypeOK, Stages, Finished, Reasons, Events
  <1>b. /\ chain' \in Chains /\ listening' \subseteq Sockets /\ broken' \subseteq listening'
        /\ PolicyTypeOK'
    BY DEF TurnNext, busVars, policyVars, PolicyTypeOK
  <1>c. UNCHANGED tokens => Limiter!BucketTypeOK'
    BY DEF Limiter!BucketTypeOK
  <1>d. \A stage \in Stages : Goto(t, stage) => pc' \in [Turns -> Stages]
    BY GotoTyped
  <1>e. \A event \in Events : Count(t, event) => seen' \in [Turns -> [Events -> Nat]]
    BY CountTyped
  <1>f. \A why \in Reasons : Abort(t, why) =>
          aborted' \in [Turns -> BOOLEAN] /\ reason' \in [Turns -> Reasons]
    BY AbortTyped
  <1>1. CASE StartTurn(t) /\ UNCHANGED tokens
    <2>1. chain \in Seq(Listeners) /\ Append(chain, "socket") \in Seq(Listeners)
      BY ChainsAreSequences DEF Listeners
    <2>2. pending' \in [Turns -> Seq(Listeners)]
      BY <1>1, <2>1 DEF StartTurn
    <2>3. QED  BY <1>1, <1>a, <1>b, <1>c, <2>2 DEF StartTurn
  <1>2. CASE PreStepLog(t) /\ UNCHANGED tokens
    <2>1. Tail(pending[t]) \in Seq(Listeners)
      BY <1>2 DEF PreStepLog
    <2>2. QED  BY <1>2, <1>b, <1>c, <2>1 DEF PreStepLog
  <1>3. CASE PreStepVeto(t) /\ UNCHANGED tokens
    <2>1. Tail(pending[t]) \in Seq(Listeners)
      BY <1>3 DEF PreStepVeto
    <2>2. pc' \in [Turns -> Stages]
      BY <1>3, <1>d DEF PreStepVeto
    <2>3. pending' \in [Turns -> Seq(Listeners)]
      BY <1>3, <2>1 DEF PreStepVeto
    <2>4. current' \in [Turns -> {"state", "vetoed", "none"}]
      BY <1>3 DEF PreStepVeto
    <2>5. QED  BY <1>3, <1>b, <1>c, <2>2, <2>3, <2>4 DEF PreStepVeto
  <1>4. CASE PreStepSocket(t) /\ UNCHANGED tokens
    BY <1>4, <1>b, <1>c, <1>d DEF PreStepSocket
  <1>5. CASE PreStepDone(t) /\ UNCHANGED tokens
    BY <1>5, <1>b, <1>c, <1>d DEF PreStepDone
  <1>6. CASE LoopVetoed(t) /\ UNCHANGED tokens
    BY <1>6, <1>b, <1>c, <1>d DEF LoopVetoed
  <1>7. CASE StartStep(t) /\ UNCHANGED tokens
    BY <1>7, <1>a, <1>b, <1>c DEF StartStep
  <1>8. CASE StreamReply(t) /\ UNCHANGED tokens
    <2>1. calls' \in [Turns -> Seq(Tools)]
      BY <1>8, RepliesAreSequences DEF StreamReply
    <2>2. pc' \in [Turns -> Stages] /\ seen' \in [Turns -> [Events -> Nat]]
      BY <1>8, <1>d, <1>e DEF StreamReply
    <2>3. aborted' \in [Turns -> BOOLEAN] /\ reason' \in [Turns -> Reasons]
      BY <1>8, <1>f DEF StreamReply
    <2>4. QED  BY <1>8, <1>b, <1>c, <2>1, <2>2, <2>3 DEF StreamReply
  <1>9. CASE StreamFails(t) /\ UNCHANGED tokens
    BY <1>9, <1>b, <1>c, <1>d DEF StreamFails
  <1>10. CASE ToolReturns(t) /\ UNCHANGED tokens
    <2>1. calls' \in [Turns -> Seq(Tools)]
      BY <1>10 DEF ToolReturns, CallInv
    <2>2. pc' \in [Turns -> Stages] /\ seen' \in [Turns -> [Events -> Nat]]
      <3> DEFINE next == IF Tail(calls[t]) = <<>> THEN "step_end" ELSE "gate"
      <3>1. next \in Stages
        OBVIOUS
      <3>2. Emit(t, "tool/call", next, "handler")
        BY <1>10 DEF ToolReturns
      <3> HIDE DEF next
      <3>3. QED  BY <1>a, <3>1, <3>2
    <2>3. QED  BY <1>10, <1>b, <1>c, <2>1, <2>2 DEF ToolReturns
  <1>11. CASE ToolRaises(t) /\ UNCHANGED tokens
    BY <1>11, <1>a, <1>b, <1>c, <1>f DEF ToolRaises
  <1>12. CASE EndStep(t) /\ UNCHANGED tokens
    <2>1. steps' \in [Turns -> Nat]
      BY <1>12 DEF EndStep
    <2>2. pc' \in [Turns -> Stages] /\ seen' \in [Turns -> [Events -> Nat]]
      BY <1>12, <1>d, <1>e DEF EndStep
    <2>3. aborted' \in [Turns -> BOOLEAN] /\ reason' \in [Turns -> Reasons]
      BY <1>12, <1>f DEF EndStep
    <2>4. QED  BY <1>12, <1>b, <1>c, <2>1, <2>2, <2>3 DEF EndStep
  <1>13. CASE EndStepRaises(t) /\ UNCHANGED tokens
    BY <1>13, <1>b, <1>c, <1>d, <1>e DEF EndStepRaises
  <1>14. CASE HandleError(t) /\ UNCHANGED tokens
    <2>1. aborted' \in [Turns -> BOOLEAN] /\ reason' \in [Turns -> Reasons]
      BY <1>14, <1>f DEF HandleError
    <2>2. QED  BY <1>14, <1>b, <1>c, <1>d, <1>e, <2>1 DEF HandleError
  <1>15. CASE EndTurn(t) /\ UNCHANGED tokens
    <2> DEFINE next == IF reason[t] = "max_steps_exceeded" THEN "limit" ELSE "returned"
    <2>1. next \in Stages
      OBVIOUS
    <2>2. Emit(t, "turn/end", next, "raised")
      BY <1>15 DEF EndTurn
    <2> HIDE DEF next
    <2>3. pc' \in [Turns -> Stages] /\ seen' \in [Turns -> [Events -> Nat]]
      BY <1>a, <2>1, <2>2
    <2>4. QED  BY <1>15, <1>b, <1>c, <2>3 DEF EndTurn
  <1>16. CASE GateDenies(t)
    BY <1>16, <1>a, <1>b, <1>c, <1>f DEF GateDenies
  <1>17. CASE GatePasses(t)
    <2>1. AgentOf[t] \in Agents
      BY TurnAssumption
    <2>2. Head(calls[t]) \in Tools
      BY <1>17, <2>1 DEF GatePasses, Allowed, PolicyTypeOK
    <2>3. Limiter!BucketTypeOK'
      <3>1. tokens \in [Agents -> 0..Burst] /\ Limiter!TakeToken(AgentOf[t])
        BY <1>17 DEF GatePasses, Limiter!BucketTypeOK
      <3>2. QED
        BY <2>1, <3>1, TurnAssumption
        DEF Limiter!BucketTypeOK, Limiter!TakeToken, Limiter!Dry
    <2>4. ran' \in [Turns -> SUBSET Tools]
      BY <1>17, <2>2 DEF GatePasses
    <2>5. QED  BY <1>17, <1>b, <1>d, <2>3, <2>4 DEF GatePasses
  <1>18. QED
    BY <1>1, <1>2, <1>3, <1>4, <1>5, <1>6, <1>7, <1>8, <1>9, <1>10, <1>11,
       <1>12, <1>13, <1>14, <1>15, <1>16, <1>17 DEF TurnNext, Proceed

-----------------------------------------------------------------------------
(* What a step does to the other turns, and to its own                     *)

TurnState(t) == <<pc[t], steps[t], aborted[t], reason[t], calls[t], pending[t],
                  current[t], seen[t], ran[t]>>

(* A step of a turn leaves every other turn alone.                         *)
LEMMA OthersUntouched ==
  ASSUME TypeOK, NEW t \in Turns, NEW u \in Turns, u # t, TurnNext(t)
  PROVE  UNCHANGED TurnState(u)
  <1> USE DEF TypeOK, TurnState, Goto, Count, Emit, Abort
  <1>1. CASE StartTurn(t)
    BY <1>1 DEF StartTurn
  <1>2. CASE PreStepLog(t)
    BY <1>2 DEF PreStepLog
  <1>3. CASE PreStepVeto(t)
    BY <1>3 DEF PreStepVeto
  <1>4. CASE PreStepSocket(t)
    BY <1>4 DEF PreStepSocket
  <1>5. CASE PreStepDone(t)
    BY <1>5 DEF PreStepDone
  <1>6. CASE LoopVetoed(t)
    BY <1>6 DEF LoopVetoed
  <1>7. CASE StartStep(t)
    BY <1>7 DEF StartStep
  <1>8. CASE StreamReply(t)
    BY <1>8 DEF StreamReply
  <1>9. CASE StreamFails(t)
    BY <1>9 DEF StreamFails
  <1>10. CASE ToolReturns(t)
    BY <1>10 DEF ToolReturns
  <1>11. CASE ToolRaises(t)
    BY <1>11 DEF ToolRaises
  <1>12. CASE EndStep(t)
    BY <1>12 DEF EndStep
  <1>13. CASE EndStepRaises(t)
    BY <1>13 DEF EndStepRaises
  <1>14. CASE HandleError(t)
    BY <1>14 DEF HandleError
  <1>15. CASE EndTurn(t)
    BY <1>15 DEF EndTurn
  <1>16. CASE GateDenies(t)
    BY <1>16 DEF GateDenies
  <1>17. CASE GatePasses(t)
    BY <1>17 DEF GatePasses
  <1> QED
    BY <1>1, <1>2, <1>3, <1>4, <1>5, <1>6, <1>7, <1>8, <1>9,
       <1>10, <1>11, <1>12, <1>13, <1>14, <1>15, <1>16, <1>17 DEF TurnNext, Proceed

(* The effect of the helpers on the turn itself.                           *)
LEMMA Effects ==
  ASSUME TypeOK, NEW t \in Turns
  PROVE  /\ \A stage : Goto(t, stage) => pc'[t] = stage
         /\ \A event \in Events : Count(t, event) =>
              \A e \in Events :
                seen'[t][e] = IF e = event THEN seen[t][e] + 1 ELSE seen[t][e]
         /\ \A why : Abort(t, why) => aborted'[t] /\ reason'[t] = why
         /\ \A e \in Events : seen[t][e] \in Nat
         /\ steps[t] \in Nat /\ pc[t] \in Stages /\ reason[t] \in Reasons
         /\ aborted[t] \in BOOLEAN
  BY DEF TypeOK, Goto, Count, Abort

(* Each step of a turn preserves the turn's own invariant.                 *)
LEMMA OwnTurn ==
  ASSUME TypeOK, NEW t \in Turns, OneTurnInv(t), TurnNext(t)
  PROVE  OneTurnInv(t)'
  <1> USE Effects, TurnAssumption
      DEF OneTurnInv, AbortedInv, StepInv, EndInv, LogInv, ReasonInv, CallInv,
          InStep, BeforeEnd, Over, Finished, Stages, Events, Reasons, Emit
  <1>1. CASE StartTurn(t)
    BY <1>1 DEF StartTurn
  <1>2. CASE PreStepLog(t)
    BY <1>2 DEF PreStepLog
  <1>3. CASE PreStepVeto(t)
    BY <1>3 DEF PreStepVeto
  <1>4. CASE PreStepSocket(t)
    BY <1>4 DEF PreStepSocket
  <1>5. CASE PreStepDone(t)
    BY <1>5 DEF PreStepDone
  <1>6. CASE LoopVetoed(t)
    BY <1>6 DEF LoopVetoed
  <1>7. CASE StartStep(t)
    BY <1>7 DEF StartStep
  <1>8. CASE StreamReply(t)
    <2>1. CASE broken # {} /\ Goto(t, "handler") /\ UNCHANGED <<calls, aborted, reason>>
      BY <1>8, <2>1 DEF StreamReply
    <2>2. ASSUME NEW reply \in Replies, reply = <<>>,
                 Abort(t, "completed") /\ Goto(t, "step_end")
          PROVE  OneTurnInv(t)'
      BY <1>8, <2>2 DEF StreamReply
    <2>3. ASSUME NEW reply \in Replies, reply # <<>>,
                 calls' = [calls EXCEPT ![t] = reply],
                 UNCHANGED <<aborted, reason>> /\ Goto(t, "gate")
          PROVE  OneTurnInv(t)'
      <3>1. calls'[t] # <<>>
        BY <2>3 DEF TypeOK
      <3>2. QED  BY <1>8, <2>3, <3>1 DEF StreamReply
    <2>4. QED  BY <1>8, <2>1, <2>2, <2>3 DEF StreamReply
  <1>9. CASE StreamFails(t)
    BY <1>9 DEF StreamFails
  <1>10. CASE ToolReturns(t)
    <2>1. calls'[t] = Tail(calls[t])
      BY <1>10 DEF ToolReturns, TypeOK
    <2>2. /\ pc[t] = "tool" /\ UNCHANGED <<steps, aborted, reason>>
          /\ \A e \in Events \ {"tool/call"} : seen'[t][e] = seen[t][e]
      <3>1. pc[t] = "tool" /\ Count(t, "tool/call") /\ UNCHANGED <<steps, aborted, reason>>
        BY <1>10 DEF ToolReturns
      <3>2. \A e \in Events \ {"tool/call"} : seen'[t][e] = seen[t][e]
        BY <3>1
      <3>3. QED  BY <3>1, <3>2
    <2>3. \/ pc'[t] \in {"step_end", "handler"}
          \/ pc'[t] = "gate" /\ calls'[t] # <<>>
      <3>1. CASE Goto(t, IF Tail(calls[t]) = <<>> THEN "step_end" ELSE "gate")
        BY <2>1, <3>1
      <3>2. CASE Goto(t, "handler")
        BY <3>2
      <3>3. QED  BY <1>10, <3>1, <3>2 DEF ToolReturns
    <2>4. AbortedInv(t)' /\ StepInv(t)' /\ EndInv(t)' /\ ReasonInv(t)' /\ CallInv(t)'
      BY <2>2, <2>3
    <2>5. LogInv(t)'
      BY <2>2, <2>3
    <2>6. QED  BY <2>4, <2>5
  <1>11. CASE ToolRaises(t)
    BY <1>11 DEF ToolRaises
  <1>12. CASE EndStep(t)
    <2>1. steps'[t] = steps[t] + 1
      BY <1>12 DEF EndStep, TypeOK
    <2>2. CASE aborted[t]
      BY <1>12, <2>1, <2>2 DEF EndStep
    <2>3. CASE ~aborted[t] /\ AtLimit(steps[t] + 1)
      BY <1>12, <2>1, <2>3 DEF EndStep, AtLimit
    <2>4. CASE ~aborted[t] /\ ~AtLimit(steps[t] + 1)
      BY <1>12, <2>1, <2>4 DEF EndStep, AtLimit
    <2>5. QED  BY <2>2, <2>3, <2>4
  <1>13. CASE EndStepRaises(t)
    BY <1>13 DEF EndStepRaises
  <1>14. CASE HandleError(t)
    BY <1>14 DEF HandleError
  <1>15. CASE EndTurn(t)
    BY <1>15 DEF EndTurn
  <1>16. CASE GateDenies(t)
    BY <1>16 DEF GateDenies
  <1>17. CASE GatePasses(t)
    BY <1>17 DEF GatePasses
  <1> QED
    BY <1>1, <1>2, <1>3, <1>4, <1>5, <1>6, <1>7, <1>8, <1>9,
       <1>10, <1>11, <1>12, <1>13, <1>14, <1>15, <1>16, <1>17 DEF TurnNext, Proceed

-----------------------------------------------------------------------------
(* Registry, policy and what has run                                       *)

CapsInv == \A a \in Agents : caps[a] \subseteq AllowedTo(a)

(* Where the parts of two sequences put together are.                      *)
LEMMA HeadOfConcat ==
  ASSUME NEW S, NEW a \in Seq(S), NEW b \in Seq(S), NEW k \in 1..Len(a)
  PROVE  (a \o b)[k] = a[k]
  OBVIOUS

LEMMA TailOfConcat ==
  ASSUME NEW S, NEW a \in Seq(S), NEW b \in Seq(S), NEW k \in 1..Len(b)
  PROVE  (a \o b)[Len(a) + k] = b[k] /\ Len(a) + k \in DOMAIN (a \o b)
  OBVIOUS

LEMMA RangeOfConcat ==
  ASSUME NEW S, NEW a \in Seq(S), NEW b \in Seq(S)
  PROVE  Range(b) \subseteq Range(a \o b)
  <1>1. ASSUME NEW k \in DOMAIN b PROVE \E i \in DOMAIN (a \o b) : (a \o b)[i] = b[k]
    <2>1. k \in 1..Len(b)
      OBVIOUS
    <2> QED  BY <2>1, TailOfConcat
  <1> QED  BY <1>1 DEF Range

(* Two sequences after the same one are told apart by what they make of it *)
(* together.                                                               *)
LEMMA SameTail ==
  ASSUME NEW S, NEW a \in Seq(S), NEW b \in Seq(S), NEW c \in Seq(S), a \o b = a \o c
  PROVE  b = c
  <1>1. Len(b) = Len(c) /\ Len(b) \in Nat /\ Len(a) \in Nat
    <2>1. Len(a \o b) = Len(a) + Len(b) /\ Len(a \o c) = Len(a) + Len(c)
      OBVIOUS
    <2> QED  BY <2>1
  <1>2. ASSUME NEW k \in 1..Len(b) PROVE b[k] = c[k]
    <2>1. (a \o b)[Len(a) + k] = b[k] /\ (a \o c)[Len(a) + k] = c[k]
      BY <1>1
    <2> QED  BY <2>1
  <1> QED  BY <1>1, <1>2

(* A verified manifest's tools were signed for its agent, or straddle.     *)
LEMMA VerifiedAllowed ==
  ASSUME NEW m \in Manifests, VerifySignature(m)
  PROVE  Range(m.capabilities) \subseteq AllowedTo(m.agent)
  <1>1. PICK n \in Signed : Canonical(n) = Canonical(m)
    BY DEF VerifySignature
  <1>2. \A x \in {m, n} : x.agent \in Seq(Words) /\ x.capabilities \in Seq(Words)
    <2>1. Agents \subseteq Seq(Words) /\ Lists \subseteq Seq(Words)
      BY SignedAssumption
    <2> QED  BY <2>1, SignedAssumption DEF Manifests
  <1>3. CASE n.agent = m.agent
    <2>1. n.capabilities = m.capabilities
      BY <1>1, <1>2, <1>3, SameTail DEF Canonical
    <2> QED  BY <1>3, <2>1 DEF AllowedTo, SignedFor
  <1>4. CASE n.agent # m.agent
    <2>1. ~Apart(n.agent, m.agent)
      <3>1. ASSUME NEW k \in DOMAIN n.agent \intersect DOMAIN m.agent
            PROVE  n.agent[k] = m.agent[k]
        <4>1. k \in 1..Len(n.agent) /\ k \in 1..Len(m.agent)
          BY <1>2
        <4>2. Canonical(n)[k] = n.agent[k]
          BY <1>2, <4>1, HeadOfConcat DEF Canonical
        <4>3. Canonical(m)[k] = m.agent[k]
          BY <1>2, <4>1, HeadOfConcat DEF Canonical
        <4> QED  BY <1>1, <4>2, <4>3
      <3> QED  BY <3>1 DEF Apart
    <2>2. Range(m.capabilities) \subseteq Range(Canonical(m))
      <3>1. m.agent \in Seq(Words) /\ m.capabilities \in Seq(Words)
        BY <1>2
      <3> QED  BY <3>1, RangeOfConcat DEF Canonical
    <2> QED  BY <1>1, <1>4, <2>1, <2>2 DEF AllowedTo, Straddling
  <1> QED  BY <1>3, <1>4

(* Only a signed manifest adds to an agent's capabilities.                 *)
LEMMA PolicyStep ==
  ASSUME PolicyTypeOK, CapsInv, PolicyNext
  PROVE  PolicyTypeOK' /\ CapsInv'
  <1> USE DEF PolicyTypeOK, CapsInv
  <1>1. ASSUME NEW m \in Manifests, Register(m)
        PROVE  PolicyTypeOK' /\ CapsInv'
    <2>1. m.agent \in Agents /\ Range(m.capabilities) \subseteq Tools
      BY SignedAssumption DEF Manifests, Range
    <2>2. PolicyTypeOK'
      BY <1>1, <2>1 DEF Register
    <2>3. Range(m.capabilities) \subseteq AllowedTo(m.agent)
      BY <1>1, VerifiedAllowed DEF Register
    <2>4. ASSUME NEW a \in Agents PROVE caps'[a] \subseteq AllowedTo(a)
      <3>1. caps'[a] = IF a = m.agent THEN caps[a] \union Range(m.capabilities) ELSE caps[a]
        BY <1>1, <2>1 DEF Register
      <3>2. caps[a] \subseteq AllowedTo(a)
        BY DEF CapsInv
      <3> QED  BY <2>3, <3>1, <3>2
    <2> QED  BY <2>2, <2>4
  <1>2. ASSUME NEW a \in Agents, Unregister(a)
        PROVE  PolicyTypeOK' /\ CapsInv'
    BY <1>2 DEF Unregister
  <1>3. ASSUME NEW a \in Agents, NEW tool \in Tools, Revoke(a, tool)
        PROVE  PolicyTypeOK' /\ CapsInv'
    BY <1>3 DEF Revoke
  <1> QED  BY <1>1, <1>2, <1>3 DEF PolicyNext

(* What a turn dispatches passed the gate, so it was granted.              *)
LEMMA TurnRunsGranted ==
  ASSUME TypeOK, CapsInv, RanOnlySigned, NEW t \in Turns, TurnNext(t)
  PROVE  CapsInv' /\ RanOnlySigned'
  <1>1. CapsInv'
    BY DEF TurnNext, policyVars, CapsInv, AllowedTo
  <1>2. ASSUME NEW u \in Turns PROVE ran'[u] \subseteq AllowedTo(AgentOf[u])
    <2>1. ran[u] \subseteq AllowedTo(AgentOf[u])
      BY DEF RanOnlySigned, AllowedTo
    <2>2. CASE GatePasses(t)
      <3>1. AgentOf[t] \in Agents
        BY TurnAssumption
      <3>2. Head(calls[t]) \in AllowedTo(AgentOf[t])
        BY <2>2, <3>1 DEF GatePasses, Allowed, CapsInv
      <3>3. ran'[u] = IF u = t THEN ran[u] \union {Head(calls[t])} ELSE ran[u]
        BY <2>2 DEF GatePasses, TypeOK
      <3> QED  BY <2>1, <3>2, <3>3
    <2>3. CASE ~GatePasses(t)
      <3>1. UNCHANGED ran
        BY <2>3
        DEF TurnNext, Proceed, StartTurn, PreStepLog, PreStepVeto, PreStepSocket,
            PreStepDone, LoopVetoed, StartStep, StreamReply, StreamFails,
            ToolReturns, ToolRaises, EndStep, EndStepRaises, HandleError, EndTurn,
            GateDenies
      <3> QED  BY <2>1, <3>1
    <2> QED  BY <2>2, <2>3
  <1> QED  BY <1>1, <1>2 DEF RanOnlySigned, AllowedTo

-----------------------------------------------------------------------------
(* The inductive invariant                                                 *)

(* The inductive invariant holds before anything has happened.             *)
LEMMA InvInit == Init => IInv
  <1> SUFFICES ASSUME Init PROVE IInv
    OBVIOUS
  <1>1. TypeOK
    BY InitTyped
  <1>2. ASSUME NEW t \in Turns PROVE OneTurnInv(t)
    BY TurnAssumption
    DEF Init, OneTurnInv, AbortedInv, StepInv, EndInv, LogInv, ReasonInv, CallInv,
        InStep, BeforeEnd, Over, Finished, Events
  <1>3. PolicyInv
    BY TurnAssumption DEF Init, PolicyInit, PolicyInv, RanOnlySigned
  <1> QED  BY <1>1, <1>2, <1>3 DEF IInv, TurnInv

(* A step that leaves the turns alone leaves their invariant alone.        *)
LEMMA TurnsUntouched ==
  ASSUME TurnInv, UNCHANGED turnVars
  PROVE  TurnInv'
  BY DEF TurnInv, turnVars, OneTurnInv, AbortedInv, StepInv, EndInv, LogInv,
         ReasonInv, CallInv

(* Every step keeps it: a turn's, a socket's, the policy's, the clock's.   *)
LEMMA InvStep == IInv /\ [Next]_vars => IInv'
  <1> SUFFICES ASSUME IInv, [Next]_vars PROVE IInv'
    OBVIOUS
  <1> USE DEF IInv, PolicyInv
  <1>p. CapsInv
    BY DEF CapsInv
  <1>1. ASSUME NEW t \in Turns, TurnNext(t) PROVE IInv'
    <2>1. TypeOK'
      BY <1>1, TurnTyped DEF TurnInv, OneTurnInv
    <2>2. ASSUME NEW u \in Turns, u # t PROVE OneTurnInv(u)'
      <3>1. UNCHANGED TurnState(u) /\ OneTurnInv(u)
        BY <1>1, <2>2, OthersUntouched DEF TurnInv
      <3> QED
        BY <3>1 DEF TurnState, OneTurnInv, AbortedInv, StepInv, EndInv, LogInv,
                    ReasonInv, CallInv
    <2>3. OneTurnInv(t)'
      BY <1>1, OwnTurn DEF TurnInv
    <2>4. CapsInv' /\ RanOnlySigned'
      BY <1>1, <1>p, TurnRunsGranted
    <2> QED  BY <2>1, <2>2, <2>3, <2>4 DEF TurnInv, CapsInv
  <1>2. CASE SocketNext /\ UNCHANGED <<turnVars, tokens, policyVars>>
    <2>1. TypeOK'
      BY <1>2 DEF SocketNext, Connect, Break, Disconnect, TypeOK, turnVars, policyVars,
                  PolicyTypeOK, Limiter!BucketTypeOK
    <2>2. TurnInv'
      BY <1>2, TurnsUntouched
    <2>3. PolicyInv'
      BY <1>2 DEF turnVars, policyVars, RanOnlySigned, AllowedTo
    <2> QED  BY <2>1, <2>2, <2>3
  <1>3. CASE PolicyNext /\ UNCHANGED <<turnVars, busVars, tokens>>
    <2>1. PolicyTypeOK' /\ CapsInv'
      BY <1>3, <1>p, PolicyStep DEF TypeOK
    <2>2. TypeOK'
      <3>1. Limiter!BucketTypeOK'
        BY <1>3 DEF TypeOK, Limiter!BucketTypeOK
      <3>2. QED  BY <1>3, <2>1, <3>1 DEF TypeOK, turnVars, busVars
    <2>3. TurnInv'
      BY <1>3, TurnsUntouched
    <2>4. RanOnlySigned'
      BY <1>3 DEF turnVars, RanOnlySigned, AllowedTo
    <2> QED  BY <2>1, <2>2, <2>3, <2>4 DEF CapsInv
  <1>4. CASE Limiter!BucketNext /\ UNCHANGED <<turnVars, busVars, policyVars>>
    <2>1. Limiter!BucketTypeOK'
      <3> USE TurnAssumption DEF Limiter!BucketTypeOK
      <3>1. Limiter!BucketTypeOK
        BY DEF TypeOK
      <3>2. ASSUME NEW a \in Agents, Limiter!Refill(a) PROVE Limiter!BucketTypeOK'
        <4>1. tokens[a] + 1 \in 0..Burst
          BY <3>1, <3>2 DEF Limiter!Refill
        <4> QED  BY <3>1, <3>2, <4>1 DEF Limiter!Refill
      <3>3. ASSUME NEW a \in Agents, Limiter!SetRate(a) PROVE Limiter!BucketTypeOK'
        BY <3>1, <3>3 DEF Limiter!SetRate
      <3> QED  BY <1>4, <3>2, <3>3 DEF Limiter!BucketNext
    <2>2. TypeOK'
      BY <1>4, <2>1 DEF TypeOK, turnVars, busVars, policyVars, PolicyTypeOK
    <2>3. TurnInv'
      BY <1>4, TurnsUntouched
    <2>4. PolicyInv'
      BY <1>4 DEF turnVars, policyVars, RanOnlySigned, AllowedTo
    <2> QED  BY <2>2, <2>3, <2>4
  <1>5. CASE UNCHANGED vars
    <2>1. TypeOK'
      BY <1>5 DEF TypeOK, vars, turnVars, busVars, policyVars, PolicyTypeOK,
                  Limiter!BucketTypeOK
    <2>2. TurnInv'
      BY <1>5, TurnsUntouched DEF vars
    <2>3. PolicyInv'
      BY <1>5 DEF vars, turnVars, policyVars, RanOnlySigned, AllowedTo
    <2> QED  BY <2>1, <2>2, <2>3
  <1> QED  BY <1>1, <1>2, <1>3, <1>4, <1>5 DEF Next

(* The invariant holds throughout.                                         *)
THEOREM Invariance == Spec => []IInv
  BY InvInit, InvStep, PTL DEF Spec

(* No variable ever leaves its type, for any number of turns.              *)
THEOREM TypeCorrect == Spec => []TypeOK
  BY Invariance, PTL DEF IInv

(* The circuit breaker holds for every step limit and any interleaving.    *)
THEOREM StepBudgetHolds == Spec => []StepBudget
  <1>1. IInv => StepBudget
    BY DEF IInv, TurnInv, OneTurnInv, StepInv, EndInv, StepBudget, Over, Finished
  <1>2. QED  BY <1>1, Invariance, PTL

(* turn/end is announced once, at the end.                                 *)
THEOREM EndAnnouncedOnceHolds == Spec => []EndAnnouncedOnce
  <1>1. ASSUME IInv, NEW t \in Turns
        PROVE  /\ seen[t]["turn/end"] = 1 => pc[t] \in Finished
               /\ seen[t]["turn/end"] <= 1
               /\ pc[t] \in {"returned", "limit"} => seen[t]["turn/end"] = 1
    <2>1. EndInv(t) /\ pc[t] \in Stages
      BY <1>1 DEF IInv, TurnInv, OneTurnInv, TypeOK
    <2>2. QED  BY <2>1 DEF EndInv, Stages, BeforeEnd, InStep, Finished
  <1>2. IInv => EndAnnouncedOnce
    BY <1>1 DEF EndAnnouncedOnce
  <1>3. QED  BY <1>2, Invariance, PTL

(* The session log accounts for every step.                                *)
THEOREM LogMatchesStepsHolds == Spec => []LogMatchesSteps
  <1>1. ASSUME IInv, NEW t \in Turns
        PROVE  LET surplus == seen[t]["step/end"] - steps[t]
                   unended == seen[t]["step/start"] - seen[t]["step/end"]
               IN  /\ surplus \in {0, 1}
                   /\ surplus = 1 => pc[t] = "handler" \/ seen[t]["llm/error"] = 1
                   /\ unended \in {0, 1}
                   /\ pc[t] \in {"returned", "limit"} /\ unended = 1 =>
                        seen[t]["llm/error"] = 1
    <2>1. LogInv(t) /\ pc[t] \in Stages /\ steps[t] \in Nat
      BY <1>1 DEF IInv, TurnInv, OneTurnInv, TypeOK
    <2>2. seen[t]["step/end"] \in Nat /\ seen[t]["step/start"] \in Nat
      BY <1>1 DEF IInv, TypeOK, Events
    <2>3. QED
      BY <2>1, <2>2 DEF LogInv, Stages, BeforeEnd, InStep, Over, Finished
  <1>2. IInv => LogMatchesSteps
    BY <1>1 DEF LogMatchesSteps
  <1>3. QED  BY <1>2, Invariance, PTL

(* The reason a turn reports is what happened to it.                       *)
THEOREM ReasonTruthfulHolds == Spec => []ReasonTruthful
  <1>1. IInv => ReasonTruthful
    BY DEF IInv, TurnInv, OneTurnInv, ReasonInv, ReasonTruthful
  <1>2. QED  BY <1>1, Invariance, PTL

(* Nothing runs that no signed manifest allows, whatever is registered,    *)
(* unregistered and revoked meanwhile: none of the agent's own, and, where *)
(* its id and another are cut at a separator, none of that one's.          *)
THEOREM RanOnlySignedHolds == Spec => []RanOnlySigned
  BY Invariance, PTL DEF IInv, PolicyInv

(* Where no agent id holds a separator, nothing runs that no manifest      *)
(* signed for that very agent names.                                       *)
THEOREM PlainIdsRunOnlyTheirOwn ==
  ASSUME \A a \in Agents : Len(a) = 1
  PROVE  Spec => [](\A t \in Turns : ran[t] \subseteq SignedFor(AgentOf[t]))
  <1>1. ASSUME NEW a \in Agents PROVE Straddling(a) = {}
    <2> SUFFICES ASSUME NEW n \in Signed, n.agent # a PROVE Apart(n.agent, a)
      BY DEF Straddling
    <2>1. n.agent \in Agents
      BY SignedAssumption DEF Manifests
    <2>2. a \in Seq(Words) /\ n.agent \in Seq(Words) /\ Len(a) = 1 /\ Len(n.agent) = 1
      BY <2>1, SignedAssumption
    <2>3. DOMAIN a = {1} /\ DOMAIN n.agent = {1} /\ n.agent[1] # a[1]
      BY <2>2
    <2> QED  BY <2>3 DEF Apart
  <1>2. IInv => \A t \in Turns : ran[t] \subseteq SignedFor(AgentOf[t])
    BY <1>1, TurnAssumption DEF IInv, PolicyInv, RanOnlySigned
  <1> QED  BY Invariance, <1>2, PTL
-----------------------------------------------------------------------------
(* After an abort                                                          *)

Rests(t) ==
  /\ aborted'[t] /\ reason'[t] = reason[t] /\ ran'[t] = ran[t]
  /\ \A e \in {"step/start", "tool/call", "tool/error"} : seen'[t][e] = seen[t][e]

(* Of an aborted turn only the way out is left.                            *)
LEMMA AbortedTurnRests ==
  ASSUME TypeOK, NEW t \in Turns, OneTurnInv(t), aborted[t], TurnNext(t)
  PROVE  Rests(t)
  <1>1. pc[t] \in {"loop", "step_end", "handler", "turn_end", "returned", "limit", "raised"}
    BY DEF OneTurnInv, AbortedInv, Over, Finished
  <1> USE <1>1, Effects DEF Rests, Events
  <1>2. CASE LoopVetoed(t)
    BY <1>2 DEF LoopVetoed
  <1>3. CASE EndStep(t)
    BY <1>3 DEF EndStep
  <1>4. CASE EndStepRaises(t)
    BY <1>4 DEF EndStepRaises
  <1>5. CASE HandleError(t)
    BY <1>5 DEF HandleError
  <1>6. CASE EndTurn(t)
    BY <1>6 DEF EndTurn, Emit
  <1>7. QED
    BY <1>2, <1>3, <1>4, <1>5, <1>6
    DEF TurnNext, Proceed, StartTurn, PreStepLog, PreStepVeto, PreStepSocket,
        PreStepDone, StartStep, StreamReply, StreamFails, ToolReturns, ToolRaises,
        GateDenies, GatePasses

(* Once aborted, a turn starts no step, dispatches no tool, reports no     *)
(* result and keeps its reason.                                            *)
THEOREM NoWorkAfterAbortHolds == Spec => NoWorkAfterAbort
  <1>1. ASSUME IInv, [Next]_vars, NEW u \in Turns, aborted[u], ~UNCHANGED vars
        PROVE  Rests(u)
    <2>1. ASSUME NEW t \in Turns, TurnNext(t) PROVE Rests(u)
      <3>1. CASE u = t
        BY <1>1, <2>1, <3>1, AbortedTurnRests DEF IInv, TurnInv
      <3>2. CASE u # t
        <4>1. UNCHANGED TurnState(u)
          BY <1>1, <2>1, <3>2, OthersUntouched DEF IInv
        <4>2. QED  BY <1>1, <4>1 DEF TurnState, Rests
      <3>3. QED  BY <3>1, <3>2
    <2>2. CASE UNCHANGED turnVars
      BY <1>1, <2>2 DEF turnVars, Rests
    <2>3. QED  BY <1>1, <2>1, <2>2 DEF Next
  <1>2. IInv /\ [Next]_vars =>
          [\A t \in Turns : aborted[t] =>
             /\ aborted'[t] /\ reason'[t] = reason[t] /\ ran'[t] = ran[t]
             /\ \A e \in {"step/start", "tool/call", "tool/error"} :
                  seen'[t][e] = seen[t][e]]_vars
    BY <1>1 DEF Rests
  <1>3. QED  BY <1>2, Invariance, PTL DEF Spec, NoWorkAfterAbort

-----------------------------------------------------------------------------
(* The driver implements the turn contract                                 *)

(* A step of a turn changes the contract's view of that turn only.         *)
LEMMA OnlyOwnView ==
  ASSUME TypeOK, NEW t \in Turns, TurnNext(t)
  PROVE  /\ ContractStages' = [ContractStages EXCEPT ![t] = ContractStage(t)']
         /\ ContractVerdicts' = [ContractVerdicts EXCEPT ![t] = ContractVerdict(t)']
         /\ steps' = [steps EXCEPT ![t] = steps'[t]]
  <1>1. ASSUME NEW u \in Turns, u # t
        PROVE  /\ ContractStage(u)' = ContractStage(u)
               /\ ContractVerdict(u)' = ContractVerdict(u)
               /\ steps'[u] = steps[u]
    <2>1. UNCHANGED TurnState(u)
      BY <1>1, OthersUntouched
    <2>2. QED  BY <2>1 DEF TurnState, ContractStage, ContractVerdict
  <1>2. steps' \in [Turns -> Nat] /\ steps \in [Turns -> Nat]
    <2>1. CASE EndStep(t)
      BY <2>1 DEF EndStep, TypeOK
    <2>2. CASE ~EndStep(t)
      BY <2>2
      DEF TypeOK, TurnNext, Proceed, StartTurn, PreStepLog, PreStepVeto, PreStepSocket,
          PreStepDone, LoopVetoed, StartStep, StreamReply, StreamFails,
          ToolReturns, ToolRaises, EndStepRaises, HandleError, EndTurn,
          GateDenies, GatePasses
    <2>3. QED  BY <2>1, <2>2
  <1>3. QED  BY <1>1, <1>2 DEF ContractStages, ContractVerdicts

(* How one turn's step looks to the contract.                              *)
Moves(t, from, to) == ContractStage(t) = from /\ ContractStage(t)' = to

Undecided(t) == ContractVerdict(t) = "none" /\ ContractVerdict(t)' = "none"

SameView(t) == /\ ContractStage(t)' = ContractStage(t)
               /\ ContractVerdict(t)' = ContractVerdict(t)
               /\ steps'[t] = steps[t]

DecidedAs(t, v) == /\ v \in C!Verdicts
                   /\ ContractVerdict(t) = "none" /\ ContractVerdict(t)' = v

View(t) ==
  \/ SameView(t)
  \/ Moves(t, "new", "open") /\ Undecided(t) /\ steps'[t] = steps[t]
  \/ Moves(t, "open", "step") /\ Undecided(t) /\ steps'[t] = steps[t] /\ steps[t] < MaxSteps
  \/ Moves(t, "step", "open") /\ Undecided(t)
       /\ steps'[t] = steps[t] + 1 /\ steps'[t] < MaxSteps
  \/ \E v \in C!Verdicts \ {"llm_error"} :
       /\ Moves(t, "step", "decided") /\ DecidedAs(t, v) /\ steps'[t] = steps[t] + 1
       /\ v = "max_steps_exceeded" => steps'[t] = MaxSteps
  \/ \E v \in C!Verdicts \ {"max_steps_exceeded"} :
       Moves(t, "step", "decided") /\ DecidedAs(t, v) /\ steps'[t] = steps[t]
  \/ /\ Moves(t, "open", "decided") /\ DecidedAs(t, "completed")
     /\ steps[t] = 0 /\ steps'[t] = steps[t]
  \/ /\ Moves(t, "decided", "closed") /\ steps'[t] = steps[t]
     /\ ContractVerdict(t)' = ContractVerdict(t)
  \/ /\ \/ ContractStage(t) \in {"new", "decided"}
        \/ ContractStage(t) = "open" /\ steps[t] = 0
     /\ ContractStage(t)' = "escaped" /\ steps'[t] = steps[t]
     /\ ContractVerdict(t)' = ContractVerdict(t)

(* An exception in a step breaks it off, with the reason the handler leaves. *)
LEMMA HandlerViewed ==
  ASSUME TypeOK, NEW t \in Turns, OneTurnInv(t), HandleError(t)
  PROVE  View(t)
  <1>1. pc[t] = "handler" /\ pc'[t] = "turn_end" /\ steps'[t] = steps[t]
    BY DEF HandleError, Goto, TypeOK
  <1>2. Moves(t, "step", "decided")
    BY <1>1 DEF Moves, ContractStage
  <1>3. ContractVerdict(t) = "none" /\ ContractVerdict(t)' = reason'[t]
    BY <1>1 DEF ContractVerdict
  <1>4. reason'[t] \in C!Verdicts \ {"max_steps_exceeded"}
    <2>1. reason[t] \in Reasons \ {"max_steps_exceeded"}
      BY <1>1 DEF TypeOK, OneTurnInv, StepInv, Over, Finished
    <2>2. Abort(t, "llm_error") => reason'[t] = "llm_error"
      BY Effects
    <2>3. QED  BY <2>1, <2>2 DEF HandleError, Reasons, C!Verdicts
  <1>5. DecidedAs(t, reason'[t])
    BY <1>3, <1>4 DEF DecidedAs
  <1>6. QED  BY <1>1, <1>2, <1>4, <1>5 DEF View

(* Each step of a turn is a move of the contract or none at all.           *)
LEMMA TurnViewed ==
  ASSUME TypeOK, NEW t \in Turns, OneTurnInv(t), TurnNext(t)
  PROVE  View(t)
  <1> USE Effects, TurnAssumption
      DEF OneTurnInv, AbortedInv, StepInv, EndInv, ReasonInv,
          InStep, BeforeEnd, Over, Finished, Stages, Events, Reasons, Emit,
          ContractStage, ContractVerdict, View, Moves, Undecided, SameView,
          DecidedAs, C!Verdicts
  <1>1. CASE StartTurn(t)
    BY <1>1 DEF StartTurn
  <1>2. CASE PreStepLog(t)
    BY <1>2 DEF PreStepLog
  <1>3. CASE PreStepVeto(t)
    BY <1>3 DEF PreStepVeto
  <1>4. CASE PreStepSocket(t)
    BY <1>4 DEF PreStepSocket
  <1>5. CASE PreStepDone(t)
    BY <1>5 DEF PreStepDone
  <1>6. CASE LoopVetoed(t)
    BY <1>6 DEF LoopVetoed
  <1>7. CASE StartStep(t)
    BY <1>7 DEF StartStep
  <1>8. CASE StreamReply(t)
    BY <1>8 DEF StreamReply
  <1>9. CASE StreamFails(t)
    BY <1>9 DEF StreamFails
  <1>10. CASE ToolReturns(t)
    BY <1>10 DEF ToolReturns
  <1>11. CASE ToolRaises(t)
    BY <1>11 DEF ToolRaises
  <1>12. CASE EndStep(t)
    <2>1. steps'[t] = steps[t] + 1 /\ ContractVerdict(t) = "none"
      BY <1>12 DEF EndStep, TypeOK
    <2>2. CASE aborted[t]
      <3>1. /\ Moves(t, "step", "decided") /\ ContractVerdict(t)' = reason[t]
            /\ reason[t] \in C!Verdicts \ {"llm_error", "max_steps_exceeded"}
        BY <1>12, <2>2 DEF EndStep
      <3>2. QED  BY <2>1, <3>1
    <2>3. CASE ~aborted[t] /\ AtLimit(steps[t] + 1)
      <3>1. /\ Moves(t, "step", "decided")
            /\ ContractVerdict(t)' = "max_steps_exceeded"
            /\ steps'[t] = MaxSteps
        BY <1>12, <2>1, <2>3 DEF EndStep, AtLimit
      <3>2. QED  BY <2>1, <3>1
    <2>4. CASE ~aborted[t] /\ ~AtLimit(steps[t] + 1)
      BY <1>12, <2>1, <2>4 DEF EndStep, AtLimit
    <2>5. QED  BY <2>2, <2>3, <2>4
  <1>13. CASE EndStepRaises(t)
    BY <1>13 DEF EndStepRaises
  <1>14. CASE HandleError(t)
    BY <1>14, HandlerViewed
  <1>15. CASE EndTurn(t)
    BY <1>15 DEF EndTurn
  <1>16. CASE GateDenies(t)
    BY <1>16 DEF GateDenies
  <1>17. CASE GatePasses(t)
    BY <1>17 DEF GatePasses
  <1> QED
    BY <1>1, <1>2, <1>3, <1>4, <1>5, <1>6, <1>7, <1>8, <1>9,
       <1>10, <1>11, <1>12, <1>13, <1>14, <1>15, <1>16, <1>17 DEF TurnNext, Proceed

(* What the views are to the contract's actions.                           *)
LEMMA ViewIsContractStep ==
  ASSUME TypeOK, NEW t \in Turns, TurnNext(t), View(t)
  PROVE  [C!ContractNext]_C!contractVars
  <1>1. /\ ContractStages' = [ContractStages EXCEPT ![t] = ContractStage(t)']
        /\ ContractVerdicts' = [ContractVerdicts EXCEPT ![t] = ContractVerdict(t)']
        /\ steps' = [steps EXCEPT ![t] = steps'[t]]
    BY OnlyOwnView
  <1>2. /\ ContractStages[t] = ContractStage(t)
        /\ ContractVerdicts[t] = ContractVerdict(t)
    BY DEF ContractStages, ContractVerdicts
  <1>3. steps'[t] = steps[t] => UNCHANGED steps
    BY <1>1 DEF TypeOK
  <1>4. ContractVerdict(t)' = ContractVerdict(t) => UNCHANGED ContractVerdicts
    BY <1>1, <1>2 DEF ContractVerdicts
  <1>5. ContractStage(t)' = ContractStage(t) => UNCHANGED ContractStages
    BY <1>1, <1>2 DEF ContractStages
  <1>6. \A from, to : Moves(t, from, to) => C!Move(t, from, to)
    BY <1>1, <1>2 DEF Moves, C!Move
  <1>7. \A v : DecidedAs(t, v) => C!Decide(t, v)
    BY <1>1, <1>2 DEF DecidedAs, C!Decide
  <1>8. Undecided(t) => UNCHANGED ContractVerdicts
    BY <1>4 DEF Undecided
  <1>9. steps'[t] = steps[t] + 1 => steps' = [steps EXCEPT ![t] = @ + 1]
    BY <1>1
  <1> USE <1>3, <1>6, <1>7, <1>8, <1>9 DEF C!ContractNext
  <1>10. CASE SameView(t)
    BY <1>4, <1>5, <1>10 DEF SameView, C!contractVars
  <1>11. CASE Moves(t, "new", "open") /\ Undecided(t) /\ steps'[t] = steps[t]
    BY <1>11 DEF C!Open
  <1>12. CASE /\ Moves(t, "open", "step") /\ Undecided(t)
              /\ steps'[t] = steps[t] /\ steps[t] < MaxSteps
    BY <1>12 DEF C!BeginStep
  <1>13. CASE /\ Moves(t, "step", "open") /\ Undecided(t)
              /\ steps'[t] = steps[t] + 1 /\ steps'[t] < MaxSteps
    BY <1>13 DEF C!Continue
  <1>14. ASSUME NEW v \in C!Verdicts \ {"llm_error"},
                Moves(t, "step", "decided"), DecidedAs(t, v),
                steps'[t] = steps[t] + 1,
                v = "max_steps_exceeded" => steps'[t] = MaxSteps
         PROVE  C!ContractNext
    <2>1. C!Settle(t, v)
      BY <1>14 DEF C!Settle
    <2>2. QED  BY <2>1
  <1>15. ASSUME NEW v \in C!Verdicts \ {"max_steps_exceeded"},
                Moves(t, "step", "decided"), DecidedAs(t, v), steps'[t] = steps[t]
         PROVE  C!ContractNext
    <2>1. C!BreakOff(t, v)
      BY <1>15 DEF C!BreakOff
    <2>2. QED  BY <2>1
  <1>16. CASE /\ Moves(t, "open", "decided") /\ DecidedAs(t, "completed")
              /\ steps[t] = 0 /\ steps'[t] = steps[t]
    BY <1>16 DEF C!CallOff
  <1>17. CASE /\ Moves(t, "decided", "closed") /\ steps'[t] = steps[t]
              /\ ContractVerdict(t)' = ContractVerdict(t)
    BY <1>4, <1>17 DEF C!Close
  <1>18. CASE /\ \/ ContractStage(t) \in {"new", "decided"}
                 \/ ContractStage(t) = "open" /\ steps[t] = 0
              /\ ContractStage(t)' = "escaped" /\ steps'[t] = steps[t]
              /\ ContractVerdict(t)' = ContractVerdict(t)
    BY <1>1, <1>2, <1>4, <1>18 DEF C!Escape
  <1>19. QED
    BY <1>10, <1>11, <1>12, <1>13, <1>14, <1>15, <1>16, <1>17, <1>18 DEF View

(* Every turn keeps the turn contract: it opens, takes at most MaxSteps    *)
(* steps, is decided once with a fitting verdict, and is closed by         *)
(* turn/end, or an exception escapes before its first step or at its end.  *)
THEOREM KeepsContractHolds == Spec => KeepsContract
  <1>1. Init => C!ContractInit
    BY DEF Init, C!ContractInit, ContractStages, ContractVerdicts, ContractStage,
           ContractVerdict
  <1>2. IInv /\ [Next]_vars => [C!ContractNext]_C!contractVars
    <2> SUFFICES ASSUME IInv, [Next]_vars PROVE [C!ContractNext]_C!contractVars
      OBVIOUS
    <2>1. ASSUME NEW t \in Turns, TurnNext(t) PROVE [C!ContractNext]_C!contractVars
      BY <2>1, TurnViewed, ViewIsContractStep DEF IInv, TurnInv
    <2>2. CASE UNCHANGED turnVars
      BY <2>2 DEF turnVars, C!contractVars, ContractStages, ContractVerdicts,
                  ContractStage, ContractVerdict
    <2>3. QED  BY <2>1, <2>2 DEF Next, vars
  <1>3. QED  BY <1>1, <1>2, Invariance, PTL DEF Spec, KeepsContract, C!Contract
=============================================================================

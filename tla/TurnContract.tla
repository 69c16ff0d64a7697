----------------------------- MODULE TurnContract -----------------------------
(***************************************************************************)
(* What one agent turn promises, whatever is listening on the bus: it      *)
(* opens, takes at most MaxSteps steps one after another, is decided once, *)
(* with a verdict that fits the steps it took, and is then closed by       *)
(* turn/end.  The one other way out is an exception that escapes from the  *)
(* call before its first step or while it announces its end.               *)
(***************************************************************************)
EXTENDS Integers

CONSTANTS Turns, MaxSteps

VARIABLES stage,     \* new, open, step, decided, closed or escaped
          taken,     \* completed steps
          verdict    \* why the turn ended, "none" until it is decided

contractVars == <<stage, taken, verdict>>

Verdicts == {"completed", "max_steps_exceeded", "tool_error",
             "policy_denied", "llm_error"}

ContractTypeOK ==
  /\ stage \in [Turns -> {"new", "open", "step", "decided", "closed", "escaped"}]
  /\ taken \in [Turns -> 0..MaxSteps]
  /\ verdict \in [Turns -> Verdicts \union {"none"}]

ContractInit ==
  /\ stage = [t \in Turns |-> "new"]
  /\ taken = [t \in Turns |-> 0]
  /\ verdict = [t \in Turns |-> "none"]

Move(t, from, to) == stage[t] = from /\ stage' = [stage EXCEPT ![t] = to]

Decide(t, v) ==
  /\ verdict[t] = "none"
  /\ verdict' = [verdict EXCEPT ![t] = v]

Open(t) == Move(t, "new", "open") /\ UNCHANGED <<taken, verdict>>

BeginStep(t) ==
  /\ taken[t] < MaxSteps
  /\ Move(t, "open", "step")
  /\ UNCHANGED <<taken, verdict>>

(* A step completes and the turn goes on: there must be room for another.  *)
Continue(t) ==
  /\ Move(t, "step", "open")
  /\ taken' = [taken EXCEPT ![t] = @ + 1]
  /\ taken'[t] < MaxSteps
  /\ UNCHANGED verdict

(* A step completes and settles the turn.                                  *)
Settle(t, v) ==
  /\ Move(t, "step", "decided")
  /\ Decide(t, v)
  /\ taken' = [taken EXCEPT ![t] = @ + 1]
  /\ v # "llm_error"
  /\ v = "max_steps_exceeded" => taken'[t] = MaxSteps

(* A step breaks off; it does not count.                                   *)
BreakOff(t, v) ==
  /\ Move(t, "step", "decided")
  /\ Decide(t, v)
  /\ v # "max_steps_exceeded"
  /\ UNCHANGED taken

(* A pre-step listener called the turn off.                                *)
CallOff(t) ==
  /\ taken[t] = 0
  /\ Move(t, "open", "decided")
  /\ Decide(t, "completed")
  /\ UNCHANGED taken

Close(t) == Move(t, "decided", "closed") /\ UNCHANGED <<taken, verdict>>

Escape(t) ==
  /\ \/ stage[t] \in {"new", "decided"}
     \/ stage[t] = "open" /\ taken[t] = 0
  /\ stage' = [stage EXCEPT ![t] = "escaped"]
  /\ UNCHANGED <<taken, verdict>>

ContractNext ==
  \E t \in Turns :
    \/ Open(t) \/ BeginStep(t) \/ Continue(t) \/ CallOff(t)
    \/ \E v \in Verdicts : Settle(t, v) \/ BreakOff(t, v)
    \/ Close(t) \/ Escape(t)

Contract == ContractInit /\ [][ContractNext]_contractVars
=============================================================================

---------------------------- MODULE ChatTurn_proofs ----------------------------
(***************************************************************************)
(* The chat turns of C1 and the provider calls that answer them, for any   *)
(* number of turns and sessions, attempts and chunks.                      *)
(***************************************************************************)
EXTENDS ChatTurn, TLAPS

(* What a call's stage says of its attempts.                               *)
AttemptsOK(c) ==
  /\ stage[c] \in {"unused", "key"} => attempt[c] = 0
  /\ stage[c] \in {"request", "answer", "finished", "backoff"} => attempt[c] > 0
  /\ stage[c] = "backoff" => attempt[c] < MaxAttempts
  /\ stage[c] = "failed" =>
       /\ cause[c] = "transient" => attempt[c] = MaxAttempts
       /\ cause[c] = "no_key" <=> attempt[c] = 0
  /\ stage[c] # "failed" => met[c] \subseteq {"transient"}
  /\ met[c] \ {"transient"} # {} => met[c] \ {"transient"} = {cause[c]}

(* What a turn's handler says of its call: in particular a turn that has   *)
(* not begun has not called the provider yet.                              *)
HandlerOK(c) ==
  /\ handler[c] \in {"waiting", "not_found"} => stage[c] = "unused"
  /\ handler[c] = "streaming" => stage[c] \in {"key", "request", "answer", "finished", "backoff"}
  /\ handler[c] = "done" => stage[c] \in {"ended", "closed"}
  /\ handler[c] = "error" => stage[c] \in {"unused", "ended", "closed", "failed"}

TypeInv == TypeOK /\ \A c \in Calls : AttemptsOK(c) /\ HandlerOK(c)

LEMMA InitTypes == Init => TypeInv
  BY ChatAssumption, ProviderAssumption
  DEF Init, ProviderInit, TypeInv, TypeOK, ProviderTypeOK, AttemptsOK, HandlerOK, ProviderStages, Causes

(* A step of one turn leaves the calls and handlers of the others alone.   *)
LEMMA ProviderStays ==
  ASSUME ProviderTypeOK, NEW c \in Calls, NEW d \in Calls, d # c,
         \/ Silently(c) \/ EndOfBody(c)
         \/ \E to \in ProviderStages : YieldText(c, to) \/ YieldFinish(c, to)
  PROVE  /\ stage'[d] = stage[d] /\ attempt'[d] = attempt[d]
         /\ part'[d] = part[d] /\ cause'[d] = cause[d] /\ met'[d] = met[d]
  BY DEF ProviderTypeOK, Silently, FindKey, Accepted, Rejected, BackoffOver, Malformed,
         Transient, EndOfBody, YieldText, YieldFinish, At, Fail, Meet

(* What the generator does by itself keeps its types and counts.           *)
LEMMA SilentTypes ==
  ASSUME ProviderTypeOK, NEW c \in Calls, AttemptsOK(c), Silently(c)
  PROVE  ProviderTypeOK' /\ AttemptsOK(c)'
  <1> USE ProviderAssumption DEF ProviderTypeOK, ProviderStages, Causes, AttemptsOK, At, Fail, Meet
  <1>1. CASE FindKey(c)
    BY <1>1 DEF FindKey
  <1>2. CASE Accepted(c)
    BY <1>2 DEF Accepted
  <1>3. CASE Rejected(c)
    BY <1>3 DEF Rejected
  <1>4. CASE BackoffOver(c)
    BY <1>4 DEF BackoffOver
  <1>5. CASE Malformed(c)
    BY <1>5 DEF Malformed
  <1>6. ASSUME NEW from \in {"request", "answer", "finished"}, Transient(c, from)
        PROVE  ProviderTypeOK' /\ AttemptsOK(c)'
    BY <1>6 DEF Transient
  <1> QED  BY <1>1, <1>2, <1>3, <1>4, <1>5, <1>6 DEF Silently

(* And so does what it does when a chunk is taken from it.                 *)
LEMMA YieldTypes ==
  ASSUME ProviderTypeOK, NEW c \in Calls, AttemptsOK(c),
         \/ EndOfBody(c)
         \/ \E to \in {"answer", "finished", "closed"} : YieldText(c, to) \/ YieldFinish(c, to)
  PROVE  ProviderTypeOK' /\ AttemptsOK(c)'
  <1> USE ProviderAssumption DEF ProviderTypeOK, ProviderStages, Causes, AttemptsOK, At, Fail, Meet
  <1>1. CASE EndOfBody(c)
    BY <1>1 DEF EndOfBody
  <1>2. ASSUME NEW to \in {"answer", "finished", "closed"}, YieldText(c, to)
        PROVE  ProviderTypeOK' /\ AttemptsOK(c)'
    BY <1>2 DEF YieldText
  <1>3. ASSUME NEW to \in {"answer", "finished", "closed"}, YieldFinish(c, to)
        PROVE  ProviderTypeOK' /\ AttemptsOK(c)'
    BY <1>3 DEF YieldFinish
  <1> QED  BY <1>1, <1>2, <1>3

-----------------------------------------------------------------------------
(* The steps of one turn, each by what it does to the call (Silently, or a *)
(* chunk taken) and to the handler, its text and the log.                  *)
LEMMA ProceedIs ==
  ASSUME NEW c \in Calls, Proceed(c)
  PROVE  /\ handler[c] = "streaming" /\ UNCHANGED <<exists, away>>
         /\ \/ /\ Silently(c) /\ stage'[c] # "failed" /\ UNCHANGED <<log, handler, text>>
            \/ /\ Silently(c) /\ stage'[c] = "failed" /\ UNCHANGED <<log, text>>
               /\ Become(c, "error")
            \/ /\ YieldText(c, "answer") /\ UNCHANGED <<log, handler>>
               /\ Collect(c, [attempt |-> attempt[c], part |-> part[c] + 1])
            \/ /\ YieldText(c, "closed") /\ UNCHANGED <<log, text>>
               /\ MayRaise(c) /\ Become(c, "error")
            \/ /\ YieldFinish(c, "closed") /\ Conclude(c, text[c]) /\ UNCHANGED text
            \/ /\ YieldFinish(c, "finished") /\ UNCHANGED <<log, handler, text>>
            \/ /\ EndOfBody(c) /\ Conclude(c, text[c]) /\ UNCHANGED text
  BY DEF Proceed, Wait, StreamFails, TakeText, TakeFinishOnSocket, TakeFinishOnPost,
         StreamEnds, chatVars

LEMMA ProceedStays ==
  ASSUME TypeOK, NEW c \in Calls, Proceed(c), NEW d \in Calls, d # c
  PROVE  /\ stage'[d] = stage[d] /\ attempt'[d] = attempt[d]
         /\ part'[d] = part[d] /\ cause'[d] = cause[d] /\ met'[d] = met[d]
         /\ handler'[d] = handler[d] /\ text'[d] = text[d]
  <1>1. /\ stage'[d] = stage[d] /\ attempt'[d] = attempt[d]
        /\ part'[d] = part[d] /\ cause'[d] = cause[d] /\ met'[d] = met[d]
    BY ProceedIs, ProviderStays DEF TypeOK, ProviderStages
  <1>2. handler'[d] = handler[d] /\ text'[d] = text[d]
    BY ProceedIs DEF Conclude, Become, Collect, TypeOK
  <1> QED  BY <1>1, <1>2

(* The handler follows its call.                                           *)
LEMMA ProceedHandler ==
  ASSUME TypeOK, NEW c \in Calls, HandlerOK(c), Proceed(c)
  PROVE  HandlerOK(c)'
  <1> USE DEF TypeOK, ProviderTypeOK, HandlerOK, At, Fail, Become
  <1>1. CASE Silently(c) /\ stage'[c] # "failed" /\ UNCHANGED handler
    BY <1>1, ProceedIs DEF Silently, FindKey, Accepted, Rejected, BackoffOver, Malformed, Transient
  <1>2. CASE stage'[c] = "failed" /\ Become(c, "error")
    BY <1>2
  <1>3. CASE YieldText(c, "answer") /\ UNCHANGED handler
    BY <1>3, ProceedIs DEF YieldText
  <1>4. CASE YieldText(c, "closed") /\ Become(c, "error")
    BY <1>4 DEF YieldText
  <1>5. CASE YieldFinish(c, "closed") /\ Conclude(c, text[c])
    BY <1>5 DEF YieldFinish, Conclude
  <1>6. CASE YieldFinish(c, "finished") /\ UNCHANGED handler
    BY <1>6, ProceedIs DEF YieldFinish
  <1>7. CASE EndOfBody(c) /\ Conclude(c, text[c])
    BY <1>7 DEF EndOfBody, Conclude
  <1> QED  BY <1>1, <1>2, <1>3, <1>4, <1>5, <1>6, <1>7, ProceedIs

LEMMA AppendTypes ==
  ASSUME TypeOK, NEW s \in Sessions, NEW m \in Messages, AppendTo(s, m)
  PROVE  log' \in [Sessions -> Seq(Messages)]
  BY DEF TypeOK, AppendTo

LEMMA ConcludeTypes ==
  ASSUME TypeOK, NEW c \in Calls, Conclude(c, text[c])
  PROVE  /\ log' \in [Sessions -> Seq(Messages)]
         /\ handler' \in [Calls -> {"waiting", "streaming"} \union Outcomes]
  <1>1. SessionOf[c] \in Sessions
    BY ChatAssumption
  <1>2. AssistantMessage(c, text[c]) \in Messages
    BY DEF TypeOK, AssistantMessage, Messages
  <1>3. log' \in [Sessions -> Seq(Messages)]
    BY <1>1, <1>2, AppendTypes DEF Conclude
  <1>4. handler' \in [Calls -> {"waiting", "streaming"} \union Outcomes]
    BY DEF Conclude, Become, TypeOK, Outcomes
  <1> QED  BY <1>3, <1>4

LEMMA BeginTypes ==
  ASSUME TypeInv, NEW c \in Calls, Begin(c)
  PROVE  TypeInv'
  <1>1. SessionOf[c] \in Sessions
    BY ChatAssumption
  <1>2. UserMessage(c) \in Messages
    BY DEF UserMessage, Messages
  <1>3. log' \in [Sessions -> Seq(Messages)]
    BY <1>1, <1>2, AppendTypes DEF Begin, TypeInv, TypeOK
  <1>4. handler' \in [Calls -> {"waiting", "streaming"} \union Outcomes]
    BY DEF Begin, Become, TypeInv, TypeOK, Outcomes
  <1>5. ProviderTypeOK'
    BY DEF Begin, TypeInv, TypeOK, ProviderTypeOK, ProviderStages
  <1>6. ASSUME NEW d \in Calls PROVE AttemptsOK(d)'
    BY DEF Begin, TypeInv, TypeOK, ProviderTypeOK, AttemptsOK, HandlerOK
  <1>7. ASSUME NEW d \in Calls PROVE HandlerOK(d)'
    BY DEF Begin, Become, TypeInv, TypeOK, ProviderTypeOK, HandlerOK
  <1> QED  BY <1>3, <1>4, <1>5, <1>6, <1>7 DEF Begin, TypeInv, TypeOK

LEMMA ProceedTypes ==
  ASSUME TypeInv, NEW c \in Calls, Proceed(c)
  PROVE  TypeInv'
  <1>1. ProviderTypeOK /\ AttemptsOK(c) /\ HandlerOK(c) /\ TypeOK
    BY DEF TypeInv, TypeOK
  <1>2. ProviderTypeOK' /\ AttemptsOK(c)'
    BY <1>1, ProceedIs, SilentTypes, YieldTypes
  <1>3. ASSUME NEW d \in Calls PROVE AttemptsOK(d)' /\ HandlerOK(d)'
    <2>1. CASE d = c
      BY <1>1, <1>2, <2>1, ProceedHandler
    <2>2. CASE d # c
      <3>1. /\ stage'[d] = stage[d] /\ attempt'[d] = attempt[d]
            /\ part'[d] = part[d] /\ cause'[d] = cause[d]
            /\ met'[d] = met[d] /\ handler'[d] = handler[d]
        BY <1>1, <2>2, ProceedStays
      <3> QED  BY <3>1 DEF TypeInv, AttemptsOK, HandlerOK
    <2> QED  BY <2>1, <2>2
  <1>4. log' \in [Sessions -> Seq(Messages)]
    BY <1>1, ProceedIs, ConcludeTypes DEF TypeOK
  <1>5. handler' \in [Calls -> {"waiting", "streaming"} \union Outcomes]
    BY <1>1, ProceedIs, ConcludeTypes DEF TypeOK, Become, Outcomes
  <1>6. text' \in [Calls -> Seq(Deltas)]
    <2>1. CASE UNCHANGED text
      BY <1>1, <2>1 DEF TypeOK
    <2>2. CASE /\ YieldText(c, "answer")
               /\ Collect(c, [attempt |-> attempt[c], part |-> part[c] + 1])
      <3>1. stage[c] = "answer" /\ part[c] < MaxParts
        BY <2>2 DEF YieldText, At
      <3>2. attempt[c] \in 1..MaxAttempts /\ part[c] + 1 \in 1..MaxParts
        BY <1>1, <3>1, ProviderAssumption DEF ProviderTypeOK, AttemptsOK
      <3>3. [attempt |-> attempt[c], part |-> part[c] + 1] \in Deltas
        BY <3>2 DEF Deltas
      <3> QED  BY <1>1, <2>2, <3>3 DEF TypeOK, Collect
    <2> QED  BY <2>1, <2>2, ProceedIs
  <1>7. exists' = exists /\ away' = away
    BY ProceedIs
  <1> QED  BY <1>1, <1>2, <1>3, <1>4, <1>5, <1>6, <1>7 DEF TypeInv, TypeOK

LEMMA OthersTypes ==
  ASSUME TypeInv,
         \/ \E c \in Calls : Leave(c)
         \/ \E s \in Sessions : HardDelete(s)
         \/ UNCHANGED vars
  PROVE  TypeInv'
  <1>1. UNCHANGED <<providerVars, handler, text>>
    BY DEF Leave, HardDelete, vars, chatVars
  <1>2. \A c \in Calls : AttemptsOK(c)' /\ HandlerOK(c)'
    BY <1>1 DEF TypeInv, AttemptsOK, HandlerOK, providerVars
  <1>3. ProviderTypeOK'
    BY <1>1 DEF TypeInv, TypeOK, ProviderTypeOK, providerVars
  <1>4. log' \in [Sessions -> Seq(Messages)]
    <2>1. log \in [Sessions -> Seq(Messages)] /\ <<>> \in Seq(Messages)
      BY DEF TypeInv, TypeOK
    <2>2. ASSUME NEW s \in Sessions, HardDelete(s) PROVE log' \in [Sessions -> Seq(Messages)]
      BY <2>1, <2>2 DEF HardDelete
    <2> QED  BY <2>1, <2>2 DEF Leave, vars, chatVars
  <1>5. exists' \subseteq Sessions /\ away' \subseteq SocketTurns
    BY DEF TypeInv, TypeOK, Leave, HardDelete, vars, chatVars
  <1> QED  BY <1>1, <1>2, <1>3, <1>4, <1>5 DEF TypeInv, TypeOK

LEMMA NextTypes == TypeInv /\ [Next]_vars => TypeInv'
  BY BeginTypes, ProceedTypes, OthersTypes DEF Next

(* The turns, their calls and the sessions they write to have their types; *)
(* no call makes more than MaxAttempts requests.                           *)
THEOREM TypeCorrect == Spec => []TypeOK
  <1>1. TypeInv => TypeOK
    BY DEF TypeInv
  <1> QED  BY <1>1, InitTypes, NextTypes, PTL DEF Spec

(* A transient failure ends a call only with its last attempt, any other   *)
(* failure at once, and a missing key before the first: _dispatch_live and *)
(* the retry loop of the clients, for every max_attempts.                  *)
THEOREM AttemptsAlwaysSpent == Spec => []AttemptsSpent
  <1>1. TypeInv => AttemptsSpent
    BY DEF TypeInv, AttemptsOK, AttemptsSpent
  <1> QED  BY <1>1, InitTypes, NextTypes, PTL DEF Spec

-----------------------------------------------------------------------------
(* The deltas a handler collected belong to the attempts made so far, and  *)
(* to the current one only once its answer is being read: then the last of *)
(* them is the last chunk yielded.                                         *)
TextOK(c) ==
  /\ \A i \in DOMAIN text[c] : text[c][i].attempt <= attempt[c]
  /\ stage[c] = "request" \/ (stage[c] = "answer" /\ part[c] = 0)
       => \A i \in DOMAIN text[c] : text[c][i].attempt < attempt[c]
  /\ stage[c] = "answer" /\ part[c] > 0
       => text[c] # <<>> /\ text[c][Len(text[c])] = [attempt |-> attempt[c], part |-> part[c]]

(* A text without gaps: a delta that is not the first of its answer stands *)
(* behind the one before it, a first one behind an earlier attempt's.      *)
Ordered(t) ==
  \A i \in DOMAIN t :
    /\ t[i].part > 1 => i > 1 /\ t[i - 1] = [attempt |-> t[i].attempt, part |-> t[i].part - 1]
    /\ t[i].part = 1 /\ i > 1 => t[i - 1].attempt < t[i].attempt

TextInv == \A c \in Calls : TextOK(c) /\ Ordered(text[c])

LEMMA DeltaBefore ==
  ASSUME NEW d \in Deltas
  PROVE  [d EXCEPT !.part = @ - 1] = [attempt |-> d.attempt, part |-> d.part - 1]
  BY DEF Deltas

LEMMA TextInvOrder == TypeOK /\ TextInv => DeltasInOrder
  <1> SUFFICES ASSUME TypeOK, TextInv, NEW c \in Calls, NEW i \in DOMAIN text[c]
               PROVE  LET this == text[c][i] IN
                      /\ this.attempt <= attempt[c]
                      /\ this.part > 1 =>
                           i > 1 /\ text[c][i - 1] = [this EXCEPT !.part = @ - 1]
                      /\ this.part = 1 /\ i > 1 => text[c][i - 1].attempt < this.attempt
    BY DEF DeltasInOrder
  <1>1. text[c][i] \in Deltas
    BY DEF TypeOK
  <1>2. TextOK(c) /\ Ordered(text[c])
    BY DEF TextInv
  <1> QED  BY <1>1, <1>2, DeltaBefore DEF TextOK, Ordered

LEMMA InitText == Init => TextInv
  <1> SUFFICES ASSUME Init, NEW c \in Calls PROVE TextOK(c) /\ Ordered(text[c])
    BY DEF TextInv
  <1>1. text[c] = <<>> /\ DOMAIN text[c] = {} /\ stage[c] = "unused"
    BY DEF Init, ProviderInit
  <1> QED  BY <1>1 DEF TextOK, Ordered

(* As long as no chunk is taken the text stays what it is.                 *)
LEMMA SilentText ==
  ASSUME TypeOK, NEW c \in Calls, AttemptsOK(c), TextOK(c), UNCHANGED text,
         \/ Silently(c) \/ EndOfBody(c)
         \/ \E to \in {"finished", "closed"} : YieldFinish(c, to)
         \/ YieldText(c, "closed")
  PROVE  TextOK(c)'
  <1> DEFINE given == text[c]
  <1>1. /\ text[c] = given /\ text'[c] = given
        /\ \A i \in DOMAIN given : given[i].attempt \in Nat /\ given[i].attempt > 0
    <2>1. text[c] \in Seq(Deltas) /\ text'[c] = text[c]
      BY DEF TypeOK
    <2>2. \A i \in DOMAIN given : given[i] \in Deltas
      BY <2>1
    <2>3. \A d \in Deltas : d.attempt \in Nat /\ d.attempt > 0
      BY ProviderAssumption DEF Deltas
    <2> QED  BY <2>1, <2>2, <2>3
  <1>2. /\ attempt[c] \in Nat /\ part[c] \in Nat
        /\ stage \in [Calls -> ProviderStages] /\ part \in [Calls -> 0..MaxParts]
        /\ attempt \in [Calls -> 0..MaxAttempts]
    BY ProviderAssumption DEF TypeOK, ProviderTypeOK
  <1> HIDE DEF given
  <1> USE <1>1, <1>2 DEF At, Fail
  <1>3. CASE FindKey(c)
    BY <1>3 DEF FindKey, TextOK, AttemptsOK
  <1>4. CASE Accepted(c)
    BY <1>4 DEF Accepted, TextOK
  <1>5. CASE Rejected(c)
    BY <1>5 DEF Rejected, TextOK
  <1>6. CASE BackoffOver(c)
    BY <1>6 DEF BackoffOver, TextOK
  <1>7. CASE Malformed(c)
    BY <1>7 DEF Malformed, TextOK
  <1>8. ASSUME NEW from \in {"request", "answer", "finished"}, Transient(c, from)
        PROVE  TextOK(c)'
    BY <1>8 DEF Transient, TextOK
  <1>9. CASE EndOfBody(c)
    BY <1>9 DEF EndOfBody, TextOK
  <1>10. ASSUME NEW to \in {"finished", "closed"}, YieldFinish(c, to)
        PROVE  TextOK(c)'
    BY <1>10 DEF YieldFinish, TextOK
  <1>11. CASE YieldText(c, "closed")
    BY <1>11 DEF YieldText, TextOK
  <1> QED  BY <1>3, <1>4, <1>5, <1>6, <1>7, <1>8, <1>9, <1>10, <1>11 DEF Silently

(* A chunk taken is appended where it belongs.                             *)
LEMMA CollectText ==
  ASSUME TypeOK, NEW c \in Calls, AttemptsOK(c), TextOK(c), Ordered(text[c]),
         YieldText(c, "answer"), Collect(c, [attempt |-> attempt[c], part |-> part[c] + 1])
  PROVE  TextOK(c)' /\ Ordered(text'[c])
  <1> DEFINE n == Len(text[c])
             delta == [attempt |-> attempt[c], part |-> part[c] + 1]
  <1>1. /\ text[c] \in Seq(Deltas) /\ n \in Nat /\ DOMAIN text[c] = 1..n
        /\ attempt[c] \in Nat /\ part[c] \in Nat
        /\ \A i \in 1..n : text[c][i] \in Deltas
    BY ProviderAssumption DEF TypeOK, ProviderTypeOK
  <1>2. /\ stage[c] = "answer" /\ stage'[c] = "answer"
        /\ part'[c] = part[c] + 1 /\ attempt'[c] = attempt[c]
    BY DEF YieldText, At, TypeOK, ProviderTypeOK
  <1>3. text'[c] = Append(text[c], delta)
    BY DEF Collect, TypeOK
  <1>4. /\ DOMAIN text'[c] = 1..(n + 1) /\ Len(text'[c]) = n + 1
        /\ \A i \in 1..n : text'[c][i] = text[c][i]
        /\ text'[c][n + 1] = delta
    BY <1>1, <1>3
  <1> HIDE DEF delta
  <1>5. TextOK(c)'
    <2>1. ASSUME NEW i \in 1..(n + 1) PROVE text'[c][i].attempt <= attempt[c]
      <3>1. CASE i \in 1..n
        BY <1>1, <1>4, <3>1 DEF TextOK
      <3>2. CASE i = n + 1
        BY <1>1, <1>4, <3>2 DEF delta
      <3> QED  BY <1>1, <3>1, <3>2
    <2>2. text'[c] # <<>> /\ text'[c][Len(text'[c])] = [attempt |-> attempt'[c], part |-> part'[c]]
      BY <1>1, <1>2, <1>4 DEF delta
    <2> QED  BY <1>1, <1>2, <1>4, <2>1, <2>2 DEF TextOK
  <1>6. Ordered(text'[c])
    <2>1. ASSUME NEW i \in 1..n
          PROVE  /\ text'[c][i].part > 1 => i > 1 /\ text'[c][i - 1] =
                      [attempt |-> text'[c][i].attempt, part |-> text'[c][i].part - 1]
                 /\ text'[c][i].part = 1 /\ i > 1 => text'[c][i - 1].attempt < text'[c][i].attempt
      <3>1. CASE i > 1
        <4>1. i - 1 \in 1..n
          BY <1>1, <3>1
        <4> QED  BY <1>1, <1>4, <4>1 DEF Ordered
      <3>2. CASE ~(i > 1)
        BY <1>1, <1>4, <3>2 DEF Ordered
      <3> QED  BY <3>1, <3>2
    <2>2. /\ delta.part > 1 => n + 1 > 1 /\ text'[c][n] =
               [attempt |-> delta.attempt, part |-> delta.part - 1]
          /\ delta.part = 1 /\ n + 1 > 1 => text'[c][n].attempt < delta.attempt
      <3>1. CASE part[c] = 0
        BY <1>1, <1>2, <1>4, <3>1 DEF TextOK, delta
      <3>2. CASE part[c] > 0
        <4>1. n > 0 /\ text[c][n] = [attempt |-> attempt[c], part |-> part[c]]
          BY <1>1, <1>2, <3>2 DEF TextOK
        <4>2. text'[c][n] = [attempt |-> attempt[c], part |-> part[c]]
          BY <1>1, <1>4, <4>1
        <4>3. delta.attempt = attempt[c] /\ delta.part = part[c] + 1
          BY DEF delta
        <4>4. part[c] + 1 - 1 = part[c] /\ part[c] + 1 # 1
          BY <1>1, <3>2
        <4> QED  BY <1>1, <4>1, <4>2, <4>3, <4>4
      <3> QED  BY <1>1, <3>1, <3>2
    <2>3. ASSUME NEW i \in 1..(n + 1)
          PROVE  /\ text'[c][i].part > 1 => i > 1 /\ text'[c][i - 1] =
                      [attempt |-> text'[c][i].attempt, part |-> text'[c][i].part - 1]
                 /\ text'[c][i].part = 1 /\ i > 1 => text'[c][i - 1].attempt < text'[c][i].attempt
      <3>1. CASE i \in 1..n
        BY <2>1, <3>1
      <3>2. CASE i = n + 1
        BY <1>1, <1>4, <2>2, <3>2
      <3> QED  BY <1>1, <3>1, <3>2
    <2> QED  BY <1>4, <2>3 DEF Ordered
  <1> QED  BY <1>5, <1>6

LEMMA NextText == TypeInv /\ TextInv /\ [Next]_vars => TextInv'
  <1> SUFFICES ASSUME TypeInv, TextInv, [Next]_vars PROVE TextInv'
    OBVIOUS
  <1>1. TypeOK
    BY DEF TypeInv
  <1>2. ASSUME NEW c \in Calls, Proceed(c), NEW d \in Calls PROVE TextOK(d)' /\ Ordered(text'[d])
    <2>1. CASE d = c
      <3>1. AttemptsOK(c) /\ TextOK(c) /\ Ordered(text[c])
        BY DEF TypeInv, TextInv
      <3> QED  BY <1>1, <1>2, <2>1, <3>1, ProceedIs, SilentText, CollectText
    <2>2. CASE d # c
      BY <1>1, <1>2, <2>2, ProceedStays DEF TextInv, TextOK
    <2> QED  BY <2>1, <2>2
  <1>3. ASSUME NEW c \in Calls, Begin(c), NEW d \in Calls PROVE TextOK(d)' /\ Ordered(text'[d])
    BY <1>3 DEF Begin, TypeInv, TypeOK, ProviderTypeOK, HandlerOK, TextInv, TextOK
  <1>4. CASE \/ \E c \in Calls : Leave(c)
             \/ \E s \in Sessions : HardDelete(s)
             \/ UNCHANGED vars
    BY <1>4 DEF Leave, HardDelete, vars, chatVars, providerVars, TextInv, TextOK
  <1> QED  BY <1>2, <1>3, <1>4 DEF Next, TextInv

(* What a turn collects is the answers of its attempts, in order, each     *)
(* from its beginning and without gaps, for any number of turns, attempts  *)
(* and chunks: neither a retry nor another turn disturbs it.               *)
THEOREM TextInOrder == Spec => []DeltasInOrder
  <1>1. Init => TypeInv /\ TextInv
    BY InitTypes, InitText
  <1>2. TypeInv /\ TextInv /\ [Next]_vars => (TypeInv /\ TextInv)'
    BY NextTypes, NextText
  <1>3. TypeInv /\ TextInv => DeltasInOrder
    BY TextInvOrder DEF TypeInv
  <1> QED  BY <1>1, <1>2, <1>3, PTL DEF Spec

-----------------------------------------------------------------------------
(* What the sessions hold.  A deleted one holds nothing; a message is kept *)
(* in the session its turn is for; an answer only after its turn has ended *)
(* (as an error only if the client could not be reached).                  *)
Placed ==
  /\ \A s \in Sessions : s \notin exists => log[s] = <<>>
  /\ \A s \in Sessions : \A i \in DOMAIN log[s] :
       LET c == log[s][i].turn IN
       /\ SessionOf[c] = s
       /\ log[s][i].role = "assistant" =>
            /\ handler[c] \in {"done", "error"}
            /\ handler[c] = "error" => c \in away

(* A turn that has begun has its message stored, one that is done also its *)
(* answer.                                                                 *)
Kept ==
  \A c \in Calls : SessionOf[c] \in exists =>
    /\ handler[c] \in {"streaming", "done", "error"} => Stored(c, "user")
    /\ handler[c] = "done" => Stored(c, "assistant")

(* TranscriptReadable, for one session.                                    *)
Readable(s) ==
  \A i \in DOMAIN log[s] :
    log[s][i].role = "assistant" =>
      /\ \E j \in 1..(i - 1) : log[s][j].role = "user" /\ log[s][j].turn = log[s][i].turn
      /\ \A j \in DOMAIN log[s] :
           log[s][j].role = "assistant" /\ log[s][j].turn = log[s][i].turn => j = i
      /\ log[s][i].text = text[log[s][i].turn]

LogInv == Placed /\ Kept /\ \A s \in Sessions : Readable(s)

LEMMA LogInvTranscript == TypeOK /\ LogInv => TranscriptReadable
  <1> SUFFICES ASSUME TypeOK, LogInv, NEW s \in Sessions, NEW i \in DOMAIN log[s],
                      log[s][i].role = "assistant"
               PROVE  /\ \E j \in 1..(i - 1) : MessageAt(s, j, "user", log[s][i].turn)
                      /\ \A j \in DOMAIN log[s] : MessageAt(s, j, "assistant", log[s][i].turn) => j = i
                      /\ log[s][i].text = text[log[s][i].turn]
    BY DEF TranscriptReadable
  <1>1. DOMAIN log[s] = 1..Len(log[s]) /\ Len(log[s]) \in Nat
    BY DEF TypeOK
  <1>2. \A j \in 1..(i - 1) : j \in DOMAIN log[s]
    BY <1>1
  <1> QED  BY <1>1, <1>2 DEF LogInv, Readable, MessageAt

LEMMA LogInvOutcome == TypeOK /\ LogInv => OutcomeMatchesLog
  <1> SUFFICES ASSUME TypeOK, LogInv, NEW c \in Calls
               PROVE  /\ handler[c] = "done" /\ SessionOf[c] \in exists => Stored(c, "assistant")
                      /\ handler[c] = "error" /\ Stored(c, "assistant") => c \in away
                      /\ handler[c] \in {"done", "error"} /\ SessionOf[c] \in exists
                           => Stored(c, "user")
    BY DEF OutcomeMatchesLog
  <1>1. SessionOf[c] \in Sessions
    BY ChatAssumption
  <1>2. handler[c] = "error" /\ Stored(c, "assistant") => c \in away
    BY <1>1 DEF LogInv, Placed, Stored, MessageAt
  <1> QED  BY <1>2 DEF LogInv, Kept

LEMMA InitLog == Init => LogInv
  BY ChatAssumption DEF Init, LogInv, Placed, Kept, Readable

(* A log with a message more.                                              *)
LEMMA AppendIs ==
  ASSUME TypeOK, NEW s \in Sessions, s \in exists, NEW m, AppendTo(s, m)
  PROVE  /\ \A t \in Sessions : t # s => log'[t] = log[t]
         /\ Len(log[s]) \in Nat /\ DOMAIN log[s] = 1..Len(log[s])
         /\ DOMAIN log'[s] = 1..(Len(log[s]) + 1)
         /\ \A i \in 1..Len(log[s]) : log'[s][i] = log[s][i]
         /\ log'[s][Len(log[s]) + 1] = m
  <1>1. log[s] \in Seq(Messages) /\ log' = [log EXCEPT ![s] = Append(@, m)]
    BY DEF TypeOK, AppendTo
  <1>2. log'[s] = Append(log[s], m) /\ \A t \in Sessions : t # s => log'[t] = log[t]
    BY <1>1 DEF TypeOK
  <1> QED  BY <1>1, <1>2

(* What was stored stays stored.                                           *)
LEMMA StoredStays ==
  ASSUME TypeOK, NEW s \in Sessions, s \in exists, NEW m, AppendTo(s, m),
         NEW c \in Calls, NEW role, Stored(c, role)
  PROVE  Stored(c, role)'
  <1>1. SessionOf[c] \in Sessions
    BY ChatAssumption
  <1>2. PICK i \in DOMAIN log[SessionOf[c]] :
             log[SessionOf[c]][i].role = role /\ log[SessionOf[c]][i].turn = c
    BY DEF Stored, MessageAt
  <1>3. i \in DOMAIN log'[SessionOf[c]] /\ log'[SessionOf[c]][i] = log[SessionOf[c]][i]
    BY <1>1, <1>2, AppendIs
  <1> QED  BY <1>2, <1>3 DEF Stored, MessageAt

LEMMA StoredNow ==
  ASSUME TypeOK, NEW c \in Calls, SessionOf[c] \in exists, NEW m, m.turn = c,
         AppendTo(SessionOf[c], m)
  PROVE  Stored(c, m.role)'
  <1>1. SessionOf[c] \in Sessions
    BY ChatAssumption
  <1> QED  BY <1>1, AppendIs DEF Stored, MessageAt

(* A message is some turn's, an answer none that is still under way.       *)
LEMMA TurnsAreCalls ==
  ASSUME TypeOK, Placed, NEW s \in Sessions, NEW i \in DOMAIN log[s]
  PROVE  /\ log[s][i].turn \in Calls
         /\ log[s][i].role = "assistant" =>
              handler[log[s][i].turn] \notin {"waiting", "streaming"}
  <1>1. log[s][i] \in Messages
    BY DEF TypeOK
  <1> QED  BY <1>1 DEF Placed, Messages

(* A turn goes on, or ends, without writing to its session.                *)
LEMMA SameLog ==
  ASSUME TypeOK, LogInv, UNCHANGED <<log, exists, away>>, NEW c \in Calls,
         handler[c] \in {"waiting", "streaming"},
         handler'[c] \in {"streaming", "error", "not_found"},
         SessionOf[c] \in exists => handler[c] = "streaming" /\ handler'[c] # "not_found",
         \A d \in Calls : d # c => handler'[d] = handler[d] /\ text'[d] = text[d]
  PROVE  LogInv'
  <1>1. \A s \in Sessions : \A i \in DOMAIN log[s] :
           /\ log[s][i].turn \in Calls
           /\ log[s][i].role = "assistant" => log[s][i].turn # c
    BY TurnsAreCalls DEF LogInv
  <1>2. Placed'
    BY <1>1 DEF LogInv, Placed
  <1>3. Kept'
    <2> SUFFICES ASSUME NEW d \in Calls, SessionOf[d] \in exists
                 PROVE  /\ handler'[d] \in {"streaming", "done", "error"} => Stored(d, "user")'
                        /\ handler'[d] = "done" => Stored(d, "assistant")'
      BY DEF Kept
    <2>1. \A role : Stored(d, role) => Stored(d, role)'
      BY DEF Stored, MessageAt
    <2> QED  BY <2>1 DEF LogInv, Kept
  <1>4. \A s \in Sessions : Readable(s)'
    BY <1>1 DEF LogInv, Readable
  <1> QED  BY <1>2, <1>3, <1>4 DEF LogInv

(* A turn writes to its session: the message it is asked, or the answer    *)
(* it collected.                                                           *)
LEMMA LogWritten ==
  ASSUME TypeOK, LogInv, UNCHANGED <<exists, away, text>>, NEW c \in Calls,
         NEW m \in Messages, m.turn = c, SessionOf[c] \in exists, AppendTo(SessionOf[c], m),
         \/ /\ m.role = "user" /\ handler[c] = "waiting"
            /\ handler'[c] \in {"streaming", "error"}
         \/ /\ m.role = "assistant" /\ m.text = text[c] /\ handler[c] = "streaming"
            /\ handler'[c] = "done" \/ (handler'[c] = "error" /\ c \in away),
         \A d \in Calls : d # c => handler'[d] = handler[d]
  PROVE  LogInv'
  <1> DEFINE s == SessionOf[c]
             n == Len(log[s])
  <1>1. s \in Sessions
    BY ChatAssumption
  <1>2. /\ \A t \in Sessions : t # s => log'[t] = log[t]
        /\ n \in Nat /\ DOMAIN log[s] = 1..n
        /\ DOMAIN log'[s] = 1..(n + 1)
        /\ \A i \in 1..n : log'[s][i] = log[s][i]
        /\ log'[s][n + 1] = m
    BY <1>1, AppendIs
  <1>3. \A t \in Sessions : \A i \in DOMAIN log[t] :
           /\ log[t][i].turn \in Calls
           /\ log[t][i].role = "assistant" => log[t][i].turn # c
    BY TurnsAreCalls DEF LogInv
  <1> HIDE DEF s, n
  <1>4. Placed'
    <2>1. \A t \in Sessions : t \notin exists' => log'[t] = <<>>
      BY <1>1, <1>2 DEF LogInv, Placed, s
    <2>2. ASSUME NEW t \in Sessions, NEW i \in DOMAIN log[t], log'[t][i] = log[t][i]
          PROVE  LET d == log'[t][i].turn IN
                 /\ SessionOf[d] = t
                 /\ log'[t][i].role = "assistant" =>
                      /\ handler'[d] \in {"done", "error"}
                      /\ handler'[d] = "error" => d \in away'
      BY <1>3, <2>2 DEF LogInv, Placed
    <2>3. /\ SessionOf[m.turn] = s
          /\ m.role = "assistant" =>
               /\ handler'[m.turn] \in {"done", "error"}
               /\ handler'[m.turn] = "error" => m.turn \in away'
      BY DEF s
    <2>4. ASSUME NEW t \in Sessions, NEW i \in DOMAIN log'[t]
          PROVE  LET d == log'[t][i].turn IN
                 /\ SessionOf[d] = t
                 /\ log'[t][i].role = "assistant" =>
                      /\ handler'[d] \in {"done", "error"}
                      /\ handler'[d] = "error" => d \in away'
      <3>1. CASE t # s
        BY <1>2, <2>2, <3>1
      <3>2. CASE t = s /\ i \in 1..n
        BY <1>2, <2>2, <3>2
      <3>3. CASE t = s /\ i = n + 1
        BY <1>2, <2>3, <3>3
      <3> QED  BY <1>2, <3>1, <3>2, <3>3
    <2> QED  BY <2>1, <2>4 DEF Placed
  <1>5. Kept'
    <2> SUFFICES ASSUME NEW d \in Calls, SessionOf[d] \in exists
                 PROVE  /\ handler'[d] \in {"streaming", "done", "error"} => Stored(d, "user")'
                        /\ handler'[d] = "done" => Stored(d, "assistant")'
      BY DEF Kept
    <2>1. \A role : Stored(d, role) => Stored(d, role)'
      BY <1>1, StoredStays DEF s
    <2>2. CASE d # c
      BY <2>1, <2>2 DEF LogInv, Kept
    <2>3. CASE d = c
      <3>1. Stored(c, m.role)'
        BY StoredNow
      <3>2. m.role = "assistant" => Stored(c, "user")
        BY <2>3 DEF LogInv, Kept
      <3> QED  BY <2>1, <2>3, <3>1, <3>2
    <2> QED  BY <2>2, <2>3
  <1>6. ASSUME NEW t \in Sessions PROVE Readable(t)'
    <2>1. Readable(t)
      BY DEF LogInv
    <2>2. CASE t # s
      BY <1>2, <2>1, <2>2 DEF Readable
    <2>3. CASE t = s
      <3> SUFFICES Readable(s)'
        BY <2>3 DEF Readable
      <3> SUFFICES ASSUME NEW i \in 1..(n + 1), log'[s][i].role = "assistant"
                   PROVE  /\ \E j \in 1..(i - 1) : log'[s][j].role = "user"
                                                   /\ log'[s][j].turn = log'[s][i].turn
                          /\ \A j \in 1..(n + 1) :
                               log'[s][j].role = "assistant"
                               /\ log'[s][j].turn = log'[s][i].turn => j = i
                          /\ log'[s][i].text = text'[log'[s][i].turn]
        BY <1>2 DEF Readable
      <3>1. CASE i \in 1..n
        <4>1. /\ log[s][i].turn # c /\ log'[s][i] = log[s][i]
              /\ \E j \in 1..(i - 1) : log[s][j].role = "user" /\ log[s][j].turn = log[s][i].turn
              /\ \A j \in 1..n :
                   log[s][j].role = "assistant" /\ log[s][j].turn = log[s][i].turn => j = i
              /\ log[s][i].text = text[log[s][i].turn]
          <5>1. log'[s][i] = log[s][i]
            BY <1>2, <3>1
          <5>2. log[s][i].role = "assistant"
            BY <5>1
          <5>3. /\ \E j \in 1..(i - 1) : log[s][j].role = "user" /\ log[s][j].turn = log[s][i].turn
                /\ \A j \in 1..n :
                     log[s][j].role = "assistant" /\ log[s][j].turn = log[s][i].turn => j = i
                /\ log[s][i].text = text[log[s][i].turn]
            BY <1>2, <2>1, <2>3, <3>1, <5>2 DEF Readable
          <5>4. log[s][i].turn # c
            BY <1>1, <1>2, <1>3, <3>1, <5>2
          <5> QED  BY <5>1, <5>3, <5>4
        <4>2. \A j \in 1..(i - 1) : j \in 1..n
          BY <1>2, <3>1
        <4>3. \E j \in 1..(i - 1) : log'[s][j].role = "user" /\ log'[s][j].turn = log'[s][i].turn
          BY <1>2, <4>1, <4>2
        <4>4. ASSUME NEW j \in 1..(n + 1),
                     log'[s][j].role = "assistant" /\ log'[s][j].turn = log'[s][i].turn
              PROVE  j = i
          <5>1. j # n + 1
            BY <1>2, <4>1, <4>4
          <5> QED  BY <1>2, <4>1, <4>4, <5>1
        <4> QED  BY <4>1, <4>3, <4>4
      <3>2. CASE i = n + 1
        <4>1. m.role = "assistant" /\ m.text = text[c] /\ handler[c] = "streaming"
          BY <1>2, <3>2
        <4>2. Stored(c, "user")
          BY <4>1 DEF LogInv, Kept
        <4>3. \E j \in 1..n : log[s][j].role = "user" /\ log[s][j].turn = c
          BY <1>2, <4>2 DEF Stored, MessageAt, s
        <4>4. \E j \in 1..(i - 1) : log'[s][j].role = "user" /\ log'[s][j].turn = log'[s][i].turn
          <5>1. i - 1 = n /\ log'[s][i].turn = c
            BY <1>2, <3>2
          <5> QED  BY <1>2, <4>3, <5>1
        <4>5. ASSUME NEW j \in 1..(n + 1),
                     log'[s][j].role = "assistant" /\ log'[s][j].turn = log'[s][i].turn
              PROVE  j = i
          <5>1. j \notin 1..n
            BY <1>1, <1>2, <1>3, <3>2, <4>5
          <5> QED  BY <1>2, <3>2, <5>1
        <4> QED  BY <1>2, <3>2, <4>1, <4>4, <4>5
      <3> QED  BY <1>2, <3>1, <3>2
    <2> QED  BY <2>2, <2>3
  <1> QED  BY <1>4, <1>5, <1>6 DEF LogInv

(* A turn that ends stores its answer, if its session still exists.        *)
LEMMA ConcludeLog ==
  ASSUME TypeOK, LogInv, NEW c \in Calls, handler[c] = "streaming",
         Conclude(c, text[c]), UNCHANGED <<exists, away, text>>
  PROVE  LogInv'
  <1> DEFINE m == AssistantMessage(c, text[c])
  <1>1. SessionOf[c] \in Sessions /\ handler \in [Calls -> {"waiting", "streaming"} \union Outcomes]
    BY ChatAssumption DEF TypeOK
  <1>2. m \in Messages /\ m.turn = c /\ m.role = "assistant" /\ m.text = text[c]
    BY DEF AssistantMessage, Messages, TypeOK
  <1>3. /\ handler'[c] = "done" \/ (handler'[c] = "error" /\ c \in away)
        /\ \A d \in Calls : d # c => handler'[d] = handler[d]
    BY <1>1 DEF Conclude, Become, MayRaise
  <1>4. AppendTo(SessionOf[c], m)
    BY DEF Conclude
  <1> HIDE DEF m
  <1>5. CASE SessionOf[c] \in exists
    BY <1>2, <1>3, <1>4, <1>5, LogWritten
  <1>6. CASE SessionOf[c] \notin exists
    <2>1. log' = log
      BY <1>4, <1>6 DEF AppendTo
    <2>2. \A s \in Sessions : \A i \in DOMAIN log[s] : log[s][i].turn # c
      BY <1>6 DEF LogInv, Placed
    <2>3. Placed'
      BY <1>3, <2>1, <2>2, TurnsAreCalls DEF LogInv, Placed
    <2>4. Kept'
      <3> SUFFICES ASSUME NEW d \in Calls, SessionOf[d] \in exists
                   PROVE  /\ handler'[d] \in {"streaming", "done", "error"} => Stored(d, "user")'
                          /\ handler'[d] = "done" => Stored(d, "assistant")'
        BY DEF Kept
      <3>1. \A role : Stored(d, role) => Stored(d, role)'
        BY <2>1 DEF Stored, MessageAt
      <3> QED  BY <1>3, <1>6, <3>1 DEF LogInv, Kept
    <2>5. \A s \in Sessions : Readable(s)'
      BY <2>1 DEF LogInv, Readable
    <2> QED  BY <2>3, <2>4, <2>5 DEF LogInv
  <1> QED  BY <1>5, <1>6

LEMMA BeginLog ==
  ASSUME TypeOK, LogInv, NEW c \in Calls, Begin(c)
  PROVE  LogInv'
  <1>1. /\ handler[c] = "waiting" /\ UNCHANGED <<exists, away, text>>
        /\ \A d \in Calls : d # c => handler'[d] = handler[d] /\ text'[d] = text[d]
    BY DEF Begin, Become, TypeOK
  <1>2. UserMessage(c) \in Messages /\ UserMessage(c).turn = c /\ UserMessage(c).role = "user"
    BY DEF UserMessage, Messages
  <1>3. CASE SessionOf[c] \in exists
    <2>1. AppendTo(SessionOf[c], UserMessage(c)) /\ handler'[c] \in {"streaming", "error"}
      BY <1>3 DEF Begin, Become, TypeOK
    <2> QED  BY <1>1, <1>2, <1>3, <2>1, LogWritten
  <1>4. CASE SessionOf[c] \notin exists
    <2>1. UNCHANGED log /\ handler'[c] = "not_found"
      BY <1>4 DEF Begin, Become, TypeOK
    <2> QED  BY <1>1, <1>4, <2>1, SameLog
  <1> QED  BY <1>3, <1>4

LEMMA ProceedLog ==
  ASSUME TypeOK, LogInv, NEW c \in Calls, Proceed(c)
  PROVE  LogInv'
  <1>1. /\ handler[c] = "streaming" /\ UNCHANGED <<exists, away>>
        /\ \A d \in Calls : d # c => handler'[d] = handler[d] /\ text'[d] = text[d]
    BY ProceedIs, ProceedStays
  <1>2. CASE UNCHANGED log /\ handler'[c] \in {"streaming", "error"}
    BY <1>1, <1>2, SameLog
  <1>3. CASE Conclude(c, text[c]) /\ UNCHANGED text
    BY <1>1, <1>3, ConcludeLog
  <1>4. Become(c, "error") => handler'[c] = "error"
    BY DEF Become, TypeOK
  <1> QED  BY <1>1, <1>2, <1>3, <1>4, ProceedIs

(* The other requests: a session is deleted, a client goes.                *)
LEMMA OthersLog ==
  ASSUME TypeOK, LogInv,
         \/ \E c \in Calls : Leave(c)
         \/ \E s \in Sessions : HardDelete(s)
         \/ UNCHANGED vars
  PROVE  LogInv'
  <1>1. ASSUME NEW c \in Calls, Leave(c) PROVE LogInv'
    <2>1. UNCHANGED <<log, exists, handler, text>> /\ away \subseteq away'
      BY <1>1 DEF Leave
    <2> QED  BY <2>1 DEF LogInv, Placed, Kept, Readable, Stored, MessageAt
  <1>2. ASSUME NEW s \in Sessions, HardDelete(s) PROVE LogInv'
    <2>1. /\ UNCHANGED <<handler, text, away>> /\ exists' = exists \ {s}
          /\ log'[s] = <<>> /\ \A t \in Sessions : t # s => log'[t] = log[t]
      BY <1>2 DEF HardDelete, TypeOK
    <2>2. Placed'
      BY <2>1 DEF LogInv, Placed
    <2>3. Kept'
      <3> SUFFICES ASSUME NEW d \in Calls, SessionOf[d] \in exists'
                   PROVE  /\ handler[d] \in {"streaming", "done", "error"} => Stored(d, "user")'
                          /\ handler[d] = "done" => Stored(d, "assistant")'
        BY <2>1 DEF Kept
      <3>1. SessionOf[d] \in Sessions /\ SessionOf[d] # s
        BY <2>1, ChatAssumption
      <3>2. \A role : Stored(d, role) => Stored(d, role)'
        BY <2>1, <3>1 DEF Stored, MessageAt
      <3> QED  BY <2>1, <3>2 DEF LogInv, Kept
    <2>4. \A t \in Sessions : Readable(t)'
      BY <2>1 DEF LogInv, Readable
    <2> QED  BY <2>2, <2>3, <2>4 DEF LogInv
  <1>3. CASE UNCHANGED vars
    BY <1>3 DEF vars, chatVars, LogInv, Placed, Kept, Readable, Stored, MessageAt
  <1> QED  BY <1>1, <1>2, <1>3

LEMMA NextLog == TypeInv /\ LogInv /\ [Next]_vars => LogInv'
  BY BeginLog, ProceedLog, OthersLog DEF TypeInv, Next

LEMMA LogAlways == Spec => [](TypeOK /\ LogInv)
  <1>1. TypeInv => TypeOK
    BY DEF TypeInv
  <1> QED  BY <1>1, InitTypes, InitLog, NextTypes, NextLog, PTL DEF Spec

(* However the turns of a session interleave, and whatever is deleted      *)
(* meanwhile, its transcript can be read: each answer stands once, after   *)
(* the message it answers, and says what that turn's stream said.          *)
THEOREM TranscriptAlwaysReadable == Spec => []TranscriptReadable
  BY LogAlways, LogInvTranscript, PTL

(* What a client is told agrees with what is stored, for any number of     *)
(* turns and sessions: chat.done and 201 only for an answer that is in the *)
(* session (or whose session is gone), an error for one that is not.       *)
THEOREM OutcomeAlwaysMatchesLog == Spec => []OutcomeMatchesLog
  BY LogAlways, LogInvOutcome, PTL
=============================================================================

------------------------------- MODULE ChatTurn -------------------------------
(***************************************************************************)
(* C1's two ways to take a chat turn, the chat.send frame of /ws/chat and  *)
(* POST /api/sessions/{id}/messages, with the sessions they write to and   *)
(* the provider call that answers them (ProviderClient).                   *)
(*                                                                         *)
(* SessionManager's operations do not suspend, so to the handlers each is  *)
(* one step: a session is the list of its messages (SessionStore says how  *)
(* it is kept).  Handlers interleave where they await a chunk or the       *)
(* delivery of a frame; other requests may delete the session meanwhile.   *)
(***************************************************************************)
EXTENDS ProviderClient, FiniteSets

CONSTANTS Sessions,
          SocketTurns,  \* of Calls, the ones that came as a chat.send frame
          SessionOf     \* the session each turn is for

ASSUME ChatAssumption ==
  /\ SocketTurns \subseteq Calls
  /\ SessionOf \in [Calls -> Sessions]

VARIABLES
  log,       \* the messages of each session; its id is forgotten on delete
  exists,    \* sessions that have not been deleted
  handler,   \* where each turn's handler is
  text,      \* the deltas a handler collected and, on a socket, delivered
  away       \* sockets whose transport is gone

chatVars == <<log, exists, handler, text, away>>
vars == <<providerVars, chatVars>>

(* A delta is known by the attempt it belongs to and its place in that     *)
(* answer.                                                                 *)
Deltas == [attempt : 1..MaxAttempts, part : 1..MaxParts]

Messages == [role : {"user", "assistant"}, turn : Calls, text : Seq(Deltas)]

(* done: chat.done or 201; error: chat.error or 502.                       *)
Outcomes == {"not_found", "done", "error"}

TypeOK ==
  /\ ProviderTypeOK
  /\ log \in [Sessions -> Seq(Messages)]
  /\ exists \subseteq Sessions
  /\ handler \in [Calls -> {"waiting", "streaming"} \union Outcomes]
  /\ text \in [Calls -> Seq(Deltas)]
  /\ away \subseteq SocketTurns

Init ==
  /\ ProviderInit
  /\ log = [s \in Sessions |-> <<>>]
  /\ exists = Sessions
  /\ handler = [c \in Calls |-> "waiting"]
  /\ text = [c \in Calls |-> <<>>]
  /\ away = {}

-----------------------------------------------------------------------------
Become(c, state) == handler' = [handler EXCEPT ![c] = state]

(* append_message on a session that is gone stores nothing.                *)
AppendTo(s, message) ==
  log' = IF s \in exists THEN [log EXCEPT ![s] = Append(@, message)] ELSE log

UserMessage(c) == [role |-> "user", turn |-> c, text |-> <<>>]

AssistantMessage(c, deltas) == [role |-> "assistant", turn |-> c, text |-> deltas]

(* The turn arrives: the user's message is stored and the stream opened,   *)
(* or, while C7 provides no adapter, an error returned.                    *)
Begin(c) ==
  /\ handler[c] = "waiting"
  /\ IF SessionOf[c] \in exists
       THEN /\ AppendTo(SessionOf[c], UserMessage(c))
            /\ \/ Become(c, "streaming") /\ stage' = [stage EXCEPT ![c] = "key"]
               \/ Become(c, "error") /\ UNCHANGED stage
       ELSE Become(c, "not_found") /\ UNCHANGED <<log, stage>>
  /\ UNCHANGED <<attempt, part, cause, met, exists, text, away>>

(* Delivering a frame raises when the transport is gone and the handler    *)
(* has not noticed yet; once it has, the frame is dropped.                 *)
MayRaise(c) == c \in away

(* The stream is over: the assistant's message is stored, whatever         *)
(* append_message says, and the client is told.                            *)
Conclude(c, deltas) ==
  /\ AppendTo(SessionOf[c], AssistantMessage(c, deltas))
  /\ \/ Become(c, "done")
     \/ MayRaise(c) /\ Become(c, "error")

(* Between two chunks.                                                     *)
Wait(c) ==
  /\ handler[c] = "streaming"
  /\ Silently(c) /\ stage'[c] # "failed"
  /\ UNCHANGED chatVars

(* Faulty variants: tell nobody; keep what arrived of a broken answer.     *)
StreamFailsUnreported(c) ==
  /\ handler[c] = "streaming"
  /\ Silently(c) /\ stage'[c] = "failed"
  /\ UNCHANGED chatVars

StreamFailsButStores(c) ==
  /\ handler[c] = "streaming"
  /\ Silently(c) /\ stage'[c] = "failed"
  /\ AppendTo(SessionOf[c], AssistantMessage(c, text[c]))
  /\ Become(c, "error")
  /\ UNCHANGED <<exists, text, away>>

(* ProviderError: the user's message stays, the deltas are dropped.        *)
StreamFails(c) ==
  /\ handler[c] = "streaming"
  /\ Silently(c) /\ stage'[c] = "failed"
  /\ Become(c, "error")
  /\ UNCHANGED <<log, exists, text, away>>

(* Faulty variant: one buffer for all turns.                               *)
CollectForAll(c, delta) == text' = [d \in Calls |-> Append(text[d], delta)]

Collect(c, delta) == text' = [text EXCEPT ![c] = Append(@, delta)]

(* A text chunk; a socket's client is sent a chat.delta first.             *)
TakeText(c) ==
  /\ handler[c] = "streaming"
  /\ \/ /\ YieldText(c, "answer")
        /\ Collect(c, [attempt |-> attempt[c], part |-> part[c] + 1])
        /\ UNCHANGED handler
     \/ /\ MayRaise(c)
        /\ YieldText(c, "closed")
        /\ Become(c, "error")
        /\ UNCHANGED text
  /\ UNCHANGED <<log, exists, away>>

(* /ws/chat stops reading at finish_reason.                                *)
TakeFinishOnSocket(c) ==
  /\ handler[c] = "streaming" /\ c \in SocketTurns
  /\ YieldFinish(c, "closed")
  /\ Conclude(c, text[c])
  /\ UNCHANGED <<exists, text, away>>

(* POST reads on and looks at nothing but the text.                        *)
TakeFinishOnPost(c) ==
  /\ handler[c] = "streaming" /\ c \notin SocketTurns
  /\ YieldFinish(c, "finished")
  /\ UNCHANGED chatVars

StreamEnds(c) ==
  /\ handler[c] = "streaming"
  /\ EndOfBody(c)
  /\ Conclude(c, text[c])
  /\ UNCHANGED <<exists, text, away>>

Proceed(c) ==
  \/ Wait(c) \/ StreamFails(c) \/ TakeText(c) \/ TakeFinishOnSocket(c)
  \/ TakeFinishOnPost(c) \/ StreamEnds(c)

(* DELETE ...?hard=1 from another request.                                 *)
HardDelete(s) ==
  /\ s \in exists
  /\ exists' = exists \ {s}
  /\ log' = [log EXCEPT ![s] = <<>>]
  /\ UNCHANGED <<providerVars, handler, text, away>>

Leave(c) ==
  /\ c \in SocketTurns
  /\ away' = away \union {c}
  /\ UNCHANGED <<providerVars, log, exists, handler, text>>

Next ==
  \/ \E c \in Calls : Begin(c) \/ Proceed(c) \/ Leave(c)
  \/ \E s \in Sessions : HardDelete(s)

(* The provider's read timeout bounds every wait for a chunk, so a turn    *)
(* that has begun is always given its next step.                           *)
Fairness == \A c \in Calls : WF_vars(Proceed(c))

Spec == Init /\ [][Next]_vars

FairSpec == Spec /\ Fairness

-----------------------------------------------------------------------------
(* Correctness                                                             *)

MessageAt(s, i, role, c) == i \in DOMAIN log[s] /\ log[s][i].role = role /\ log[s][i].turn = c

Stored(c, role) == \E i \in DOMAIN log[SessionOf[c]] : MessageAt(SessionOf[c], i, role, c)

(* However turns interleave in a session, its transcript can be read: each *)
(* answer stands once, after the message it answers, and says exactly what *)
(* that turn's stream said.  (The types are part of it.)                   *)
TranscriptReadable ==
  /\ TypeOK
  /\ \A s \in Sessions : \A i \in DOMAIN log[s] :
       log[s][i].role = "assistant" =>
         /\ \E j \in 1..(i - 1) : MessageAt(s, j, "user", log[s][i].turn)
         /\ \A j \in DOMAIN log[s] : MessageAt(s, j, "assistant", log[s][i].turn) => j = i
         /\ log[s][i].text = text[log[s][i].turn]

(* A turn reported done has its answer in the session, unless the session  *)
(* is gone; one reported as an error has none, unless the report is only   *)
(* that the client could not be reached.                                   *)
OutcomeMatchesLog ==
  \A c \in Calls :
    /\ handler[c] = "done" /\ SessionOf[c] \in exists => Stored(c, "assistant")
    /\ handler[c] = "error" /\ Stored(c, "assistant") => c \in away
    /\ handler[c] \in {"done", "error"} /\ SessionOf[c] \in exists => Stored(c, "user")

(* The text of a turn is the answers of its attempts, in order, each from  *)
(* its beginning and without gaps: a retry never loses, reorders or mixes  *)
(* in another turn's deltas.                                               *)
DeltasInOrder ==
  \A c \in Calls : \A i \in DOMAIN text[c] :
    LET this == text[c][i] IN
    /\ this.attempt <= attempt[c]
    /\ this.part > 1 =>
         i > 1 /\ text[c][i - 1] = [this EXCEPT !.part = @ - 1]
    /\ this.part = 1 /\ i > 1 => text[c][i - 1].attempt < this.attempt

(* A transient failure is final only when all attempts are used up, any    *)
(* other failure at once: a call that has met a missing key, a 4xx or an   *)
(* event that is no JSON has failed with it, and no request follows.       *)
AttemptsSpent ==
  \A c \in Calls :
    /\ stage[c] = "failed" =>
         /\ cause[c] = "transient" => attempt[c] = MaxAttempts
         /\ cause[c] = "no_key" <=> attempt[c] = 0
    /\ met[c] \ {"transient"} # {} =>
         stage[c] = "failed" /\ met[c] \ {"transient"} = {cause[c]}

(* Every turn that has begun is answered, one way or the other.            *)
TurnAnswered ==
  \A c \in Calls : handler[c] = "streaming" ~> handler[c] \in {"done", "error"}
=============================================================================

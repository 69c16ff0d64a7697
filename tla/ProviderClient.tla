---------------------------- MODULE ProviderClient ----------------------------
(***************************************************************************)
(* A live provider's chat_stream as C7 calls it: the API key is looked up, *)
(* the request is made up to MaxAttempts times, a 5xx or a network error   *)
(* is retried after a backoff, everything else is final, and the chunks of *)
(* a 2xx answer are yielded as they arrive.  The three clients share this  *)
(* loop; how they read an answer's body is EventStream's subject.          *)
(*                                                                         *)
(* The generator runs only while its consumer awaits it, so an action of   *)
(* this module is a step of the consumer too.  Each Yield action hands it  *)
(* one chunk; a consumer that leaves its loop there closes the generator.  *)
(***************************************************************************)
EXTENDS Integers, Sequences

CONSTANTS Calls,        \* the calls of chat_stream
          MaxAttempts,  \* RetryConfig.max_attempts
          MaxParts      \* bound: text chunks in one answer

ASSUME ProviderAssumption ==
  /\ MaxAttempts \in Nat \ {0}
  /\ MaxParts \in Nat \ {0}

VARIABLES
  stage,     \* where the generator is
  attempt,   \* requests made
  part,      \* chunks yielded of the current answer
  cause,     \* the failure the call ended with
  met        \* the failures its requests have met

providerVars == <<stage, attempt, part, cause, met>>

(* ended: exhausted; failed: ProviderError raised; closed: abandoned by    *)
(* the consumer.                                                           *)
ProviderStages == {"unused", "key", "request", "answer", "finished", "backoff",
                   "ended", "failed", "closed"}

Causes == {"none", "no_key", "client_error", "transient", "malformed"}

ProviderTypeOK ==
  /\ stage \in [Calls -> ProviderStages]
  /\ attempt \in [Calls -> 0..MaxAttempts]
  /\ part \in [Calls -> 0..MaxParts]
  /\ cause \in [Calls -> Causes]
  /\ met \in [Calls -> SUBSET Causes]

ProviderInit ==
  /\ stage = [c \in Calls |-> "unused"]
  /\ attempt = [c \in Calls |-> 0]
  /\ part = [c \in Calls |-> 0]
  /\ cause = [c \in Calls |-> "none"]
  /\ met = [c \in Calls |-> {}]

-----------------------------------------------------------------------------
At(c, from, to) == stage[c] = from /\ stage' = [stage EXCEPT ![c] = to]

Fail(c, from, why) ==
  /\ At(c, from, "failed")
  /\ cause' = [cause EXCEPT ![c] = why]

Meet(c, failure) == met' = [met EXCEPT ![c] = @ \union {failure}]

(* _dispatch_live: the model's key must be in the secrets store.           *)
FindKey(c) ==
  /\ \/ /\ At(c, "key", "request")
        /\ attempt' = [attempt EXCEPT ![c] = 1]
        /\ UNCHANGED <<cause, met>>
     \/ Fail(c, "key", "no_key") /\ Meet(c, "no_key") /\ UNCHANGED attempt
  /\ UNCHANGED part

(* Faulty variant: a retry goes on where the broken answer stopped.        *)
AcceptedResumes(c) ==
  /\ At(c, "request", "answer")
  /\ UNCHANGED <<attempt, part, cause, met>>

(* A 2xx response: its body is read from the beginning.                    *)
Accepted(c) ==
  /\ At(c, "request", "answer")
  /\ part' = [part EXCEPT ![c] = 0]
  /\ UNCHANGED <<attempt, cause, met>>

(* Faulty variant: a 4xx is retried as a 5xx is.                           *)
RejectedRetries(c) ==
  /\ IF attempt[c] < MaxAttempts
       THEN At(c, "request", "backoff") /\ UNCHANGED cause
       ELSE Fail(c, "request", "client_error")
  /\ Meet(c, "client_error")
  /\ UNCHANGED <<attempt, part>>

(* A 4xx response.                                                         *)
Rejected(c) ==
  /\ Fail(c, "request", "client_error")
  /\ Meet(c, "client_error")
  /\ UNCHANGED <<attempt, part>>

(* A 5xx status, or a network error before or during the answer.           *)
Transient(c, from) ==
  /\ IF attempt[c] < MaxAttempts
       THEN At(c, from, "backoff") /\ UNCHANGED cause
       ELSE Fail(c, from, "transient")
  /\ Meet(c, "transient")
  /\ UNCHANGED <<attempt, part>>

BackoffOver(c) ==
  /\ At(c, "backoff", "request")
  /\ attempt' = [attempt EXCEPT ![c] = @ + 1]
  /\ UNCHANGED <<part, cause, met>>

(* An event that is not JSON.                                              *)
Malformed(c) ==
  /\ \E from \in {"answer", "finished"} : Fail(c, from, "malformed")
  /\ Meet(c, "malformed")
  /\ UNCHANGED <<attempt, part>>

(* The body ends, with or without [DONE].                                  *)
EndOfBody(c) ==
  /\ \E from \in {"answer", "finished"} : At(c, from, "ended")
  /\ UNCHANGED <<attempt, part, cause, met>>

(* What the generator does between two chunks.                             *)
Silently(c) ==
  \/ FindKey(c) \/ Accepted(c) \/ Rejected(c) \/ BackoffOver(c) \/ Malformed(c)
  \/ \E from \in {"request", "answer", "finished"} : Transient(c, from)

YieldText(c, to) ==
  /\ At(c, "answer", to) /\ part[c] < MaxParts
  /\ part' = [part EXCEPT ![c] = @ + 1]
  /\ UNCHANGED <<attempt, cause, met>>

(* The chunk with finish_reason.                                           *)
YieldFinish(c, to) ==
  /\ At(c, "answer", to)
  /\ UNCHANGED <<attempt, part, cause, met>>
=============================================================================

------------------------------ MODULE RateLimiter ------------------------------
(***************************************************************************)
(* The rate_limiter_v1 plugin: one token bucket per agent, consulted on    *)
(* tools/pre-execute.  Tokens are floats in the code; only "at least one   *)
(* token" is ever tested, so a bucket is its whole tokens and one Refill   *)
(* is the time in which one token accrues.                                 *)
(***************************************************************************)
EXTENDS Naturals

CONSTANTS Agents,
          Burst     \* the size of every bucket, in whole tokens

VARIABLE tokens

BucketTypeOK == tokens \in [Agents -> 0..Burst]

(* A bucket is created full at the agent's first check.                    *)
BucketInit == tokens = [a \in Agents |-> Burst]

Refill(a) ==
  /\ tokens[a] < Burst
  /\ tokens' = [tokens EXCEPT ![a] = @ + 1]

SetRate(a) == tokens' = [tokens EXCEPT ![a] = Burst]

Dry(a) == tokens[a] = 0

(* check, as pre_execute calls it: a dry bucket raises RateLimited, which  *)
(* pre_execute turns into a system/throttled event; nothing is deducted    *)
(* and the call goes on.                                                   *)
TakeToken(a) ==
  tokens' = [tokens EXCEPT ![a] = IF Dry(a) THEN @ ELSE @ - 1]

BucketNext == \E a \in Agents : Refill(a) \/ SetRate(a)
=============================================================================

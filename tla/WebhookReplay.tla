---------------------------- MODULE WebhookReplay ----------------------------
(***************************************************************************)
(* C8's accept: a signed message is let in if its timestamp is near the    *)
(* clock's and its nonce is not among the last Capacity recorded; a nonce  *)
(* is recorded before the body is parsed, so a message refused for its     *)
(* body has used its nonce up.  A call does not suspend.  One that is      *)
(* refused before, for its signature, its timestamp or its nonce, changes  *)
(* nothing and is left out.                                                *)
(***************************************************************************)
EXTENDS Integers, Sequences

CONSTANTS Nonces,
          Capacity,   \* NonceStore's max_size
          Skew,       \* skew_ms
          MaxTime,    \* bound: readings of the clock
          MaxLog      \* bound: nonces ever recorded

ASSUME WebhookAssumption ==
  /\ Capacity \in Nat \ {0}
  /\ {Skew, MaxTime, MaxLog} \subseteq Nat

VARIABLES
  now,     \* the wall clock, which may be set back
  store,   \* NonceStore._store, oldest nonce first
  log      \* every nonce recorded, with the time and what became of the body

nonceVars == <<now, store, log>>

Times == 0..MaxTime

Entries == [nonce : Nonces, at : Times, parsed : BOOLEAN]

NonceTypeOK ==
  /\ now \in Times
  /\ store \in Seq(Nonces) /\ Len(store) <= Capacity
  /\ log \in Seq(Entries) /\ Len(log) <= MaxLog

NonceInit == now \in Times /\ store = <<>> /\ log = <<>>

SetClock(t) == t # now /\ now' = t /\ UNCHANGED <<store, log>>

Fresh(timestamp) == now - timestamp <= Skew /\ timestamp - now <= Skew

Known(nonce) == \E i \in DOMAIN store : store[i] = nonce

(* Faulty variant: a full store drops the nonce it was just given.         *)
RecordedFirst(nonce) ==
  IF Len(store) < Capacity THEN Append(store, nonce)
  ELSE Append(SubSeq(store, 1, Capacity - 1), nonce)

(* The store after a nonce is recorded and the oldest dropped if need be.  *)
Recorded(nonce) ==
  IF Len(store) < Capacity THEN Append(store, nonce) ELSE Append(Tail(store), nonce)

Accept(nonce, timestamp, parsed) ==
  /\ Fresh(timestamp) /\ ~Known(nonce)
  /\ Len(log) < MaxLog
  /\ store' = Recorded(nonce)
  /\ log' = Append(log, [nonce |-> nonce, at |-> now, parsed |-> parsed])
  /\ UNCHANGED now

NonceNext ==
  \/ \E t \in Times : SetClock(t)
  \/ \E nonce \in Nonces, timestamp \in Times, parsed \in BOOLEAN :
       Accept(nonce, timestamp, parsed)

NonceSpec == NonceInit /\ [][NonceNext]_nonceVars

-----------------------------------------------------------------------------
(* Correctness                                                             *)

(* Whatever the clock does, a nonce is let in again only after Capacity    *)
(* others were recorded.                                                   *)
ReplayDistance ==
  \A i, j \in DOMAIN log : i < j /\ log[i].nonce = log[j].nonce => j - i > Capacity
=============================================================================

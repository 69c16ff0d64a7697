---------------------------- MODULE Services_proofs ----------------------------
(***************************************************************************)
(* Three parts the harness uses: the nonces of C8's webhooks, for stores   *)
(* of any capacity and clocks that read anything; the plugins and their    *)
(* bus, for any plugins and any number of loads; the event streams of the  *)
(* providers, for any set of bodies and every way to cut them into chunks. *)
(***************************************************************************)
EXTENDS WebhookReplay, PluginLoader, EventStream, WellFoundedInduction, TLAPS

-----------------------------------------------------------------------------
(* The nonces.                                                             *)

(* The store holds the last nonces recorded, as many as it has room for.   *)
Recent ==
  /\ Len(store) = IF Len(log) < Capacity THEN Len(log) ELSE Capacity
  /\ \A i \in 1..Len(store) : store[i] = log[Len(log) - Len(store) + i].nonce

NonceInv == NonceTypeOK /\ Recent /\ ReplayDistance

(* The initial states satisfy the invariant.                               *)
LEMMA NonceInitInv == NonceInit => NonceInv
  <1> SUFFICES ASSUME NonceInit PROVE NonceInv
    OBVIOUS
  <1>1. /\ store \in Seq(Nonces) /\ log \in Seq(Entries)
        /\ Len(store) = 0 /\ Len(log) = 0 /\ DOMAIN log = {}
    BY DEF NonceInit
  <1>2. NonceTypeOK
    BY <1>1, WebhookAssumption DEF NonceInit, NonceTypeOK
  <1>3. Recent /\ ReplayDistance
    BY <1>1, WebhookAssumption DEF Recent, ReplayDistance
  <1> QED  BY <1>2, <1>3 DEF NonceInv

(* Recording a nonce appends it, and drops the oldest of a full store.     *)
LEMMA RecordedIs ==
  ASSUME NonceTypeOK, NEW nonce \in Nonces
  PROVE  /\ Recorded(nonce) \in Seq(Nonces)
         /\ LET kept == IF Len(store) < Capacity THEN Len(store) ELSE Capacity - 1
            IN  /\ Len(Recorded(nonce)) = kept + 1
                /\ Recorded(nonce)[kept + 1] = nonce
                /\ \A i \in 1..kept : Recorded(nonce)[i] = store[Len(store) - kept + i]
  <1>1. store \in Seq(Nonces) /\ Len(store) \in Nat /\ Len(store) <= Capacity /\ Capacity \in Nat \ {0}
    BY WebhookAssumption DEF NonceTypeOK
  <1>2. CASE Len(store) < Capacity
    BY <1>1, <1>2 DEF Recorded
  <1>3. CASE ~(Len(store) < Capacity)
    <2>1. Len(store) = Capacity /\ store # <<>>
      BY <1>1, <1>3
    <2>2. /\ Tail(store) \in Seq(Nonces) /\ Len(Tail(store)) = Capacity - 1
          /\ \A i \in 1..(Capacity - 1) : Tail(store)[i] = store[i + 1]
      BY <1>1, <2>1
    <2>3. Recorded(nonce) = Append(Tail(store), nonce)
      BY <1>3 DEF Recorded
    <2> QED  BY <1>1, <2>1, <2>2, <2>3
  <1> QED  BY <1>2, <1>3

(* Letting a message in keeps the invariant.                               *)
LEMMA AcceptKeeps ==
  ASSUME NonceInv, NEW nonce \in Nonces, NEW timestamp \in Times, NEW parsed \in BOOLEAN,
         Accept(nonce, timestamp, parsed)
  PROVE  NonceInv'
  <1> DEFINE entry == [nonce |-> nonce, at |-> now, parsed |-> parsed]
             kept == IF Len(store) < Capacity THEN Len(store) ELSE Capacity - 1
  <1>1. /\ Len(log) \in Nat /\ Len(log) < MaxLog /\ MaxLog \in Nat
        /\ Len(store) \in Nat /\ Len(store) <= Capacity /\ Capacity \in Nat \ {0}
    BY WebhookAssumption DEF NonceInv, NonceTypeOK, Accept
  <1>2. /\ log' = Append(log, entry) /\ entry \in Entries
        /\ store' = Recorded(nonce) /\ ~Known(nonce)
    BY DEF Accept, NonceInv, NonceTypeOK, Entries
  <1>3. /\ log' \in Seq(Entries) /\ Len(log') = Len(log) + 1
        /\ log'[Len(log) + 1] = entry
        /\ \A i \in 1..Len(log) : log'[i] = log[i]
    BY <1>2 DEF NonceInv, NonceTypeOK
  <1>4. /\ store' \in Seq(Nonces) /\ Len(store') = kept + 1
        /\ store'[kept + 1] = nonce
        /\ \A i \in 1..kept : store'[i] = store[Len(store) - kept + i]
    BY <1>2, RecordedIs DEF NonceInv
  <1>5. kept \in Nat /\ kept + 1 <= Capacity /\ kept <= Len(store)
    BY <1>1
  <1> HIDE DEF kept
  <1>6. NonceTypeOK'
    BY <1>1, <1>3, <1>4, <1>5 DEF NonceInv, NonceTypeOK, Accept
  <1>7. Recent'
    <2>1. Len(store') = IF Len(log') < Capacity THEN Len(log') ELSE Capacity
      BY <1>1, <1>3, <1>4 DEF NonceInv, Recent, kept
    <2>2. ASSUME NEW i \in 1..Len(store')
          PROVE  store'[i] = log'[Len(log') - Len(store') + i].nonce
      <3>1. CASE i = kept + 1
        <4>1. Len(log') - Len(store') + i = Len(log) + 1
          BY <1>1, <1>3, <1>4, <1>5, <3>1
        <4> QED  BY <1>3, <1>4, <3>1, <4>1
      <3>2. CASE i \in 1..kept
        <4> DEFINE k == Len(store) - kept + i
        <4>1. k \in 1..Len(store) /\ store'[i] = store[k]
          BY <1>1, <1>4, <1>5, <3>2
        <4>2. store[k] = log[Len(log) - Len(store) + k].nonce
          BY <4>1 DEF NonceInv, Recent
        <4>3. /\ Len(log) - Len(store) + k \in 1..Len(log)
              /\ Len(log) - Len(store) + k = Len(log') - Len(store') + i
          <5>1. Len(store) <= Len(log)
            BY <1>1 DEF NonceInv, Recent
          <5>2. Len(log') = Len(log) + 1 /\ Len(store') = kept + 1
            BY <1>3, <1>4
          <5> QED  BY <1>1, <1>5, <3>2, <5>1, <5>2
        <4> QED  BY <1>3, <4>1, <4>2, <4>3
      <3> QED  BY <1>4, <1>5, <3>1, <3>2
    <2> QED  BY <2>1, <2>2 DEF Recent
  <1>8. ReplayDistance'
    <2>1. DOMAIN log = 1..Len(log) /\ DOMAIN log' = 1..(Len(log) + 1)
      BY <1>3 DEF NonceInv, NonceTypeOK
    <2> SUFFICES ASSUME NEW i \in 1..(Len(log) + 1), NEW j \in 1..(Len(log) + 1),
                        i < j, log'[i].nonce = log'[j].nonce
                 PROVE  j - i > Capacity
      BY <2>1 DEF ReplayDistance
    <2>2. i \in 1..Len(log) /\ log'[i] = log[i]
      BY <1>1, <1>3
    <2>3. CASE j \in 1..Len(log)
      BY <1>3, <2>1, <2>2, <2>3 DEF NonceInv, ReplayDistance
    <2>4. CASE j = Len(log) + 1
      <3>1. log[i].nonce = nonce
        BY <1>3, <2>2, <2>4
      <3>2. ~(i > Len(log) - Len(store))
        <4> SUFFICES ASSUME i > Len(log) - Len(store) PROVE FALSE
          OBVIOUS
        <4> DEFINE k == i - (Len(log) - Len(store))
        <4>1. k \in 1..Len(store) /\ Len(log) - Len(store) + k = i
          BY <1>1, <2>2
        <4>2. store[k] = nonce
          BY <3>1, <4>1 DEF NonceInv, Recent
        <4>3. k \in DOMAIN store
          BY <4>1 DEF NonceInv, NonceTypeOK
        <4> QED  BY <1>2, <4>2, <4>3 DEF Known
      <3>3. Len(store) = Capacity
        BY <1>1, <2>2, <3>2 DEF NonceInv, Recent
      <3> QED  BY <1>1, <2>2, <2>4, <3>2, <3>3
    <2> QED  BY <1>1, <2>3, <2>4
  <1> QED  BY <1>6, <1>7, <1>8 DEF NonceInv

(* The invariant is inductive.                                             *)
LEMMA NonceInvariance == NonceSpec => []NonceInv
  <1>1. ASSUME NonceInv, [NonceNext]_nonceVars PROVE NonceInv'
    <2>1. CASE UNCHANGED <<store, log>> /\ now' \in Times
      BY <1>1, <2>1 DEF NonceInv, NonceTypeOK, Recent, ReplayDistance
    <2>2. CASE UNCHANGED nonceVars
      BY <1>1, <2>1, <2>2 DEF nonceVars, NonceInv, NonceTypeOK
    <2>3. CASE \E t \in Times : SetClock(t)
      BY <2>1, <2>3 DEF SetClock
    <2> QED  BY <1>1, <2>2, <2>3, AcceptKeeps DEF NonceNext
  <1> QED  BY NonceInitInv, <1>1, PTL DEF NonceSpec

(* Types hold; the store never exceeds its capacity.                       *)
THEOREM NonceTypesKept == NonceSpec => []NonceTypeOK
  <1>1. NonceInv => NonceTypeOK
    BY DEF NonceInv
  <1> QED  BY NonceInvariance, <1>1, PTL

(* Nonces come back only after Capacity others.                            *)
THEOREM ReplayDistanceHolds == NonceSpec => []ReplayDistance
  <1>1. NonceInv => ReplayDistance
    BY DEF NonceInv
  <1> QED  BY NonceInvariance, <1>1, PTL

-----------------------------------------------------------------------------
(* Numbers and sequences.                                                  *)

(* The least number of a set.                                              *)
LEMMA Least ==
  ASSUME NEW T \in SUBSET Nat, T # {}
  PROVE  \E x \in T : \A y \in T : x <= y
  <1> DEFINE R == OpToRel(<, Nat)
  <1>1. IsWellFoundedOn(R, Nat)
    BY NatLessThanWellFounded
  <1>2. \A x, y \in Nat : y < x => <<y, x>> \in R
    BY DEF OpToRel
  <1> HIDE DEF R
  <1>3. PICK x \in T : \A y \in T : ~(<<y, x>> \in R)
    BY <1>1, WFMin
  <1>4. \A y \in T : ~(y < x)
    BY <1>2, <1>3, Zenon
  <1> QED  BY <1>4

(* Min is it.                                                              *)
LEMMA MinIs ==
  ASSUME NEW T \in SUBSET Nat, T # {}
  PROVE  Min(T) \in T /\ \A y \in T : Min(T) <= y
<1>1. \E x \in T : \A y \in T : x <= y
  BY Least
<1>2. QED
  BY <1>1 DEF Min

(* Max is what no other exceeds.                                           *)
LEMMA MaxIs ==
  ASSUME NEW T \in SUBSET Nat, NEW x \in T, \A y \in T : y <= x
  PROVE  Max(T) = x
<1>1. Max(T) \in T /\ \A y \in T : Max(T) >= y
  <2>1. \A y \in T : x >= y
    OBVIOUS
  <2>2. QED
    BY <2>1 DEF Max
<1>2. Max(T) \in Nat /\ x \in Nat /\ Max(T) <= x /\ Max(T) >= x
  BY <1>1
<1>3. QED
  BY <1>2

(* Two sequences one behind the other.                                     *)
LEMMA Joined ==
    ASSUME NEW S, NEW a \in Seq(S), NEW b \in Seq(S)
    PROVE  /\ a \o b \in Seq(S) /\ Len(a \o b) = Len(a) + Len(b)
           /\ \A j \in 1..Len(a) : (a \o b)[j] = a[j]
           /\ \A j \in 1..Len(b) : (a \o b)[Len(a) + j] = b[j]
  OBVIOUS

(* A part of a sequence.                                                   *)
LEMMA PartIs ==
  ASSUME NEW S, NEW s \in Seq(S), NEW m \in Nat, NEW n \in Nat, m + n <= Len(s)
  PROVE  /\ SubSeq(s, m + 1, m + n) \in Seq(S) /\ Len(SubSeq(s, m + 1, m + n)) = n
         /\ \A i \in 1..n : SubSeq(s, m + 1, m + n)[i] = s[m + i]
  OBVIOUS

(* A sequence over a set is one over every wider set.                      *)
LEMMA WiderSeq ==
  ASSUME NEW S, NEW T, S \subseteq T, NEW s \in Seq(S)
  PROVE  s \in Seq(T)
  OBVIOUS

(* The elements of a sequence.                                             *)
LEMMA ElementsAre ==
  ASSUME NEW S, NEW s \in Seq(S), NEW i \in DOMAIN s
  PROVE  s[i] \in S
  OBVIOUS

(* A list without repetitions: one thing taken out.                        *)
LEMMA TakenOut ==
    ASSUME NEW S, NEW s \in Seq(S), IsInjective(s), NEW x
    PROVE  /\ RemoveFirst(s, x) \in Seq(S) /\ IsInjective(RemoveFirst(s, x))
           /\ Range(RemoveFirst(s, x)) = Range(s) \ {x}
<1>1. CASE \E k \in 1..Len(s) : s[k] = x
  <2>1. PICK k \in 1..Len(s) : s[k] = x
    BY <1>1
  <2>2. {j \in 1..Len(s) : s[j] = x} = {k}
    BY <2>1 DEF IsInjective
  <2>3. SelectInSeq(s, LAMBDA v : v = x) = Min({k})
    BY <2>2 DEF SelectInSeq
  <2>4. Min({k}) = k
    BY DEF Min
  <2>5. PICK a \in Seq(S) :
          /\ a = SubSeq(s, 1, k - 1) /\ Len(a) = k - 1
          /\ \A j \in 1..(k - 1) : a[j] = s[j]
    <3>1. /\ SubSeq(s, 1, k - 1) \in Seq(S) /\ Len(SubSeq(s, 1, k - 1)) = k - 1
          /\ \A j \in 1..(k - 1) : SubSeq(s, 1, k - 1)[j] = s[j]
      OBVIOUS
    <3>2. QED
      BY <3>1
  <2>6. PICK b \in Seq(S) :
          /\ b = SubSeq(s, k + 1, Len(s)) /\ Len(b) = Len(s) - k
          /\ \A j \in 1..(Len(s) - k) : b[j] = s[k + j]
    <3>1. /\ SubSeq(s, k + 1, Len(s)) \in Seq(S) /\ Len(SubSeq(s, k + 1, Len(s))) = Len(s) - k
          /\ \A j \in 1..(Len(s) - k) : SubSeq(s, k + 1, Len(s))[j] = s[k + j]
      OBVIOUS
    <3>2. QED
      BY <3>1
  <2> DEFINE rest == a \o b
  <2>7. RemoveFirst(s, x) = rest
    BY <1>1, <2>3, <2>4, <2>5, <2>6 DEF RemoveFirst, RemoveAt
  <2>8. rest \in Seq(S) /\ Len(rest) = Len(s) - 1 /\ DOMAIN rest = 1..(Len(s) - 1)
    <3>1. rest \in Seq(S) /\ Len(rest) = Len(a) + Len(b)
      BY Joined
    <3> HIDE DEF rest
    <3>2. Len(rest) = Len(s) - 1
      BY <2>5, <2>6, <3>1
    <3>3. QED
      BY <3>1, <3>2
  <2>9. /\ \A j \in 1..(k - 1) : rest[j] = a[j]
        /\ \A j \in 1..(Len(s) - k) : rest[(k - 1) + j] = b[j]
    <3>1. /\ \A j \in 1..Len(a) : rest[j] = a[j]
          /\ \A j \in 1..Len(b) : rest[Len(a) + j] = b[j]
      BY Joined
    <3>2. QED
      BY <2>5, <2>6, <3>1
  <2> HIDE DEF rest
  <2>10. /\ \A j \in 1..(k - 1) : rest[j] = s[j]
         /\ \A j \in k..(Len(s) - 1) : rest[j] = s[j + 1]
    <3>1. ASSUME NEW j \in 1..(k - 1) PROVE rest[j] = s[j]
      BY <2>5, <2>9
    <3>2. ASSUME NEW j \in k..(Len(s) - 1) PROVE rest[j] = s[j + 1]
      <4> DEFINE l == j - (k - 1)
      <4>1. l \in 1..(Len(s) - k) /\ k + l = j + 1 /\ (k - 1) + l = j
        OBVIOUS
      <4> HIDE DEF l
      <4>2. rest[(k - 1) + l] = b[l]
        BY <2>9, <4>1
      <4>3. QED
        BY <2>6, <4>1, <4>2
    <3>3. QED
      BY <3>1, <3>2
  <2>11. IsInjective(rest)
    <3> SUFFICES ASSUME NEW i \in 1..(Len(s) - 1), NEW j \in 1..(Len(s) - 1), rest[i] = rest[j]
                 PROVE  i = j
      BY <2>8 DEF IsInjective
    <3>1. /\ i < k => rest[i] = s[i]
          /\ i >= k => rest[i] = s[i + 1]
          /\ j < k => rest[j] = s[j]
          /\ j >= k => rest[j] = s[j + 1]
      BY <2>10
    <3>2. PICK l \in 1..Len(s) : rest[i] = s[l] /\ l = (IF i < k THEN i ELSE i + 1)
      BY <3>1
    <3>3. PICK m \in 1..Len(s) : rest[j] = s[m] /\ m = (IF j < k THEN j ELSE j + 1)
      BY <3>1
    <3>4. s[l] = s[m]
      BY <3>2, <3>3
    <3>5. \A c, d \in 1..Len(s) : s[c] = s[d] => c = d
      BY DEF IsInjective
    <3>6. l = m
      BY <3>4, <3>5
    <3>7. QED
      BY <3>2, <3>3, <3>6
  <2>12. Range(rest) = Range(s) \ {x}
    <3>1. ASSUME NEW j \in 1..Len(rest) PROVE rest[j] \in Range(s) \ {x}
      <4>1. PICK l \in 1..Len(s) : l # k /\ rest[j] = s[l]
        <5>1. CASE j < k
          <6>1. j \in 1..(k - 1) /\ j \in 1..Len(s) /\ j # k
            BY <5>1
          <6>2. QED
            BY <2>10, <6>1
        <5>2. CASE j >= k
          <6>1. j \in k..(Len(s) - 1) /\ j + 1 \in 1..Len(s) /\ j + 1 # k
            BY <2>8, <5>2
          <6>2. QED
            BY <2>10, <6>1
        <5>3. QED
          BY <5>1, <5>2
      <4>2. s[l] # x
        BY <2>1, <4>1 DEF IsInjective
      <4>3. QED
        BY <4>1, <4>2 DEF Range
    <3>2. ASSUME NEW l \in 1..Len(s), s[l] # x PROVE \E j \in 1..Len(rest) : rest[j] = s[l]
      <4>1. CASE l < k
        BY <2>8, <2>10, <4>1
      <4>2. CASE l > k
        <5>1. PICK j \in k..(Len(s) - 1) : j + 1 = l
          BY <4>2
        <5>2. j \in 1..Len(rest)
          BY <2>8, <5>1
        <5>3. rest[j] = s[l]
          BY <2>10, <5>1
        <5>4. QED
          BY <5>2, <5>3
      <4>3. QED
        BY <2>1, <3>2, <4>1, <4>2
    <3>3. ASSUME NEW y \in Range(rest) PROVE y \in Range(s) \ {x}
      BY <2>8, <3>1 DEF Range
    <3>4. ASSUME NEW y \in Range(s) \ {x} PROVE y \in Range(rest)
      <4>1. PICK l \in 1..Len(s) : y = s[l]
        BY DEF Range
      <4>2. QED
        BY <2>8, <3>2, <4>1 DEF Range
    <3>5. QED
      BY <3>3, <3>4
  <2>13. QED
    BY <2>7, <2>8, <2>11, <2>12
<1>2. CASE ~\E k \in 1..Len(s) : s[k] = x
  BY <1>2 DEF RemoveFirst, Range
<1>3. QED
  BY <1>1, <1>2

(* And one put behind the rest.                                            *)
LEMMA PutBehind ==
    ASSUME NEW S, NEW s \in Seq(S), IsInjective(s), NEW x \in S, x \notin Range(s)
    PROVE  /\ Append(s, x) \in Seq(S) /\ IsInjective(Append(s, x))
           /\ Range(Append(s, x)) = Range(s) \cup {x}
           /\ Len(Append(s, x)) = Len(s) + 1 /\ Append(s, x)[Len(s) + 1] = x
           /\ \A j \in 1..Len(s) : Append(s, x)[j] = s[j]
<1> DEFINE t == Append(s, x)
<1>1. /\ t \in Seq(S) /\ Len(t) = Len(s) + 1 /\ t[Len(s) + 1] = x
      /\ \A j \in 1..Len(s) : t[j] = s[j]
  OBVIOUS
<1> HIDE DEF t
<1>2. \A j \in 1..Len(t) : j \in 1..Len(s) \/ j = Len(s) + 1
  BY <1>1
<1>3. Range(t) = Range(s) \cup {x}
  BY <1>1, <1>2 DEF Range
<1>4. \A j \in 1..Len(s) : s[j] # x
  BY DEF Range
<1>5. IsInjective(t)
  <2> SUFFICES ASSUME NEW a \in 1..Len(t), NEW b \in 1..Len(t), t[a] = t[b] PROVE a = b
    BY <1>1 DEF IsInjective
  <2>1. QED
    BY <1>1, <1>2, <1>4 DEF IsInjective
<1>6. QED
  BY <1>1, <1>3, <1>5 DEF t

-----------------------------------------------------------------------------
(* The invariant of the plugins.  Of each plugin the instances are on the  *)
(* stack in the order they were applied in.                                *)
StackOrder ==
    /\ \A a \in 1..Len(stack) : stack[a][2] <= applied[stack[a][1]]
    /\ \A a, b \in 1..Len(stack) :
         a < b /\ stack[a][1] = stack[b][1] => stack[a][2] < stack[b][2]
    /\ \A i \in Range(listeners) : i[2] <= applied[i[1]]

(* What listens still has its function on the stack, below the place that  *)
(* ctx.dispose() has come to; or came late, or was given up.               *)
Remaining ==
    /\ phase = "up" => at = 0 /\ late = {} /\ Range(listeners) \subseteq Range(stack)
    /\ phase = "disposing" =>
         \A i \in Range(listeners) \ (late \cup stuck) : \E k \in 1..at : stack[k] = i
    /\ phase \in {"stopping", "down"} => at = 0 /\ Range(listeners) \subseteq late \cup stuck
    /\ \A i \in stuck : i[1] \in Slow

(* Of a bundled plugin only the recorded instance listens, which is the    *)
(* one applied last, and until the shutdown it does.                       *)
InTune(p) ==
    /\ loaded[p] \in {0, applied[p]}
    /\ \A i \in Range(listeners) : i[1] = p => loaded[p] # 0 /\ i[2] = loaded[p]
    /\ phase = "up" =>
         IF loaded[p] = 0 THEN service[p] = 0
         ELSE service[p] = loaded[p] /\ <<p, loaded[p]>> \in Range(listeners)
    /\ phase # "down" => \A i \in Range(listeners) \ late : i[1] = p => service[p] = i[2]

OneListens == \A p \in Plugins \ Slow : InTune(p)

(* An emission has called the first ones of its copy.                      *)
WalkOK ==
    /\ ~walking => copy = <<>> /\ called = <<>>
    /\ IsInjective(copy) /\ Len(called) <= Len(copy)
    /\ \A k \in 1..Len(called) : called[k] = copy[k]
    /\ walking => steady \subseteq Range(copy)

Tables == loaded \in [Plugins -> Nat] /\ service \in [Plugins -> Nat]

LoaderInv == TypeOK /\ Tables /\ StackOrder /\ Remaining /\ OneListens /\ WalkOK

(* What a request may be about to do.                                    *)
Pending == {Idle} \cup {Applying(p) : p \in Slow}
                  \cup {Disposing(i) : i \in Slow \X (1..MaxLoads)}

RequestOK == request \in [Requests -> Pending]

(* The initial states satisfy the invariant.                               *)
LEMMA LoaderInit == Init => LoaderInv
<1> SUFFICES ASSUME Init PROVE LoaderInv
  OBVIOUS
<1>1. /\ listeners = <<>> /\ stack = <<>> /\ copy = <<>> /\ called = <<>>
      /\ phase = "up" /\ at = 0 /\ walking = FALSE /\ steady = {} /\ late = {} /\ stuck = {}
  BY DEF Init
<1>2. /\ <<>> \in Seq(Instances) /\ Len(<<>>) = 0 /\ IsInjective(<<>>) /\ Range(<<>>) = {}
  BY DEF IsInjective, Range
<1>3. /\ \A p \in Plugins : applied[p] = 0 /\ loaded[p] = 0 /\ service[p] = 0
      /\ Tables /\ applied \in [Plugins -> 0..MaxLoads]
      /\ imported \in [Plugins -> {"no", "partly", "whole"}]
  BY PluginAssumption DEF Init, Tables
<1>4. request \in [Requests -> {Idle} \cup {Applying(p) : p \in Slow}
                                    \cup {Disposing(i) : i \in Slow \X (1..MaxLoads)}]
  BY DEF Init
<1>5. TypeOK
  <2>1. \A p \in Plugins : loaded[p] \in 0..applied[p] /\ service[p] \in 0..applied[p]
    BY <1>3
  <2>2. listeners \in Seq(Instances) /\ IsInjective(listeners) /\ stack \in Seq(Instances) /\ IsInjective(stack)
    BY <1>1, <1>2
  <2>3. walking \in BOOLEAN /\ phase \in {"up", "disposing", "stopping", "down"}
    BY <1>1
  <2>4. at \in 0..Len(stack)
    BY <1>1, <1>2
  <2>5. copy \in Seq(Instances) /\ called \in Seq(Instances)
    BY <1>1
  <2>6. steady \subseteq Range(listeners) /\ late \subseteq Instances /\ stuck \subseteq Instances
    BY <1>1
  <2>7. QED
    BY <1>3, <1>4, <2>1, <2>2, <2>3, <2>4, <2>5, <2>6 DEF TypeOK
<1>6. StackOrder /\ Remaining /\ OneListens /\ WalkOK
  BY <1>1, <1>2, <1>3 DEF StackOrder, Remaining, OneListens, InTune, WalkOK
<1>7. QED
  BY <1>3, <1>5, <1>6 DEF LoaderInv

(* An instance is a plugin with a number.                                  *)
LEMMA InstanceIs ==
    ASSUME NEW i \in Instances
    PROVE  i[1] \in Plugins /\ i[2] \in 1..MaxLoads /\ i[2] \in Nat /\ i = <<i[1], i[2]>>
  BY PluginAssumption DEF Instances

(* What a request disposes of is an instance.                              *)
LEMMA SlowInstances == Slow \X (1..MaxLoads) \subseteq Instances
  BY PluginAssumption DEF Instances

(* What a request may be about to do.                                      *)
LEMMA RequestIs ==
    ASSUME RequestOK, NEW r \in Requests
    PROVE  /\ \A v \in Pending : [request EXCEPT ![r] = v] \in [Requests -> Pending]
           /\ \A i : request[r] = Disposing(i) => i \in Slow \X (1..MaxLoads)
<1>1. request[r] \in Pending
  BY DEF RequestOK
<1>2. ASSUME NEW i, request[r] = Disposing(i) PROVE i \in Slow \X (1..MaxLoads)
  <2>1. request[r].doing = "disposing" /\ request[r].instance = i
    BY <1>2 DEF Disposing
  <2>2. request[r] # Idle
    BY <2>1 DEF Idle
  <2>3. \A p : request[r] # Applying(p)
    BY <2>1 DEF Applying
  <2>4. PICK j \in Slow \X (1..MaxLoads) : request[r] = Disposing(j)
    BY <1>1, <2>2, <2>3 DEF Pending
  <2>5. request[r].instance = j
    BY <2>4 DEF Disposing
  <2>6. QED
    BY <2>1, <2>4, <2>5
<1>3. \A v \in Pending : [request EXCEPT ![r] = v] \in [Requests -> Pending]
  BY DEF RequestOK
<1>4. QED
  BY <1>2, <1>3

(* What requests are about to do, as the types have it.                    *)
LEMMA TypedRequests == TypeOK => RequestOK
  BY DEF TypeOK, RequestOK, Pending

(* What registers is new.                                                  *)
LEMMA RegisterIs ==
    ASSUME LoaderInv, NEW p \in Plugins, Register(p)
    PROVE  \E i \in Instances :
             /\ i = <<p, applied[p] + 1>> /\ i[1] = p /\ i[2] = applied[p] + 1
             /\ i \notin Range(listeners) /\ i \notin Range(stack)
             /\ applied' \in [Plugins -> 0..MaxLoads] /\ applied'[p] = i[2]
             /\ Tables' /\ loaded'[p] = i[2] /\ service'[p] = i[2]
             /\ \A q \in Plugins : q # p => /\ applied'[q] = applied[q]
                                            /\ loaded'[q] = loaded[q]
                                            /\ service'[q] = service[q]
             /\ listeners' = Append(listeners, i) /\ stack' = Append(stack, i)
             /\ late' = IF phase = "up" THEN late ELSE late \cup {i}
<1> DEFINE i == <<p, applied[p] + 1>>
<1>1. /\ applied \in [Plugins -> 0..MaxLoads] /\ applied[p] \in 0..MaxLoads /\ MaxLoads \in Nat
      /\ applied[p] < MaxLoads /\ applied[p] \in Nat
  BY PluginAssumption DEF Register, LoaderInv, TypeOK
<1>2. applied[p] + 1 \in 1..MaxLoads /\ applied[p] + 1 \in Nat
  BY <1>1
<1>3. i \in Instances /\ i[1] = p /\ i[2] = applied[p] + 1
  BY <1>2 DEF Instances
<1>4. /\ applied' = [applied EXCEPT ![p] = i[2]] /\ service' = [service EXCEPT ![p] = i[2]]
      /\ loaded' = [loaded EXCEPT ![p] = i[2]]
      /\ listeners' = Append(listeners, i) /\ stack' = Append(stack, i)
      /\ late' = IF phase = "up" THEN late ELSE late \cup {i}
  BY <1>3 DEF Register
<1>5. i \notin Range(listeners) /\ i \notin Range(stack)
  <2>1. ~(i[2] <= applied[i[1]])
    BY <1>1, <1>3
  <2>2. i \notin Range(listeners)
    BY <2>1 DEF LoaderInv, StackOrder
  <2>3. \A a \in 1..Len(stack) : stack[a] # i
    BY <2>1 DEF LoaderInv, StackOrder
  <2>4. DOMAIN stack = 1..Len(stack)
    BY DEF LoaderInv, TypeOK
  <2>5. QED
    BY <2>2, <2>3, <2>4 DEF Range
<1> HIDE DEF i
<1>6. applied' \in [Plugins -> 0..MaxLoads] /\ Tables'
  BY <1>1, <1>2, <1>3, <1>4 DEF LoaderInv, Tables
<1>7. /\ applied'[p] = i[2] /\ loaded'[p] = i[2] /\ service'[p] = i[2]
      /\ \A q \in Plugins : q # p => /\ applied'[q] = applied[q] /\ loaded'[q] = loaded[q]
                                     /\ service'[q] = service[q]
  BY <1>1, <1>4 DEF LoaderInv, Tables
<1>8. QED
  BY <1>3, <1>4, <1>5, <1>6, <1>7 DEF i

(* What a dispose function leaves.                                         *)
LEMMA DisposedIs ==
    ASSUME LoaderInv, NEW i \in Instances, Disposed(i)
    PROVE  /\ listeners' \in Seq(Instances) /\ IsInjective(listeners')
           /\ Range(listeners') = Range(listeners) \ {i}
           /\ service' \in [Plugins -> Nat] /\ service'[i[1]] = 0
           /\ \A q \in Plugins : q # i[1] => service'[q] = service[q]
           /\ steady' = steady \ {i}
<1>1. listeners \in Seq(Instances) /\ IsInjective(listeners)
  BY DEF LoaderInv, TypeOK
<1>2. listeners' \in Seq(Instances) /\ IsInjective(listeners') /\ Range(listeners') = Range(listeners) \ {i}
  BY <1>1, TakenOut DEF Disposed
<1>3. service \in [Plugins -> Nat] /\ i[1] \in Plugins
  BY InstanceIs DEF LoaderInv, Tables
<1>4. /\ service' \in [Plugins -> Nat] /\ service'[i[1]] = 0
      /\ \A q \in Plugins : q # i[1] => service'[q] = service[q]
  BY <1>3 DEF Disposed
<1>5. QED
  BY <1>2, <1>4 DEF Disposed

(* Registering keeps the invariant.                                        *)
LEMMA RegisterKeeps ==
    ASSUME LoaderInv, NEW p \in Plugins, Register(p), p \in Slow \/ loaded[p] = 0,
           UNCHANGED <<phase, at, emission, steady, stuck>>,
           imported' \in [Plugins -> {"no", "partly", "whole"}], RequestOK'
    PROVE  LoaderInv'
<1>1. PICK i \in Instances :
        /\ i = <<p, applied[p] + 1>> /\ i[1] = p /\ i[2] = applied[p] + 1
        /\ i \notin Range(listeners) /\ i \notin Range(stack)
        /\ applied' \in [Plugins -> 0..MaxLoads] /\ applied'[p] = i[2]
        /\ Tables' /\ loaded'[p] = i[2] /\ service'[p] = i[2]
        /\ \A q \in Plugins : q # p => /\ applied'[q] = applied[q]
                                       /\ loaded'[q] = loaded[q]
                                       /\ service'[q] = service[q]
        /\ listeners' = Append(listeners, i) /\ stack' = Append(stack, i)
        /\ late' = IF phase = "up" THEN late ELSE late \cup {i}
  BY RegisterIs
<1>2. /\ listeners \in Seq(Instances) /\ IsInjective(listeners)
      /\ stack \in Seq(Instances) /\ IsInjective(stack)
  BY DEF LoaderInv, TypeOK
<1>3. i \in Instances /\ i \notin Range(listeners) /\ i \notin Range(stack)
  BY <1>1
<1>4. /\ listeners' \in Seq(Instances) /\ IsInjective(listeners')
      /\ Range(listeners') = Range(listeners) \cup {i}
  <2>1. /\ Append(listeners, i) \in Seq(Instances) /\ IsInjective(Append(listeners, i))
        /\ Range(Append(listeners, i)) = Range(listeners) \cup {i}
    BY <1>2, <1>3, PutBehind
  <2>2. QED
    BY <1>1, <2>1
<1>5. /\ stack' \in Seq(Instances) /\ IsInjective(stack')
      /\ Range(stack') = Range(stack) \cup {i}
      /\ Len(stack') = Len(stack) + 1 /\ stack'[Len(stack) + 1] = i
      /\ \A j \in 1..Len(stack) : stack'[j] = stack[j]
  <2>1. /\ Append(stack, i) \in Seq(Instances) /\ IsInjective(Append(stack, i))
        /\ Range(Append(stack, i)) = Range(stack) \cup {i}
        /\ Len(Append(stack, i)) = Len(stack) + 1 /\ Append(stack, i)[Len(stack) + 1] = i
        /\ \A j \in 1..Len(stack) : Append(stack, i)[j] = stack[j]
    BY <1>2, <1>3, PutBehind
  <2>2. QED
    BY <1>1, <2>1
<1>6. Len(stack) \in Nat /\ \A a \in 1..Len(stack') : a \in 1..Len(stack) \/ a = Len(stack) + 1
  BY <1>2, <1>5
<1>7. /\ at \in 0..Len(stack) /\ at' = at /\ phase' = phase /\ stuck' = stuck /\ steady' = steady
      /\ walking' = walking /\ copy' = copy /\ called' = called
  BY DEF LoaderInv, TypeOK, emission
<1>8. i[2] \in 1..MaxLoads /\ i[2] \in Nat
  BY <1>1, InstanceIs
<1>9. \A q \in Plugins : applied[q] \in 0..MaxLoads /\ applied[q] \in Nat
  BY PluginAssumption DEF LoaderInv, TypeOK
<1>10. \A q \in Plugins : applied[q] <= applied'[q] /\ applied'[q] \in Nat
  BY <1>1, <1>8, <1>9
<1>11. TypeOK'
  <2>1. \A q \in Plugins : loaded'[q] \in 0..applied'[q] /\ service'[q] \in 0..applied'[q]
    <3> SUFFICES ASSUME NEW q \in Plugins
                 PROVE  loaded'[q] \in 0..applied'[q] /\ service'[q] \in 0..applied'[q]
      OBVIOUS
    <3>1. CASE q = p
      BY <1>1, <1>8, <3>1
    <3>2. CASE q # p
      <4>1. loaded[q] \in 0..applied[q] /\ service[q] \in 0..applied[q]
        BY DEF LoaderInv, TypeOK
      <4>2. QED
        BY <1>1, <3>2, <4>1
    <3>3. QED
      BY <3>1, <3>2
  <2>2. at' \in 0..Len(stack')
    BY <1>5, <1>6, <1>7
  <2>3. steady' \subseteq Range(listeners')
    BY <1>4, <1>7 DEF LoaderInv, TypeOK
  <2>4. late' \subseteq Instances
    BY <1>1 DEF LoaderInv, TypeOK
  <2>5. /\ phase' \in {"up", "disposing", "stopping", "down"} /\ walking' \in BOOLEAN
        /\ copy' \in Seq(Instances) /\ called' \in Seq(Instances) /\ stuck' \subseteq Instances
    BY <1>7 DEF LoaderInv, TypeOK
  <2>6. QED
    BY <1>1, <1>4, <1>5, <2>1, <2>2, <2>3, <2>4, <2>5 DEF TypeOK, RequestOK, Pending
<1>12. StackOrder'
  <2>1. \A a \in 1..Len(stack) : /\ stack[a] \in Instances /\ stack[a][1] \in Plugins
                                 /\ stack[a][2] \in Nat
                                 /\ stack[a][2] <= applied[stack[a][1]]
    BY <1>2, InstanceIs DEF LoaderInv, StackOrder
  <2>2. \A a \in 1..Len(stack') : stack'[a][2] <= applied'[stack'[a][1]]
    <3> SUFFICES ASSUME NEW a \in 1..Len(stack') PROVE stack'[a][2] <= applied'[stack'[a][1]]
      OBVIOUS
    <3>1. CASE a \in 1..Len(stack)
      <4>1. stack'[a] = stack[a]
        BY <1>5, <3>1
      <4>2. PICK q \in Plugins : q = stack[a][1]
        BY <2>1, <3>1
      <4>3. stack[a][2] <= applied[q] /\ stack[a][2] \in Nat
        BY <2>1, <3>1, <4>2
      <4>4. stack[a][2] <= applied'[q]
        BY <1>9, <1>10, <4>3
      <4>5. QED
        BY <4>1, <4>2, <4>4
    <3>2. CASE a = Len(stack) + 1
      BY <1>1, <1>5, <1>8, <3>2
    <3>3. QED
      BY <1>6, <3>1, <3>2
  <2>3. ASSUME NEW a \in 1..Len(stack'), NEW b \in 1..Len(stack'), a < b, stack'[a][1] = stack'[b][1]
        PROVE  stack'[a][2] < stack'[b][2]
    <3>1. a \in 1..Len(stack)
      BY <1>5, <1>6, <2>3
    <3>2. CASE b \in 1..Len(stack)
      BY <1>5, <2>3, <3>1, <3>2 DEF LoaderInv, StackOrder
    <3>3. CASE b = Len(stack) + 1
      <4>1. stack[a][1] = p /\ stack[a][2] <= applied[p]
        BY <1>1, <1>5, <2>1, <2>3, <3>1, <3>3
      <4>2. stack[a][2] < i[2]
        BY <1>1, <1>9, <2>1, <3>1, <4>1
      <4>3. QED
        BY <1>5, <3>1, <3>3, <4>2
    <3>4. QED
      BY <1>6, <3>2, <3>3
  <2>4. \A j \in Range(listeners') : j[2] <= applied'[j[1]]
    <3> SUFFICES ASSUME NEW j \in Range(listeners') PROVE j[2] <= applied'[j[1]]
      OBVIOUS
    <3>1. CASE j \in Range(listeners)
      <4>1. j \in Instances
        BY <1>2, <3>1 DEF Range
      <4>2. j[2] <= applied[j[1]]
        BY <3>1 DEF LoaderInv, StackOrder
      <4>3. j[1] \in Plugins /\ j[2] \in Nat
        BY <4>1, InstanceIs
      <4>4. QED
        BY <1>9, <1>10, <4>2, <4>3
    <3>2. CASE j = i
      BY <1>1, <1>8, <3>2
    <3>3. QED
      BY <1>4, <3>1, <3>2
  <2>5. QED
    BY <2>2, <2>3, <2>4 DEF StackOrder
<1>13. Remaining'
  <2>1. phase = "up" => at = 0 /\ late' = {} /\ Range(listeners') \subseteq Range(stack')
    BY <1>1, <1>4, <1>5 DEF LoaderInv, Remaining
  <2>2. ASSUME phase = "disposing", NEW j \in Range(listeners') \ (late' \cup stuck)
        PROVE  \E k \in 1..at : stack'[k] = j
    <3>1. j \in Range(listeners) \ (late \cup stuck)
      BY <1>1, <1>4, <2>2
    <3>2. PICK k \in 1..at : stack[k] = j
      BY <2>2, <3>1 DEF LoaderInv, Remaining
    <3>3. stack'[k] = stack[k]
      BY <1>5, <1>6, <1>7
    <3>4. QED
      BY <3>2, <3>3
  <2>3. phase \in {"stopping", "down"} => at = 0 /\ Range(listeners') \subseteq late' \cup stuck
    BY <1>1, <1>4 DEF LoaderInv, Remaining
  <2>4. \A j \in stuck : j[1] \in Slow
    BY DEF LoaderInv, Remaining
  <2>5. QED
    BY <1>7, <2>1, <2>2, <2>3, <2>4 DEF Remaining
<1>14. OneListens'
  <2> SUFFICES ASSUME NEW q \in Plugins \ Slow
               PROVE  /\ loaded'[q] \in {0, applied'[q]}
                      /\ \A j \in Range(listeners') : j[1] = q => loaded'[q] # 0 /\ j[2] = loaded'[q]
                      /\ phase' = "up" =>
                           IF loaded'[q] = 0 THEN service'[q] = 0
                           ELSE service'[q] = loaded'[q] /\ <<q, loaded'[q]>> \in Range(listeners')
                      /\ phase' # "down" => \A j \in Range(listeners') \ late' : j[1] = q => service'[q] = j[2]
    BY DEF OneListens, InTune
  <2>1. /\ loaded[q] \in {0, applied[q]}
        /\ \A j \in Range(listeners) : j[1] = q => loaded[q] # 0 /\ j[2] = loaded[q]
        /\ phase = "up" =>
             IF loaded[q] = 0 THEN service[q] = 0
             ELSE service[q] = loaded[q] /\ <<q, loaded[q]>> \in Range(listeners)
        /\ phase # "down" => \A j \in Range(listeners) \ late : j[1] = q => service[q] = j[2]
    BY DEF LoaderInv, OneListens, InTune
  <2>2. CASE q = p
    <3>1. \A j \in Range(listeners') : j[1] = p => j = i
      BY <1>4, <2>1, <2>2
    <3>2. i \in Range(listeners') /\ <<p, loaded'[p]>> = i
      BY <1>1, <1>4
    <3>3. loaded'[p] # 0 /\ loaded'[p] = applied'[p] /\ service'[p] = loaded'[p] /\ i[2] = loaded'[p]
      BY <1>1, <1>8
    <3>4. QED
      BY <2>2, <3>1, <3>2, <3>3
  <2>3. CASE q # p
    <3>1. \A j \in Range(listeners') : j[1] = q => j \in Range(listeners)
      BY <1>1, <1>4, <2>3
    <3>2. \A j : j \notin late' => j \notin late
      BY <1>1
    <3>3. loaded'[q] = loaded[q] /\ service'[q] = service[q] /\ applied'[q] = applied[q]
      BY <1>1, <2>3
    <3>4. QED
      BY <1>4, <1>7, <2>1, <3>1, <3>2, <3>3
  <2>4. QED
    BY <2>2, <2>3
<1>15. WalkOK'
  BY <1>7 DEF LoaderInv, WalkOK
<1>16. QED
  BY <1>1, <1>11, <1>12, <1>13, <1>14, <1>15 DEF LoaderInv

(* What only requests, the modules imported and the functions given up     *)
(* change keeps the invariant.                                             *)
LEMMA QuietKeeps ==
    ASSUME LoaderInv,
           UNCHANGED <<applied, loaded, service, listeners, stack, phase, at, emission, steady, late>>,
           imported' \in [Plugins -> {"no", "partly", "whole"}], RequestOK',
           stuck \subseteq stuck', stuck' \subseteq Instances, \A i \in stuck' : i[1] \in Slow
    PROVE  LoaderInv'
<1>1. /\ applied' = applied /\ loaded' = loaded /\ service' = service /\ listeners' = listeners
      /\ stack' = stack /\ phase' = phase /\ at' = at /\ steady' = steady /\ late' = late
      /\ walking' = walking /\ copy' = copy /\ called' = called
  BY DEF emission
<1>2. TypeOK' /\ Tables'
  BY <1>1 DEF LoaderInv, TypeOK, Tables, RequestOK, Pending
<1>3. StackOrder' /\ WalkOK'
  BY <1>1 DEF LoaderInv, StackOrder, WalkOK
<1>4. OneListens'
  BY <1>1 DEF LoaderInv, OneListens, InTune
<1>5. Remaining'
  <2>1. phase = "up" => at = 0 /\ late = {} /\ Range(listeners) \subseteq Range(stack)
    BY DEF LoaderInv, Remaining
  <2>2. phase = "disposing" =>
          \A i \in Range(listeners) \ (late \cup stuck') : \E k \in 1..at : stack[k] = i
    BY DEF LoaderInv, Remaining
  <2>3. phase \in {"stopping", "down"} => at = 0 /\ Range(listeners) \subseteq late \cup stuck'
    BY DEF LoaderInv, Remaining
  <2>4. QED
    BY <1>1, <2>1, <2>2, <2>3 DEF Remaining
<1>6. QED
  BY <1>2, <1>3, <1>4, <1>5 DEF LoaderInv

(* What a listener leaving changes in the tables.                          *)
LEMMA DisposedKeeps ==
    ASSUME LoaderInv, NEW i \in Instances, Disposed(i),
           UNCHANGED <<applied, imported, stack, phase, emission, late, stuck>>,
           loaded' \in [Plugins -> Nat], \A p \in Plugins : loaded'[p] \in {0, loaded[p]},
           at' \in 0..Len(stack), RequestOK'
    PROVE  TypeOK' /\ Tables' /\ StackOrder' /\ WalkOK'
<1>1. /\ applied' = applied /\ imported' = imported /\ stack' = stack /\ phase' = phase
      /\ late' = late /\ stuck' = stuck
      /\ walking' = walking /\ copy' = copy /\ called' = called
  BY DEF emission
<1>2. /\ listeners' \in Seq(Instances) /\ IsInjective(listeners')
      /\ Range(listeners') = Range(listeners) \ {i}
      /\ service' \in [Plugins -> Nat] /\ service'[i[1]] = 0
      /\ \A q \in Plugins : q # i[1] => service'[q] = service[q]
      /\ steady' = steady \ {i}
  BY DisposedIs
<1>3. Tables'
  BY <1>2 DEF Tables
<1>4. TypeOK'
  <2>1. \A p \in Plugins : loaded'[p] \in 0..applied'[p] /\ service'[p] \in 0..applied'[p]
    <3> SUFFICES ASSUME NEW p \in Plugins
                 PROVE  loaded'[p] \in 0..applied'[p] /\ service'[p] \in 0..applied'[p]
      OBVIOUS
    <3>1. applied[p] \in Nat /\ loaded[p] \in 0..applied[p] /\ service[p] \in 0..applied[p]
      BY PluginAssumption DEF LoaderInv, TypeOK
    <3>2. loaded'[p] \in {0, loaded[p]} /\ service'[p] \in {0, service[p]}
      BY <1>2
    <3>3. QED
      BY <1>1, <3>1, <3>2
  <2>2. steady' \subseteq Range(listeners')
    BY <1>2 DEF LoaderInv, TypeOK
  <2>3. /\ applied' \in [Plugins -> 0..MaxLoads] /\ imported' \in [Plugins -> {"no", "partly", "whole"}]
        /\ stack' \in Seq(Instances) /\ IsInjective(stack')
    BY <1>1 DEF LoaderInv, TypeOK
  <2>4. /\ phase' \in {"up", "disposing", "stopping", "down"} /\ walking' \in BOOLEAN
        /\ copy' \in Seq(Instances) /\ called' \in Seq(Instances)
        /\ late' \subseteq Instances /\ stuck' \subseteq Instances /\ at' \in 0..Len(stack')
    BY <1>1 DEF LoaderInv, TypeOK
  <2>5. QED
    BY <1>2, <2>1, <2>2, <2>3, <2>4 DEF TypeOK, RequestOK, Pending
<1>5. StackOrder'
  BY <1>1, <1>2 DEF LoaderInv, StackOrder
<1>6. WalkOK'
  BY <1>1, <1>2 DEF LoaderInv, WalkOK
<1>7. QED
  BY <1>3, <1>4, <1>5, <1>6

(* A plugin that a step is not about stays in tune.                        *)
LEMMA OtherInTune ==
    ASSUME NEW q \in Plugins, InTune(q), UNCHANGED <<phase, late>>,
           applied'[q] = applied[q], loaded'[q] = loaded[q], service'[q] = service[q],
           \A j : j[1] = q => (j \in Range(listeners') <=> j \in Range(listeners))
    PROVE  InTune(q)'
<1>1. <<q, loaded[q]>>[1] = q
  OBVIOUS
<1>2. QED
  BY <1>1 DEF InTune

(* What still listens remains to be disposed of as before.                 *)
LEMMA FewerRemain ==
    ASSUME LoaderInv, Range(listeners') \subseteq Range(listeners),
           UNCHANGED <<phase, at, late, stack, stuck>>
    PROVE  Remaining'
  BY DEF LoaderInv, Remaining

(* A request of a plugin that does not suspend, let in, refused or begun.  *)
LEMMA LoadKeeps ==
    ASSUME LoaderInv, NEW r \in Requests, NEW p \in Plugins,
           Load(r, p) \/ LoadRefused(r, p) \/ LoadSlow(r, p)
    PROVE  LoaderInv'
<1>1. /\ [imported EXCEPT ![p] = "whole"] \in [Plugins -> {"no", "partly", "whole"}]
      /\ [imported EXCEPT ![p] = "partly"] \in [Plugins -> {"no", "partly", "whole"}]
  BY DEF LoaderInv, TypeOK
<1>2. RequestOK
  BY TypedRequests DEF LoaderInv
<1>3. stuck \subseteq Instances /\ \A i \in stuck : i[1] \in Slow
  BY DEF LoaderInv, TypeOK, Remaining
<1>4. CASE Load(r, p)
  <2>1. Register(p) /\ loaded[p] = 0 /\ UNCHANGED <<phase, at, emission, steady, stuck>>
    BY <1>4 DEF Load, MayLoad
  <2>2. imported' \in [Plugins -> {"no", "partly", "whole"}]
    BY <1>1, <1>4 DEF Load
  <2>3. RequestOK'
    BY <1>2, <1>4 DEF Load, RequestOK
  <2>4. QED
    BY <2>1, <2>2, <2>3, RegisterKeeps
<1>5. CASE LoadRefused(r, p)
  <2>1. UNCHANGED <<applied, loaded, service, listeners, stack, phase, at, emission, steady, late>>
        /\ stuck' = stuck
    BY <1>5 DEF LoadRefused
  <2>2. imported' \in [Plugins -> {"no", "partly", "whole"}]
    BY <1>1, <1>5 DEF LoadRefused
  <2>3. RequestOK'
    BY <1>2, <1>5 DEF LoadRefused, RequestOK
  <2>4. QED
    BY <1>3, <2>1, <2>2, <2>3, QuietKeeps
<1>6. CASE LoadSlow(r, p)
  <2>1. UNCHANGED <<applied, loaded, service, listeners, stack, phase, at, emission, steady, late>>
        /\ stuck' = stuck
    BY <1>6 DEF LoadSlow
  <2>2. imported' \in [Plugins -> {"no", "partly", "whole"}]
    BY <1>1, <1>6 DEF LoadSlow
  <2>3. RequestOK'
    <3>1. Applying(p) \in Pending
      BY <1>6 DEF LoadSlow, Pending
    <3>2. request' = request \/ request' = [request EXCEPT ![r] = Applying(p)]
      BY <1>6 DEF LoadSlow
    <3>3. request' \in [Requests -> Pending]
      BY <1>2, <3>1, <3>2, RequestIs DEF RequestOK
    <3>4. QED
      BY <3>3 DEF RequestOK
  <2>4. QED
    BY <1>3, <2>1, <2>2, <2>3, QuietKeeps
<1>7. QED
  BY <1>4, <1>5, <1>6

(* A request whose apply() has returned or raised.                         *)
LEMMA ApplyKeeps ==
    ASSUME LoaderInv, NEW r \in Requests, NEW p \in Plugins,
           ApplyEnds(r, p) \/ ApplyRaises(r, p)
    PROVE  LoaderInv'
<1>1. RequestOK /\ imported \in [Plugins -> {"no", "partly", "whole"}]
  BY TypedRequests DEF LoaderInv, TypeOK
<1>2. stuck \subseteq Instances /\ \A i \in stuck : i[1] \in Slow
  BY DEF LoaderInv, TypeOK, Remaining
<1>3. request' = [request EXCEPT ![r] = Idle]
  BY DEF ApplyEnds, ApplyRaises
<1>4. RequestOK'
  <2>1. Idle \in Pending
    BY DEF Pending
  <2>2. request' \in [Requests -> Pending]
    BY <1>1, <1>3, <2>1, RequestIs
  <2>3. QED
    BY <2>2 DEF RequestOK
<1>5. CASE ApplyEnds(r, p)
  <2>1. p \in Slow
    <3>1. request[r] \in Pending /\ request[r] = Applying(p)
      BY <1>1, <1>5 DEF RequestOK, ApplyEnds
    <3>2. request[r].doing = "applying" /\ request[r].plugin = p
      BY <3>1 DEF Applying
    <3>3. request[r] # Idle /\ \A i : request[r] # Disposing(i)
      BY <3>2 DEF Idle, Disposing
    <3>4. PICK q \in Slow : request[r] = Applying(q)
      BY <3>1, <3>3 DEF Pending
    <3>5. request[r].plugin = q
      BY <3>4 DEF Applying
    <3>6. QED
      BY <3>2, <3>4, <3>5
  <2>2. Register(p) /\ UNCHANGED <<phase, at, emission, steady, stuck>> /\ imported' = imported
    BY <1>5 DEF ApplyEnds
  <2>3. QED
    BY <1>1, <1>4, <2>1, <2>2, RegisterKeeps
<1>6. CASE ApplyRaises(r, p)
  <2>1. UNCHANGED <<applied, loaded, service, listeners, stack, phase, at, emission, steady, late>>
        /\ stuck' = stuck /\ imported' = imported
    BY <1>6 DEF ApplyRaises, ctxVars
  <2>2. QED
    BY <1>1, <1>2, <1>4, <2>1, QuietKeeps
<1>7. QED
  BY <1>5, <1>6

(* Unloading a plugin keeps the invariant.                                 *)
LEMMA UnloadKeeps ==
    ASSUME LoaderInv, NEW r \in Requests, NEW p \in Plugins, Unload(r, p)
    PROVE  LoaderInv'
<1>1. PICK i \in Instances : i = <<p, loaded[p]>> /\ i[1] = p /\ i[2] = loaded[p]
  <2>1. loaded[p] \in 0..applied[p] /\ applied[p] \in 0..MaxLoads /\ loaded[p] # 0 /\ MaxLoads \in Nat
    BY PluginAssumption DEF LoaderInv, TypeOK, Unload
  <2>2. loaded[p] \in 1..MaxLoads
    BY <2>1
  <2>3. <<p, loaded[p]>> \in Instances
    BY <2>2 DEF Instances
  <2>4. <<p, loaded[p]>>[1] = p /\ <<p, loaded[p]>>[2] = loaded[p]
    OBVIOUS
  <2>5. QED
    BY <2>3, <2>4
<1>2. /\ UNCHANGED <<applied, imported, stack, phase, at, emission, late, stuck>>
      /\ loaded' = [loaded EXCEPT ![p] = 0] /\ loaded \in [Plugins -> Nat]
  BY DEF Unload, LoaderInv, Tables
<1>3. /\ loaded' \in [Plugins -> Nat] /\ loaded'[p] = 0
      /\ \A q \in Plugins : q # p => loaded'[q] = loaded[q]
      /\ \A q \in Plugins : loaded'[q] \in {0, loaded[q]}
  BY <1>2
<1>4. RequestOK /\ at \in 0..Len(stack) /\ Remaining
  BY TypedRequests DEF LoaderInv, TypeOK
<1>5. CASE p \in Slow
  <2>1. request' = [request EXCEPT ![r] = Disposing(i)] /\ UNCHANGED <<listeners, service, steady>>
    BY <1>1, <1>5 DEF Unload
  <2>2. RequestOK'
    <3>1. i \in Slow \X (1..MaxLoads)
      BY <1>1, <1>5, InstanceIs
    <3>2. Disposing(i) \in Pending
      BY <3>1 DEF Pending
    <3>3. request' \in [Requests -> Pending]
      BY <1>4, <2>1, <3>2, RequestIs
    <3>4. QED
      BY <3>3 DEF RequestOK
  <2>3. TypeOK'
    <3>1. \A q \in Plugins : loaded'[q] \in 0..applied'[q] /\ service'[q] \in 0..applied'[q]
      BY <1>2, <1>3, <2>1, PluginAssumption DEF LoaderInv, TypeOK
    <3>2. QED
      BY <1>2, <2>1, <2>2, <3>1 DEF LoaderInv, TypeOK, RequestOK, Pending, emission
  <2>4. Tables' /\ StackOrder' /\ WalkOK'
    BY <1>2, <1>3, <2>1 DEF LoaderInv, Tables, StackOrder, WalkOK, emission
  <2>5. Remaining'
    BY <1>2, <2>1, FewerRemain
  <2>6. OneListens'
    <3> SUFFICES ASSUME NEW q \in Plugins \ Slow PROVE InTune(q)'
      BY DEF OneListens
    <3>1. InTune(q) /\ q # p
      BY <1>5 DEF LoaderInv, OneListens
    <3>2. QED
      BY <1>2, <1>3, <2>1, <3>1, OtherInTune
  <2>7. QED
    BY <2>3, <2>4, <2>5, <2>6 DEF LoaderInv
<1>6. CASE p \notin Slow
  <2>1. Disposed(i) /\ request' = request
    BY <1>1, <1>6 DEF Unload
  <2>2. RequestOK'
    BY <1>4, <2>1 DEF RequestOK
  <2>3. /\ Range(listeners') = Range(listeners) \ {i} /\ service'[p] = 0
        /\ \A q \in Plugins : q # p => service'[q] = service[q]
        /\ listeners \in Seq(Instances)
    BY <1>1, <2>1, DisposedIs DEF LoaderInv, TypeOK
  <2>4. TypeOK' /\ Tables' /\ StackOrder' /\ WalkOK'
    BY <1>2, <1>3, <1>4, <2>1, <2>2, DisposedKeeps
  <2>5. Remaining'
    BY <1>2, <2>3, FewerRemain
  <2>6. OneListens'
    <3> SUFFICES ASSUME NEW q \in Plugins \ Slow PROVE InTune(q)'
      BY DEF OneListens
    <3>1. InTune(q)
      BY DEF LoaderInv, OneListens
    <3>2. CASE q = p
      <4>1. ASSUME NEW j \in Range(listeners'), j[1] = p PROVE FALSE
        <5>1. j \in Range(listeners) /\ j # i
          BY <2>3, <4>1
        <5>2. j[2] = loaded[p]
          BY <3>1, <3>2, <4>1, <5>1 DEF InTune
        <5>3. j \in Instances
          BY <2>3, <5>1 DEF Range
        <5>4. j = <<j[1], j[2]>>
          BY <5>3, InstanceIs
        <5>5. QED
          BY <1>1, <4>1, <5>1, <5>2, <5>4
      <4>2. QED
        BY <1>3, <2>3, <3>2, <4>1 DEF InTune
    <3>3. CASE q # p
      <4>1. \A j : j[1] = q => (j \in Range(listeners') <=> j \in Range(listeners))
        BY <1>1, <2>3, <3>3
      <4>2. QED
        BY <1>2, <1>3, <2>3, <3>1, <3>3, <4>1, OtherInTune
    <3>4. QED
      BY <3>2, <3>3
  <2>7. QED
    BY <2>4, <2>5, <2>6 DEF LoaderInv
<1>7. QED
  BY <1>5, <1>6

(* A request whose dispose() has returned or raised.                       *)
LEMMA DisposeKeeps ==
    ASSUME LoaderInv, NEW r \in Requests, NEW i \in Instances,
           DisposeEnds(r, i) \/ DisposeRaises(r, i)
    PROVE  LoaderInv'
<1>1. /\ RequestOK /\ at \in 0..Len(stack) /\ Remaining
      /\ loaded \in [Plugins -> Nat] /\ imported \in [Plugins -> {"no", "partly", "whole"}]
  BY TypedRequests DEF LoaderInv, TypeOK, Tables
<1>2. request' = [request EXCEPT ![r] = Idle] /\ request[r] = Disposing(i)
  BY DEF DisposeEnds, DisposeRaises
<1>3. RequestOK'
  <2>1. Idle \in Pending
    BY DEF Pending
  <2>2. request' \in [Requests -> Pending]
    BY <1>1, <1>2, <2>1, RequestIs
  <2>3. QED
    BY <2>2 DEF RequestOK
<1>4. i[1] \in Slow
  <2>1. i \in Slow \X (1..MaxLoads)
    BY <1>1, <1>2, RequestIs
  <2>2. QED
    BY <2>1
<1>5. CASE DisposeEnds(r, i)
  <2>1. Disposed(i) /\ UNCHANGED <<applied, imported, loaded, stack, phase, at, emission, late, stuck>>
    BY <1>5 DEF DisposeEnds
  <2>2. /\ Range(listeners') = Range(listeners) \ {i}
        /\ \A q \in Plugins : q # i[1] => service'[q] = service[q]
    BY <2>1, DisposedIs
  <2>3. TypeOK' /\ Tables' /\ StackOrder' /\ WalkOK'
    BY <1>1, <1>3, <2>1, DisposedKeeps
  <2>4. Remaining'
    BY <2>1, <2>2, FewerRemain
  <2>5. OneListens'
    <3> SUFFICES ASSUME NEW q \in Plugins \ Slow PROVE InTune(q)'
      BY DEF OneListens
    <3>1. InTune(q) /\ q # i[1]
      BY <1>4 DEF LoaderInv, OneListens
    <3>2. \A j : j[1] = q => (j \in Range(listeners') <=> j \in Range(listeners))
      BY <2>2, <3>1
    <3>3. QED
      BY <2>1, <2>2, <3>1, <3>2, OtherInTune
  <2>6. QED
    BY <2>3, <2>4, <2>5 DEF LoaderInv
<1>6. CASE DisposeRaises(r, i)
  <2>1. UNCHANGED <<applied, loaded, service, listeners, stack, phase, at, emission, steady, late>>
        /\ stuck' = stuck \cup {i} /\ imported' = imported
    BY <1>6 DEF DisposeRaises, ctxVars
  <2>2. stuck' \subseteq Instances /\ \A j \in stuck' : j[1] \in Slow
    BY <1>4, <2>1 DEF LoaderInv, TypeOK, Remaining
  <2>3. QED
    BY <1>1, <1>3, <2>1, <2>2, QuietKeeps
<1>7. QED
  BY <1>5, <1>6

(* ctx.dispose() calls the next function on its way down: if a bundled     *)
(* plugin's is of an earlier load, what the later load brought is gone.    *)
LEMMA DisposeNextKeeps ==
    ASSUME LoaderInv, DisposeNext
    PROVE  LoaderInv'
<1>1. /\ stack \in Seq(Instances) /\ at \in 0..Len(stack) /\ at > 0 /\ phase = "disposing"
      /\ loaded \in [Plugins -> Nat]
  BY DEF DisposeNext, LoaderInv, TypeOK, Tables
<1>2. at \in 1..Len(stack) /\ Len(stack) \in Nat /\ at - 1 \in 0..Len(stack)
  BY <1>1
<1>3. PICK i \in Instances : i = stack[at]
  BY <1>1, <1>2
<1>4. /\ Disposed(i) /\ at' = at - 1
      /\ UNCHANGED <<applied, imported, loaded, stack, request, phase, emission, late, stuck>>
  BY <1>3 DEF DisposeNext
<1>5. /\ Range(listeners') = Range(listeners) \ {i} /\ service'[i[1]] = 0
      /\ \A q \in Plugins : q # i[1] => service'[q] = service[q]
  BY <1>4, DisposedIs
<1>6. RequestOK'
  BY <1>4, TypedRequests DEF LoaderInv, RequestOK
<1>7. TypeOK' /\ Tables' /\ StackOrder' /\ WalkOK'
  BY <1>1, <1>2, <1>4, <1>6, DisposedKeeps
<1>8. ASSUME NEW j \in Range(listeners'), j \notin late, j \notin stuck
      PROVE  \E k \in 1..(at - 1) : stack[k] = j
  <2>1. j \in Range(listeners) \ (late \cup stuck) /\ j # i
    BY <1>5, <1>8
  <2>2. PICK k \in 1..at : stack[k] = j
    BY <1>1, <2>1 DEF LoaderInv, Remaining
  <2>3. k \in 1..(at - 1)
    BY <1>2, <1>3, <2>1, <2>2
  <2>4. QED
    BY <2>2, <2>3
<1>9. Remaining'
  <2>1. \A j \in stuck : j[1] \in Slow
    BY DEF LoaderInv, Remaining
  <2>2. QED
    BY <1>1, <1>4, <1>8, <2>1 DEF Remaining
<1>10. OneListens'
  <2> SUFFICES ASSUME NEW q \in Plugins \ Slow PROVE InTune(q)'
    BY DEF OneListens
  <2>1. InTune(q)
    BY DEF LoaderInv, OneListens
  <2>2. CASE q = i[1]
    <3>1. ASSUME NEW j \in Range(listeners'), j \notin late, j[1] = q PROVE FALSE
      <4>1. j \notin stuck
        BY <3>1 DEF LoaderInv, Remaining
      <4>2. PICK k \in 1..(at - 1) : stack[k] = j
        BY <1>8, <3>1, <4>1
      <4>3. k \in 1..Len(stack) /\ k < at
        BY <1>2
      <4>4. j[2] < i[2]
        BY <1>2, <1>3, <2>2, <3>1, <4>2, <4>3 DEF LoaderInv, StackOrder
      <4>5. i[2] <= applied[q]
        BY <1>2, <1>3, <2>2 DEF LoaderInv, StackOrder
      <4>6. loaded[q] # 0 /\ j[2] = loaded[q] /\ loaded[q] \in {0, applied[q]}
        BY <1>5, <2>1, <3>1 DEF InTune
      <4>7. i[2] \in Nat /\ j[2] \in Nat /\ j[2] = applied[q]
        BY <1>1, <1>3, <4>6, InstanceIs
      <4>8. QED
        BY <4>4, <4>5, <4>7
    <3>2. \A j \in Range(listeners') : j[1] = q => loaded'[q] # 0 /\ j[2] = loaded'[q]
      BY <1>4, <1>5, <2>1 DEF InTune
    <3>3. loaded'[q] \in {0, applied'[q]}
      BY <1>4, <2>1 DEF InTune
    <3>4. QED
      BY <1>1, <1>4, <3>1, <3>2, <3>3 DEF InTune
  <2>3. CASE q # i[1]
    <3>1. \A j : j[1] = q => (j \in Range(listeners') <=> j \in Range(listeners))
      BY <1>5, <2>3
    <3>2. QED
      BY <1>4, <1>5, <2>1, <2>3, <3>1, OtherInTune
  <2>4. QED
    BY <2>2, <2>3
<1>11. QED
  BY <1>7, <1>9, <1>10 DEF LoaderInv

(* The other steps of the shutdown.                                        *)
LEMMA StopKeeps ==
    ASSUME LoaderInv, Stop \/ DisposeNextRaises \/ StopServing
    PROVE  LoaderInv'
<1>1. /\ UNCHANGED <<applied, imported, loaded, service, listeners, stack, request, emission,
                     steady, late>>
      /\ stack \in Seq(Instances) /\ at \in 0..Len(stack)
  BY DEF Stop, DisposeNextRaises, StopServing, ctxVars, LoaderInv, TypeOK
<1>2. Len(stack) \in Nat /\ DOMAIN stack = 1..Len(stack)
  BY <1>1
<1>3. /\ phase' \in {"up", "disposing", "stopping", "down"} /\ at' \in 0..Len(stack)
      /\ stuck' \subseteq Instances /\ \A i \in stuck' : i[1] \in Slow
  <2>1. stuck \subseteq Instances /\ \A i \in stuck : i[1] \in Slow
    BY DEF LoaderInv, TypeOK, Remaining
  <2>2. CASE Stop
    BY <1>2, <2>1, <2>2 DEF Stop
  <2>3. CASE DisposeNextRaises
    <3>1. at \in 1..Len(stack) /\ at - 1 \in 0..Len(stack) /\ stack[at] \in Instances
      BY <1>1, <1>2, <2>3 DEF DisposeNextRaises
    <3>2. QED
      BY <1>1, <2>1, <2>3, <3>1 DEF DisposeNextRaises
  <2>4. CASE StopServing
    BY <1>1, <2>1, <2>4 DEF StopServing
  <2>5. QED
    BY <2>2, <2>3, <2>4
<1>4. TypeOK' /\ Tables' /\ StackOrder' /\ WalkOK'
  <2>1. TypeOK'
    BY <1>1, <1>3 DEF LoaderInv, TypeOK, emission
  <2>2. QED
    BY <1>1, <2>1 DEF LoaderInv, Tables, StackOrder, WalkOK, emission
<1>5. phase # "down" /\ phase' # "up" /\ phase' # "down"
  BY DEF Stop, DisposeNextRaises, StopServing
<1>6. OneListens'
  <2> SUFFICES ASSUME NEW q \in Plugins \ Slow PROVE InTune(q)'
    BY DEF OneListens
  <2>1. InTune(q)
    BY DEF LoaderInv, OneListens
  <2>2. QED
    BY <1>1, <1>5, <2>1 DEF InTune
<1>7. Remaining'
  <2>1. CASE Stop
    <3>1. /\ phase = "up" /\ phase' = "disposing" /\ at' = Len(stack) /\ stuck' = stuck
          /\ Range(listeners) \subseteq Range(stack)
      BY <2>1 DEF Stop, LoaderInv, Remaining
    <3>2. \A i \in Range(listeners) : \E k \in 1..Len(stack) : stack[k] = i
      BY <1>2, <3>1 DEF Range
    <3>3. QED
      BY <1>1, <1>3, <3>1, <3>2 DEF Remaining
  <2>2. CASE DisposeNextRaises
    <3>1. /\ phase = "disposing" /\ phase' = "disposing" /\ at > 0 /\ at' = at - 1
          /\ stuck' = stuck \cup {stack[at]}
      BY <2>2 DEF DisposeNextRaises
    <3>2. ASSUME NEW i \in Range(listeners), i \notin late, i \notin stuck'
          PROVE  \E k \in 1..(at - 1) : stack[k] = i
      <4>1. i \in Range(listeners) \ (late \cup stuck) /\ i # stack[at]
        BY <3>1, <3>2
      <4>2. PICK k \in 1..at : stack[k] = i
        BY <3>1, <4>1 DEF LoaderInv, Remaining
      <4>3. k \in 1..(at - 1)
        BY <1>1, <1>2, <3>1, <4>1, <4>2
      <4>4. QED
        BY <4>2, <4>3
    <3>3. QED
      BY <1>1, <1>3, <3>1, <3>2 DEF Remaining
  <2>3. CASE StopServing
    <3>1. /\ phase = "disposing" /\ phase' = "stopping" /\ at = 0 /\ at' = 0 /\ stuck' = stuck
      BY <2>3 DEF StopServing
    <3>2. \A i \in Range(listeners) \ (late \cup stuck) : \E k \in 1..at : stack[k] = i
      BY <3>1 DEF LoaderInv, Remaining
    <3>3. Range(listeners) \subseteq late \cup stuck
      BY <3>1, <3>2
    <3>4. QED
      BY <1>1, <1>3, <3>1, <3>3 DEF Remaining
  <2>4. QED
    BY <2>1, <2>2, <2>3
<1>8. QED
  BY <1>4, <1>6, <1>7 DEF LoaderInv

LEMMA ClearKeeps ==
    ASSUME LoaderInv, Clear
    PROVE  LoaderInv'
<1>1. /\ UNCHANGED <<applied, imported, loaded, service, listeners, at, late>>
      /\ phase = "stopping" /\ phase' = "down" /\ stack' = <<>>
      /\ walking' = FALSE /\ copy' = <<>> /\ called' = <<>> /\ steady' = {}
      /\ request' = [r \in Requests |-> Idle]
      /\ stuck' = stuck \cup {i \in Instances : \E r \in Requests : request[r] = Disposing(i)}
  BY DEF Clear
<1>2. stuck \subseteq stuck' /\ stuck' \subseteq Instances /\ \A i \in stuck' : i[1] \in Slow
  <2>1. stuck \subseteq Instances /\ \A i \in stuck : i[1] \in Slow
    BY DEF LoaderInv, TypeOK, Remaining
  <2>2. RequestOK
    BY TypedRequests DEF LoaderInv
  <2>3. ASSUME NEW i \in Instances, NEW r \in Requests, request[r] = Disposing(i) PROVE i[1] \in Slow
    <3>1. i \in Slow \X (1..MaxLoads)
      BY <2>2, <2>3, RequestIs
    <3>2. QED
      BY <3>1
  <2>4. QED
    BY <1>1, <2>1, <2>3
<1>3. at = 0 /\ Range(listeners) \subseteq late \cup stuck
  BY <1>1 DEF LoaderInv, Remaining
<1>4. /\ <<>> \in Seq(Instances) /\ Len(<<>>) = 0 /\ IsInjective(<<>>) /\ DOMAIN <<>> = {}
  BY DEF IsInjective
<1>5. TypeOK'
  <2>1. RequestOK'
    BY <1>1 DEF RequestOK, Pending
  <2>2. at' \in 0..Len(stack')
    BY <1>1, <1>3, <1>4
  <2>3. /\ stack' \in Seq(Instances) /\ copy' \in Seq(Instances) /\ called' \in Seq(Instances)
        /\ IsInjective(stack')
    BY <1>1, <1>4
  <2>4. /\ applied' \in [Plugins -> 0..MaxLoads] /\ imported' \in [Plugins -> {"no", "partly", "whole"}]
        /\ \A p \in Plugins : loaded'[p] \in 0..applied'[p] /\ service'[p] \in 0..applied'[p]
        /\ listeners' \in Seq(Instances) /\ IsInjective(listeners') /\ late' \subseteq Instances
    BY <1>1 DEF LoaderInv, TypeOK
  <2>5. phase' \in {"up", "disposing", "stopping", "down"} /\ walking' \in BOOLEAN /\ steady' = {}
    BY <1>1
  <2>6. QED
    BY <1>2, <2>1, <2>2, <2>3, <2>4, <2>5 DEF TypeOK, RequestOK, Pending
<1>6. StackOrder'
  <2>1. \A a \in 1..Len(stack') : FALSE
    BY <1>1, <1>4
  <2>2. \A i \in Range(listeners') : i[2] <= applied'[i[1]]
    BY <1>1 DEF LoaderInv, StackOrder
  <2>3. QED
    BY <2>1, <2>2 DEF StackOrder
<1>7. WalkOK'
  BY <1>1, <1>4 DEF WalkOK
<1>8. Remaining'
  BY <1>1, <1>2, <1>3 DEF Remaining
<1>9. OneListens'
  <2> SUFFICES ASSUME NEW q \in Plugins \ Slow PROVE InTune(q)'
    BY DEF OneListens
  <2>1. InTune(q)
    BY DEF LoaderInv, OneListens
  <2>2. QED
    BY <1>1, <2>1 DEF InTune
<1>10. Tables'
  BY <1>1 DEF LoaderInv, Tables
<1>11. QED
  BY <1>5, <1>6, <1>7, <1>8, <1>9, <1>10 DEF LoaderInv

(* An emission goes through its copy.                                      *)
LEMMA EmitKeeps ==
    ASSUME LoaderInv, EmitBegins \/ EmitCalls \/ EmitEnds
    PROVE  LoaderInv'
<1>1. /\ applied' = applied /\ imported' = imported /\ loaded' = loaded /\ service' = service
      /\ listeners' = listeners /\ stack' = stack /\ request' = request /\ phase' = phase
      /\ at' = at /\ late' = late /\ stuck' = stuck
  BY DEF EmitBegins, EmitCalls, EmitEnds, ctxVars
<1>2. Tables' /\ StackOrder' /\ Remaining'
  BY <1>1 DEF LoaderInv, Tables, StackOrder, Remaining
<1>3. OneListens'
  BY <1>1 DEF LoaderInv, OneListens, InTune
<1>4. /\ listeners \in Seq(Instances) /\ IsInjective(listeners)
      /\ copy \in Seq(Instances) /\ called \in Seq(Instances) /\ steady \subseteq Range(listeners)
  BY DEF LoaderInv, TypeOK
<1>5. /\ <<>> \in Seq(Instances) /\ Len(<<>>) = 0 /\ IsInjective(<<>>)
  BY DEF IsInjective
<1>6. SUFFICES /\ walking' \in BOOLEAN /\ copy' \in Seq(Instances) /\ called' \in Seq(Instances)
               /\ steady' \subseteq Range(listeners) /\ WalkOK'
  BY <1>1, <1>2, <1>3 DEF LoaderInv, TypeOK
<1>7. CASE EmitBegins
  <2>1. /\ walking' = TRUE /\ copy' = listeners /\ called' = called /\ steady' = Range(listeners)
        /\ called = <<>>
    BY <1>7 DEF EmitBegins, LoaderInv, WalkOK
  <2>2. Len(listeners) \in Nat
    BY <1>4
  <2>3. WalkOK'
    BY <1>4, <1>5, <2>1, <2>2 DEF WalkOK
  <2>4. QED
    BY <1>4, <2>1, <2>3
<1>8. CASE EmitCalls
  <2> DEFINE n == Len(called)
  <2>1. /\ walking' = walking /\ copy' = copy /\ steady' = steady /\ walking = TRUE
        /\ n < Len(copy) /\ called' = Append(called, copy[n + 1])
    BY <1>8 DEF EmitCalls, Round, LoaderInv, TypeOK
  <2>2. n \in Nat /\ Len(copy) \in Nat /\ n + 1 \in 1..Len(copy) /\ copy[n + 1] \in Instances
    BY <1>4, <2>1
  <2>3. /\ called' \in Seq(Instances) /\ Len(called') = n + 1 /\ called'[n + 1] = copy[n + 1]
        /\ \A k \in 1..n : called'[k] = called[k]
    BY <1>4, <2>1, <2>2
  <2> HIDE DEF n
  <2>4. \A k \in 1..(n + 1) : called'[k] = copy[k]
    <3>1. \A k \in 1..n : called[k] = copy[k]
      BY DEF LoaderInv, WalkOK, n
    <3>2. \A k \in 1..(n + 1) : k \in 1..n \/ k = n + 1
      BY <2>2
    <3>3. QED
      BY <2>3, <3>1, <3>2
  <2>5. WalkOK'
    BY <2>1, <2>2, <2>3, <2>4 DEF LoaderInv, WalkOK
  <2>6. QED
    BY <1>4, <2>1, <2>3, <2>5
<1>9. CASE EmitEnds
  <2>1. walking' = FALSE /\ copy' = <<>> /\ called' = <<>> /\ steady' = {}
    BY <1>9 DEF EmitEnds
  <2>2. WalkOK'
    BY <1>5, <2>1 DEF WalkOK
  <2>3. QED
    BY <1>5, <2>1, <2>2
<1>10. QED
  BY <1>7, <1>8, <1>9

(* Every step keeps the invariant.                                         *)
LEMMA LoaderStep == LoaderInv /\ [Next]_vars => LoaderInv'
<1> SUFFICES ASSUME LoaderInv, [Next]_vars PROVE LoaderInv'
  OBVIOUS
<1>1. CASE \E r \in Requests, p \in Plugins : Load(r, p) \/ LoadRefused(r, p) \/ LoadSlow(r, p)
  BY <1>1, LoadKeeps
<1>2. CASE \E r \in Requests, p \in Plugins : ApplyEnds(r, p) \/ ApplyRaises(r, p)
  BY <1>2, ApplyKeeps
<1>3. CASE \E r \in Requests, p \in Plugins : Unload(r, p)
  BY <1>3, UnloadKeeps
<1>4. CASE \E r \in Requests, i \in Instances : DisposeEnds(r, i) \/ DisposeRaises(r, i)
  BY <1>4, DisposeKeeps
<1>5. CASE DisposeNext
  BY <1>5, DisposeNextKeeps
<1>6. CASE Stop \/ DisposeNextRaises \/ StopServing
  BY <1>6, StopKeeps
<1>7. CASE Clear
  BY <1>7, ClearKeeps
<1>8. CASE EmitBegins \/ EmitCalls \/ EmitEnds
  BY <1>8, EmitKeeps
<1>9. CASE UNCHANGED vars
  <2>1. stuck \subseteq Instances /\ \A i \in stuck : i[1] \in Slow
    BY DEF LoaderInv, TypeOK, Remaining
  <2>2. imported \in [Plugins -> {"no", "partly", "whole"}] /\ RequestOK
    BY TypedRequests DEF LoaderInv, TypeOK
  <2>3. RequestOK'
    BY <1>9, <2>2 DEF vars, RequestOK
  <2>4. UNCHANGED <<applied, imported, loaded, service, listeners, stack, phase, at, emission,
                    steady, late, stuck>>
    BY <1>9 DEF vars, ctxVars
  <2>5. QED
    BY <2>1, <2>2, <2>3, <2>4, QuietKeeps
<1>10. QED
  BY <1>1, <1>2, <1>3, <1>4, <1>5, <1>6, <1>7, <1>8, <1>9 DEF Next

(* The invariant holds throughout.                                         *)
LEMMA LoaderInvariance == Spec => []LoaderInv
  BY LoaderInit, LoaderStep, PTL DEF Spec

(* Record, listener and service of a bundled plugin are there together or  *)
(* not at all, and never two of its instances listen, however loads,       *)
(* unloads and the shutdown interleave.                                    *)
THEOREM PluginsInStep == Spec => []InStep
<1>1. LoaderInv => InStep
  <2> SUFFICES ASSUME LoaderInv, NEW p \in Plugins \ Slow
               PROVE  LET mine == {i \in Range(listeners) : i[1] = p}
                      IN  /\ phase = "up" =>
                               IF loaded[p] = 0 THEN mine = {} /\ service[p] = 0
                                                ELSE mine = {<<p, loaded[p]>>}
                          /\ phase # "down" =>
                               \A i \in mine \ late : service[p] = i[2]
    BY DEF LoaderInv, InStep
  <2>1. InTune(p)
    BY DEF LoaderInv, OneListens
  <2>2. \A i \in Range(listeners) : i = <<i[1], i[2]>>
    <3>1. listeners \in Seq(Instances)
      BY DEF LoaderInv, TypeOK
    <3>2. Range(listeners) \subseteq Instances
      BY <3>1 DEF Range
    <3>3. QED
      BY <3>2, InstanceIs
  <2> DEFINE mine == {i \in Range(listeners) : i[1] = p}
  <2>3. ASSUME phase = "up", loaded[p] = 0 PROVE mine = {} /\ service[p] = 0
    BY <2>1, <2>3 DEF InTune
  <2>4. ASSUME phase = "up", loaded[p] # 0 PROVE mine = {<<p, loaded[p]>>}
    <3>1. \A i \in mine : i = <<p, loaded[p]>>
      BY <2>1, <2>2 DEF InTune
    <3>2. <<p, loaded[p]>> \in mine
      BY <2>1, <2>4 DEF InTune
    <3>3. QED
      BY <3>1, <3>2
  <2>5. ASSUME phase # "down", NEW i \in mine \ late PROVE service[p] = i[2]
    BY <2>1, <2>5 DEF InTune
  <2>6. QED
    BY <2>3, <2>4, <2>5
<1>2. QED
  BY <1>1, LoaderInvariance, PTL

(* What listens when the harness is down came late or could not be removed.*)
THEOREM TornDown == Spec => []Teardown
<1>1. LoaderInv => Teardown
  BY DEF LoaderInv, Remaining, Teardown
<1>2. QED
  BY <1>1, LoaderInvariance, PTL

(* An emission calls every listener that was there all the time, once.     *)
THEOREM NobodySkipped == Spec => []NoneSkipped
<1>1. LoaderInv => NoneSkipped
  <2> SUFFICES ASSUME LoaderInv, walking
               PROVE  /\ IsInjective(called)
                      /\ Len(called) >= Len(Round) => steady \subseteq Range(called)
    BY DEF NoneSkipped
  <2>1. /\ IsInjective(copy) /\ Len(called) <= Len(copy) /\ steady \subseteq Range(copy)
        /\ \A k \in 1..Len(called) : called[k] = copy[k]
        /\ copy \in Seq(Instances) /\ called \in Seq(Instances)
    BY DEF LoaderInv, TypeOK, WalkOK
  <2>2. /\ DOMAIN called = 1..Len(called) /\ DOMAIN copy = 1..Len(copy)
        /\ Len(called) \in Nat /\ Len(copy) \in Nat
    BY <2>1
  <2>3. \A k \in 1..Len(called) : k \in 1..Len(copy)
    BY <2>1, <2>2
  <2>4. IsInjective(called)
    BY <2>1, <2>2, <2>3 DEF IsInjective
  <2>5. ASSUME Len(called) >= Len(copy) PROVE steady \subseteq Range(called)
    <3>1. Len(called) = Len(copy)
      <4>1. Len(called) <= Len(copy) /\ Len(called) \in Nat /\ Len(copy) \in Nat
        BY <2>1, <2>2
      <4>2. QED
        BY <2>5, <4>1
    <3>2. QED
      BY <2>1, <2>2, <3>1 DEF Range
  <2>6. QED
    BY <2>4, <2>5 DEF Round
<1>2. QED
  BY <1>1, LoaderInvariance, PTL

-----------------------------------------------------------------------------
(* Where events end in a body: every second newline of a run.              *)

StartsAt(p, e) ==
  /\ \A i \in (p + 1)..e : body[i] = "n"
  /\ p = 0 \/ body[p] # "n"

(* A newline is in a run of them, which starts somewhere.                  *)
LEMMA RunHasStart ==
  ASSUME body \in Seq(STRING), NEW e \in 1..Len(body)
  PROVE  \E p \in 0..e : StartsAt(p, e)
<1> DEFINE T == {m \in Nat : \A i \in (m + 1)..e : body[i] = "n"}
<1>1. e \in T
  OBVIOUS
<1>2. PICK p \in T : \A m \in T : p <= m
  BY <1>1, Least
<1>3. p \in 0..e
  BY <1>1, <1>2
<1>4. p = 0 \/ body[p] # "n"
  <2> SUFFICES ASSUME p # 0, body[p] = "n" PROVE FALSE
    OBVIOUS
  <2>1. p - 1 \in Nat /\ \A i \in ((p - 1) + 1)..e : i = p \/ i \in (p + 1)..e
    BY <1>3
  <2>2. p - 1 \in T
    BY <1>2, <2>1
  <2>3. p <= p - 1
    BY <1>2, <2>2
  <2>4. QED
    BY <1>3, <2>3
<1>5. QED
  BY <1>2, <1>3, <1>4 DEF StartsAt

(* A run starts in one place.                                              *)
LEMMA StartIsOne ==
  ASSUME NEW e \in Nat, NEW p \in 0..e, NEW q \in 0..e, StartsAt(p, e), StartsAt(q, e)
  PROVE  p = q
<1>1. p \in Nat /\ q \in Nat
  OBVIOUS
<1>2. ~(p < q)
  <2>1. p < q => q \in (p + 1)..e
    BY <1>1
  <2>2. q \in (p + 1)..e => body[q] = "n" /\ q # 0
    BY <1>1 DEF StartsAt
  <2>3. QED
    BY <2>1, <2>2 DEF StartsAt
<1>3. ~(q < p)
  <2>1. q < p => p \in (q + 1)..e
    BY <1>1
  <2>2. p \in (q + 1)..e => body[p] = "n" /\ p # 0
    BY <1>1 DEF StartsAt
  <2>3. QED
    BY <2>1, <2>2 DEF StartsAt
<1>4. QED
  BY <1>1, <1>2, <1>3

(* An end is an even number of newlines behind the start of its run.       *)
LEMMA EndsInRun ==
  ASSUME body \in Seq(STRING), NEW e \in 1..Len(body), NEW p \in 0..e, StartsAt(p, e)
  PROVE  e \in EventEnds <=> p < e /\ (e - p) % 2 = 0
<1>1. e \in EventEnds <=> \E start \in 0..(e - 1) : (e - start) % 2 = 0 /\ StartsAt(start, e)
  BY DEF EventEnds, StartsAt
<1>2. ASSUME NEW start \in 0..(e - 1), StartsAt(start, e) PROVE start = p
  <2>1. start \in 0..e /\ e \in Nat
    OBVIOUS
  <2>2. QED
    BY <1>2, <2>1, StartIsOne
<1>3. p < e <=> p \in 0..(e - 1)
  OBVIOUS
<1>4. QED
  BY <1>1, <1>2, <1>3

(* So an event ends with a newline behind one that ends none.              *)
LEMMA EndsAre ==
  ASSUME body \in Seq(STRING), NEW e \in 1..Len(body)
  PROVE  e \in EventEnds <=>
           e >= 2 /\ body[e] = "n" /\ body[e - 1] = "n" /\ e - 1 \notin EventEnds
<1>1. PICK p \in 0..e : StartsAt(p, e)
  BY RunHasStart
<1>2. e \in EventEnds <=> p < e /\ (e - p) % 2 = 0
  BY <1>1, EndsInRun
<1>3. CASE p = e
  BY <1>1, <1>2, <1>3 DEF StartsAt
<1>4. CASE p = e - 1
  <2>1. (e - p) % 2 # 0
    BY <1>4
  <2>2. e >= 2 => body[e - 1] # "n"
    BY <1>1, <1>4 DEF StartsAt
  <2>3. QED
    BY <1>2, <2>1, <2>2
<1>5. CASE p <= e - 2
  <2>1. /\ e >= 2 /\ e \in (p + 1)..e /\ e - 1 \in (p + 1)..e /\ e - 1 \in 1..Len(body)
        /\ p \in 0..(e - 1) /\ p < e - 1 /\ p < e
    BY <1>5
  <2>2. body[e] = "n" /\ body[e - 1] = "n"
    BY <1>1, <2>1 DEF StartsAt
  <2>3. StartsAt(p, e - 1)
    BY <1>1 DEF StartsAt
  <2>4. e - 1 \in EventEnds <=> (e - 1 - p) % 2 = 0
    BY <2>1, <2>3, EndsInRun
  <2>5. (e - p) % 2 = 0 <=> ~((e - 1 - p) % 2 = 0)
    BY <2>1
  <2>6. QED
    BY <1>2, <2>1, <2>2, <2>4, <2>5
<1>6. QED
  BY <1>3, <1>4, <1>5

-----------------------------------------------------------------------------

(* What a parser does with an event.                                       *)
Outcomes(n) == [payloads : SUBSET (1..n), then : {"reading", "returned", "raised"}]

(* The fields of a result.                                                 *)
LEMMA ResultIs ==
  ASSUME NEW payloads, NEW then
  PROVE  /\ Result(payloads, then).payloads = payloads
         /\ Result(payloads, then).then = then
         /\ \A n \in Nat : payloads \subseteq 1..n /\ then \in {"reading", "returned", "raised"}
                             => Result(payloads, then) \in Outcomes(n)
  BY DEF Result, Outcomes

(* A line that says something has its text behind the prefix.              *)
LEMMA SaysIs ==
  ASSUME NEW ev \in Seq(STRING), NEW i \in Nat, Says(ev, i, "ok")
  PROVE  i + 1 \in 1..Len(ev)
<1>1. {i, i + 1} \subseteq DOMAIN ev
  BY DEF Says, PairAt
<1>2. QED
  BY <1>1

(* Data lines are places of the event.                                     *)
LEMMA DataLinesAre ==
  ASSUME NEW ev \in Seq(STRING)
  PROVE  DataLines(ev) \subseteq 1..Len(ev) /\ DataLines(ev) \subseteq Nat
  BY DEF DataLines, LineStarts

(* What is handed on of an event are places of it, whichever parser reads  *)
(* it.                                                                     *)
LEMMA ReadsIs ==
  ASSUME NEW ev \in Seq(STRING), parser \in {"adapter", "openai", "anthropic"}
  PROVE  Reads(ev) \in Outcomes(Len(ev))
<1>1. Len(ev) \in Nat
  OBVIOUS
<1>2. \A payloads : payloads \subseteq 1..Len(ev) =>
        /\ Result(payloads, "reading") \in Outcomes(Len(ev))
        /\ Result(payloads, "returned") \in Outcomes(Len(ev))
        /\ Result(payloads, "raised") \in Outcomes(Len(ev))
  BY <1>1, ResultIs
<1>3. {} \subseteq 1..Len(ev)
  OBVIOUS
<1>4. Nothing \in Outcomes(Len(ev))
  BY <1>2, <1>3 DEF Nothing
<1>5. AdapterReads(ev) \in Outcomes(Len(ev))
  <2>1. Says(ev, 1, "ok") => {2} \subseteq 1..Len(ev)
    <3>1. Says(ev, 1, "ok") => 1 + 1 \in 1..Len(ev)
      BY SaysIs
    <3>2. QED
      BY <3>1
  <2>2. QED
    BY <1>2, <1>3, <1>4, <2>1 DEF AdapterReads
<1>6. OpenAIReads(ev) \in Outcomes(Len(ev))
  <2> DEFINE stops == {i \in DataLines(ev) : ~Says(ev, i, "ok")}
             handed == {i + 1 : i \in {j \in DataLines(ev) : \A k \in stops : j < k}}
  <2>1. handed \subseteq 1..Len(ev)
    <3> SUFFICES ASSUME NEW j \in DataLines(ev), \A k \in stops : j < k PROVE j + 1 \in 1..Len(ev)
      OBVIOUS
    <3>1. j \in Nat
      BY DataLinesAre
    <3>2. j \notin stops
      BY <3>1
    <3>3. QED
      BY <3>1, <3>2, SaysIs
  <2> HIDE DEF handed
  <2>2. OpenAIReads(ev) \in {Result(handed, "reading"), Result(handed, "returned"), Result(handed, "raised")}
    BY DEF OpenAIReads, handed
  <2>3. QED
    BY <1>2, <2>1, <2>2
<1>7. AnthropicReads(ev) \in Outcomes(Len(ev))
  <2>1. CASE DataLines(ev) = {}
    BY <1>4, <2>1 DEF AnthropicReads
  <2>2. CASE DataLines(ev) # {} /\ \E i \in DataLines(ev) : DataLines(ev) # {i} \/ ~Says(ev, i, "ok")
    BY <1>2, <1>3, <2>2 DEF AnthropicReads
  <2>3. CASE DataLines(ev) # {} /\ ~\E i \in DataLines(ev) : DataLines(ev) # {i} \/ ~Says(ev, i, "ok")
    <3> DEFINE handed == {i + 1 : i \in DataLines(ev)}
    <3>1. handed \subseteq 1..Len(ev)
      <4> SUFFICES ASSUME NEW i \in DataLines(ev) PROVE i + 1 \in 1..Len(ev)
        OBVIOUS
      <4>1. i \in Nat /\ Says(ev, i, "ok")
        BY <2>3, DataLinesAre
      <4>2. QED
        BY <4>1, SaysIs
    <3> HIDE DEF handed
    <3>2. AnthropicReads(ev) \in {Result(handed, "reading"), Result({}, "returned"), Nothing}
      BY <2>3 DEF AnthropicReads, handed
    <3>3. QED
      BY <1>2, <1>3, <1>4, <3>1, <3>2
  <2>4. QED
    BY <2>1, <2>2, <2>3
<1>8. QED
  BY <1>5, <1>6, <1>7 DEF Reads

-----------------------------------------------------------------------------
(* The buffer is what was received behind the end of an event.             *)
Held ==
  /\ buffer \in Seq(STRING) /\ body \in Seq(STRING)
  /\ Done \in Nat /\ received \in Nat
  /\ \A i \in 1..Len(buffer) : buffer[i] = body[Done + i]
  /\ Done = 0 \/ Done \in EventEnds

(* Two newlines in the buffer are one behind the other in the body, and    *)
(* the next end of an event is the second of two in the buffer.            *)
LEMMA BufferIs ==
  ASSUME StreamTypeOK, Held
  PROVE  /\ Len(buffer) \in Nat /\ Len(body) \in Nat /\ Done + Len(buffer) = received
         /\ received <= Len(body)
         /\ EventEnds \subseteq 1..Len(body)
         /\ Terminators \subseteq 1..(Len(buffer) - 1)
         /\ \A i \in 1..(Len(buffer) - 1) :
              i \in Terminators <=> body[Done + i] = "n" /\ body[Done + i + 1] = "n"
<1>1. Len(buffer) \in Nat /\ Len(body) \in Nat /\ received \in Nat /\ Done \in Nat
  BY DEF Held
<1>2. Done + Len(buffer) = received
  BY <1>1 DEF Done
<1>3. received <= Len(body)
  BY <1>1 DEF StreamTypeOK
<1>4. EventEnds \subseteq 1..Len(body)
  BY DEF EventEnds
<1>5. DOMAIN buffer = 1..Len(buffer)
  BY DEF Held
<1>6. Terminators \subseteq 1..(Len(buffer) - 1)
  BY <1>1, <1>5 DEF Terminators, PairAt
<1>7. ASSUME NEW i \in 1..(Len(buffer) - 1)
      PROVE  i \in Terminators <=> body[Done + i] = "n" /\ body[Done + i + 1] = "n"
  <2>1. i \in 1..Len(buffer) /\ i + 1 \in 1..Len(buffer)
    BY <1>1
  <2>2. buffer[i] = body[Done + i] /\ buffer[i + 1] = body[Done + (i + 1)]
    BY <2>1 DEF Held
  <2>3. Done + (i + 1) = Done + i + 1
    BY <1>1
  <2>4. i \in Terminators <=> buffer[i] = "n" /\ buffer[i + 1] = "n"
    BY <1>5, <2>1 DEF Terminators, PairAt
  <2>5. QED
    BY <2>2, <2>3, <2>4
<1>8. QED
  BY <1>1, <1>2, <1>3, <1>4, <1>6, <1>7

LEMMA EndsAhead ==
  ASSUME StreamTypeOK, Held, NEW f \in EventEnds, f > Done
  PROVE  f >= Done + 2 /\ body[f] = "n" /\ body[f - 1] = "n" /\ f \in Nat
<1>1. f \in 1..Len(body) /\ Done \in Nat /\ body \in Seq(STRING)
  BY BufferIs DEF Held
<1>2. f >= 2 /\ body[f] = "n" /\ body[f - 1] = "n" /\ f - 1 \notin EventEnds
  BY <1>1, EndsAre
<1>3. f - 1 # Done
  BY <1>1, <1>2 DEF Held
<1>4. QED
  BY <1>1, <1>2, <1>3

(* An end within what was received is announced by the buffer.             *)
LEMMA EndsAnnounced ==
  ASSUME StreamTypeOK, Held, NEW f \in EventEnds, f > Done, f <= received
  PROVE  f - 1 - Done \in Terminators
<1>1. f >= Done + 2 /\ body[f] = "n" /\ body[f - 1] = "n" /\ f \in Nat /\ Done \in Nat
  BY EndsAhead DEF Held
<1>2. /\ Len(buffer) \in Nat /\ Done + Len(buffer) = received
      /\ \A i \in 1..(Len(buffer) - 1) :
           i \in Terminators <=> body[Done + i] = "n" /\ body[Done + i + 1] = "n"
  BY BufferIs
<1> DEFINE i == f - 1 - Done
<1>3. i \in 1..(Len(buffer) - 1) /\ Done + i = f - 1 /\ Done + i + 1 = f
  BY <1>1, <1>2
<1>4. QED
  BY <1>1, <1>2, <1>3

LEMMA NextEnd ==
  ASSUME StreamTypeOK, Held, Terminators # {}
  PROVE  LET sep == Min(Terminators)
             e   == Done + sep + 1
         IN  /\ sep \in 1..(Len(buffer) - 1) /\ e \in Nat /\ e > Done /\ e <= received
             /\ e \in EventEnds
             /\ \A f \in EventEnds : f > Done => e <= f
             /\ Before(e) = Done
             /\ EventAt(e) = SubSeq(buffer, 1, sep - 1)
<1>1. PICK sep \in Terminators : sep = Min(Terminators) /\ \A y \in Terminators : sep <= y
  <2>1. Terminators \subseteq Nat
    BY BufferIs
  <2>2. QED
    BY <2>1, MinIs
<1>2. /\ Len(buffer) \in Nat /\ Len(body) \in Nat /\ Done + Len(buffer) = received
      /\ received <= Len(body) /\ Done \in Nat /\ received \in Nat
      /\ EventEnds \subseteq 1..Len(body)
      /\ sep \in 1..(Len(buffer) - 1) /\ sep \in Nat
  BY <1>1, BufferIs DEF Held
<1>3. PICK e \in Nat : e = Done + sep + 1
  BY <1>2
<1>4. /\ e > Done /\ e <= received /\ e \in 1..Len(body) /\ e >= 2
      /\ e - 1 = Done + sep /\ e - 1 > Done /\ e - 1 <= received /\ e - 1 \in Nat
  BY <1>2, <1>3
<1>5. body[e] = "n" /\ body[e - 1] = "n"
  <2>1. body[Done + sep] = "n" /\ body[Done + sep + 1] = "n"
    BY <1>1, <1>2, BufferIs
  <2>2. QED
    BY <1>3, <1>4, <2>1
<1>6. \A f \in EventEnds : f > Done /\ f <= received => sep <= f - 1 - Done
  BY <1>1, EndsAnnounced
<1>7. e - 1 \notin EventEnds
  <2> SUFFICES ASSUME e - 1 \in EventEnds PROVE FALSE
    OBVIOUS
  <2>1. sep <= e - 1 - 1 - Done
    BY <1>4, <1>6
  <2>2. QED
    BY <1>2, <1>3, <2>1
<1>8. e \in EventEnds
  BY <1>4, <1>5, <1>7, EndsAre DEF Held
<1>9. ASSUME NEW f \in EventEnds, f > Done PROVE e <= f
  <2>1. f \in Nat
    BY <1>2
  <2>2. CASE f <= received
    <3>1. sep <= f - 1 - Done
      BY <1>6, <1>9, <2>2
    <3>2. QED
      BY <1>2, <1>3, <2>1, <3>1
  <2>3. CASE f > received
    BY <1>2, <1>4, <2>1, <2>3
  <2>4. QED
    BY <1>2, <2>1, <2>2, <2>3
<1>10. Before(e) = Done
  <2> DEFINE T == {0} \union {f \in EventEnds : f < e}
  <2>1. T \in SUBSET Nat
    <3>1. \A f \in EventEnds : f \in Nat
      BY <1>2
    <3>2. QED
      BY <3>1
  <2>2. Done \in T
    BY <1>4 DEF Held
  <2>3. \A f \in T : f <= Done
    <3> SUFFICES ASSUME NEW f \in EventEnds, f < e PROVE f <= Done
      BY <1>2
    <3>1. f \in Nat
      BY <1>2
    <3>2. ~(f > Done)
      BY <1>3, <1>9, <3>1
    <3>3. QED
      BY <1>2, <3>1, <3>2
  <2> HIDE DEF T
  <2>4. Max(T) = Done
    BY <2>1, <2>2, <2>3, MaxIs
  <2>5. QED
    BY <2>4 DEF Before, T
<1>11. EventAt(e) = SubSeq(buffer, 1, sep - 1)
  <2>1. /\ buffer \in Seq(STRING) /\ body \in Seq(STRING)
        /\ \A i \in 1..Len(buffer) : buffer[i] = body[Done + i]
    BY DEF Held
  <2>2. EventAt(e) = SubSeq(body, Done + 1, e - 2)
    BY <1>10 DEF EventAt
  <2>3. e - 2 = Done + (sep - 1) /\ sep - 1 \in Nat /\ sep - 1 <= Len(buffer) /\ Done + (sep - 1) <= Len(body)
    BY <1>2, <1>3
  <2>4. PICK a \in Seq(STRING) :
          /\ a = SubSeq(body, Done + 1, Done + (sep - 1)) /\ Len(a) = sep - 1
          /\ \A i \in 1..(sep - 1) : a[i] = body[Done + i]
    <3>1. /\ SubSeq(body, Done + 1, Done + (sep - 1)) \in Seq(STRING)
          /\ Len(SubSeq(body, Done + 1, Done + (sep - 1))) = sep - 1
          /\ \A i \in 1..(sep - 1) : SubSeq(body, Done + 1, Done + (sep - 1))[i] = body[Done + i]
      BY <1>2, <2>1, <2>3, PartIs
    <3>2. QED
      BY <3>1
  <2>5. PICK b \in Seq(STRING) :
          /\ b = SubSeq(buffer, 1, sep - 1) /\ Len(b) = sep - 1
          /\ \A i \in 1..(sep - 1) : b[i] = buffer[i]
    <3>1. /\ SubSeq(buffer, 1, sep - 1) \in Seq(STRING)
          /\ Len(SubSeq(buffer, 1, sep - 1)) = sep - 1
          /\ \A i \in 1..(sep - 1) : SubSeq(buffer, 1, sep - 1)[i] = buffer[i]
      BY <1>2, <2>1, <2>3
    <3>2. QED
      BY <3>1
  <2>6. \A i \in 1..(sep - 1) : a[i] = b[i]
    BY <1>2, <2>1, <2>3, <2>4, <2>5
  <2>7. a = b
    BY <2>4, <2>5, <2>6
  <2>8. QED
    BY <2>2, <2>3, <2>4, <2>5, <2>7
<1>12. QED
  BY <1>1, <1>2, <1>3, <1>4, <1>8, <1>9, <1>10, <1>11

(* What is handed on, and what is due, is what the events taken promise.   *)
Handed ==
  /\ Range(given) \union due.payloads = Promised(Done)
  /\ \A i, j \in DOMAIN given : i < j => given[i] < given[j]
  /\ \A i \in DOMAIN given : \A j \in due.payloads : given[i] < j
  /\ \A i \in DOMAIN given : given[i] <= Done
  /\ \A j \in due.payloads : j <= Done

(* No event that stops the stream was passed; how the parser went on, or   *)
(* will when nothing is due any more, is what the last event taken says.   *)
Outcome == IF status = "yielding" THEN due.then ELSE status

Judged ==
  /\ IF Outcome \in {"returned", "raised"}
     THEN /\ Done \in Stops /\ \A e \in Stops : Done <= e
          /\ Outcome = Reads(EventAt(Done)).then
     ELSE \A e \in Stops : Done < e
  /\ status = "ended" => \A f \in EventEnds : f <= Done

StreamInv == StreamTypeOK /\ Held /\ Handed /\ Judged

(* What the assumption says of the body read.                              *)
LEMMA BodyIs ==
  ASSUME StreamTypeOK
  PROVE  body \in Seq(STRING) /\ parser \in {"adapter", "openai", "anthropic"} /\ Cap \in Nat
  BY StreamAssumption DEF StreamTypeOK

(* What the body says does not depend on how far it was read.              *)
LEMMA SameBody ==
  ASSUME UNCHANGED <<parser, body>>
  PROVE  /\ EventEnds' = EventEnds /\ Stops' = Stops
         /\ \A d : Promised(d)' = Promised(d)
         /\ \A e : Reads(EventAt(e))' = Reads(EventAt(e))
<1>1. EventEnds' = EventEnds
  BY DEF EventEnds
<1>2. \A e : Before(e)' = Before(e)
  BY <1>1 DEF Before, Max
<1>3. \A e : EventAt(e)' = EventAt(e)
  BY <1>2 DEF EventAt
<1>4. \A e : Reads(EventAt(e))' = Reads(EventAt(e))
  BY <1>3 DEF Reads
<1>5. Stops' = Stops
  BY <1>1, <1>4 DEF Stops
<1>6. \A d : Promised(d)' = Promised(d)
  BY <1>1, <1>2, <1>4, <1>5 DEF Promised
<1>7. QED
  BY <1>1, <1>4, <1>5, <1>6

(* What the next event adds to what is promised.                           *)
LEMMA PromisedNext ==
  ASSUME StreamTypeOK, Held, Terminators # {}, \A g \in Stops : Done < g
  PROVE  LET sep    == Min(Terminators)
             e      == Done + sep + 1
             result == Reads(SubSeq(buffer, 1, sep - 1))
         IN  /\ Promised(e) = Promised(Done) \union {Done + i : i \in result.payloads}
             /\ e \in Stops <=> result.then # "reading"
             /\ \A g \in Stops : e <= g
             /\ Reads(EventAt(e)) = result
<1> DEFINE sep == Min(Terminators)
           result == Reads(SubSeq(buffer, 1, sep - 1))
<1>1. PICK e \in Nat :
        /\ e = Done + sep + 1
        /\ e > Done /\ e \in EventEnds
        /\ \A f \in EventEnds : f > Done => e <= f
        /\ Before(e) = Done
        /\ EventAt(e) = SubSeq(buffer, 1, sep - 1)
  BY NextEnd
<1>2. Reads(EventAt(e)) = result
  BY <1>1
<1> HIDE DEF sep, result
<1>3. e \in Stops <=> result.then # "reading"
  BY <1>1, <1>2 DEF Stops
<1>4. Stops \subseteq EventEnds
  BY DEF Stops
<1>5. \A g \in Stops : e <= g
  BY <1>1, <1>4
<1>6. EventEnds \subseteq Nat /\ Done \in Nat
  BY BufferIs DEF Held
<1>7. ASSUME NEW f \in EventEnds
      PROVE  (f <= e /\ \A g \in Stops : f <= g)
                <=> f = e \/ (f <= Done /\ \A g \in Stops : f <= g)
  <2>1. f \in Nat /\ \A g \in Stops : g \in Nat
    BY <1>4, <1>6
  <2>2. CASE f > Done
    BY <1>1, <1>5, <1>6, <2>1, <2>2
  <2>3. CASE f <= Done
    BY <1>1, <1>5, <1>6, <2>1, <2>3
  <2>4. QED
    BY <1>6, <2>1, <2>2, <2>3
<1>8. {f \in EventEnds : f <= e /\ \A g \in Stops : f <= g}
        = {f \in EventEnds : f <= Done /\ \A g \in Stops : f <= g} \union {e}
  BY <1>1, <1>7
<1> DEFINE Of(f) == {Before(f) + i : i \in Reads(EventAt(f)).payloads}
           A == {f \in EventEnds : f <= Done /\ \A g \in Stops : f <= g}
           B == {f \in EventEnds : f <= e /\ \A g \in Stops : f <= g}
<1>9. Of(e) = {Done + i : i \in result.payloads}
  BY <1>1, <1>2
<1>10. Promised(Done) = UNION {Of(f) : f \in A} /\ Promised(e) = UNION {Of(f) : f \in B}
  BY DEF Promised
<1>11. B = A \union {e}
  BY <1>8
<1> HIDE DEF Of, A, B
<1>12. Promised(e) = Promised(Done) \union Of(e)
  BY <1>10, <1>11
<1>13. QED
  BY <1>1, <1>2, <1>3, <1>5, <1>9, <1>12 DEF sep, result

(* Behind the last event nothing more is promised.                         *)
LEMMA PromisedAll ==
  ASSUME StreamTypeOK, Held, \A f \in EventEnds : f <= Done
  PROVE  Promised(Len(body)) = Promised(Done)
<1>1. \A f \in EventEnds : f <= Len(body)
  BY BufferIs
<1>2. {f \in EventEnds : f <= Len(body) /\ \A g \in Stops : f <= g}
        = {f \in EventEnds : f <= Done /\ \A g \in Stops : f <= g}
  BY <1>1
<1>3. QED
  BY <1>2 DEF Promised

(* The initial states satisfy the invariant.                               *)
LEMMA StreamInitInv == StreamInit => StreamInv
<1> SUFFICES ASSUME StreamInit PROVE StreamInv
  OBVIOUS
<1>1. /\ body \in Seq(STRING) /\ parser \in Parsers /\ body \in Bodies[parser]
      /\ received = 0 /\ buffer = <<>> /\ given = <<>> /\ status = "reading"
      /\ due.payloads = {} /\ due.then = "reading" /\ due \in Outcomes(0)
  <2>1. due = Result({}, "reading")
    BY DEF StreamInit, Nothing
  <2>2. due.payloads = {} /\ due.then = "reading"
    BY <2>1, ResultIs
  <2>3. due \in Outcomes(0)
    BY <2>1, ResultIs
  <2>4. QED
    BY <2>2, <2>3, StreamAssumption DEF StreamInit
<1>2. Len(buffer) = 0 /\ Len(body) \in Nat /\ Done = 0
  <2>1. Len(buffer) = 0
    BY <1>1
  <2>2. Len(body) \in Nat
    BY <1>1
  <2>3. Done = 0
    <3>1. received = 0
      BY <1>1
    <3>2. QED
      BY <2>1, <3>1 DEF Done
  <2>4. QED
    BY <2>1, <2>2, <2>3
<1>3. StreamTypeOK
  <2>1. given \in Seq(1..received)
    BY <1>1
  <2>2. received \in 0..Len(body) /\ Len(buffer) <= received /\ Len(buffer) <= Cap
    BY <1>1, <1>2, StreamAssumption
  <2>3. due \in [payloads : SUBSET (1..received), then : {"reading", "returned", "raised"}]
    BY <1>1 DEF Outcomes
  <2>4. QED
    BY <1>1, <2>1, <2>2, <2>3 DEF StreamTypeOK
<1>4. Held
  BY <1>1, <1>2 DEF Held
<1>5. EventEnds \subseteq 1..Len(body) /\ Stops \subseteq EventEnds
  BY DEF EventEnds, Stops
<1>6. Handed
  <2>1. {f \in EventEnds : f <= 0 /\ \A g \in Stops : f <= g} = {}
    <3>1. \A f \in EventEnds : ~(f <= 0)
      BY <1>2, <1>5
    <3>2. QED
      BY <3>1
  <2>2. Promised(Done) = {}
    BY <1>2, <2>1 DEF Promised
  <2>3. Range(given) = {} /\ DOMAIN given = {}
    BY <1>1 DEF Range
  <2>4. QED
    BY <1>1, <2>2, <2>3 DEF Handed
<1>7. Judged
  <2>1. \A e \in Stops : Done < e
    BY <1>2, <1>5
  <2>2. QED
    BY <1>1, <2>1 DEF Judged, Outcome
<1>8. QED
  BY <1>3, <1>4, <1>6, <1>7 DEF StreamInv

-----------------------------------------------------------------------------
(* The steps.                                                              *)

(* A chunk arrives.                                                        *)
LEMMA ReceiveInv ==
  ASSUME StreamInv, NEW size \in 1..Len(body), Receive(size)
  PROVE  StreamInv'
<1>1. /\ body \in Seq(STRING) /\ Cap \in Nat /\ buffer \in Seq(STRING)
      /\ StreamTypeOK /\ Held /\ Handed /\ Judged
  BY BodyIs DEF StreamInv, Held
<1>2. /\ Len(buffer) \in Nat /\ Len(body) \in Nat /\ Done + Len(buffer) = received
      /\ Done \in Nat /\ received \in Nat /\ size \in Nat
  BY <1>1, BufferIs DEF Held
<1>3. /\ parser' = parser /\ body' = body /\ given' = given /\ due' = due
      /\ status = "reading" /\ received' = received + size /\ received + size <= Len(body)
      /\ buffer' = buffer \o SubSeq(body, received + 1, received + size)
      /\ status' = IF parser = "adapter" /\ Len(buffer') > Cap THEN "overflow" ELSE "reading"
  BY DEF Receive
<1>4. PICK b \in Seq(STRING) :
        /\ b = SubSeq(body, received + 1, received + size) /\ Len(b) = size
        /\ \A i \in 1..size : b[i] = body[received + i]
  <2>1. /\ SubSeq(body, received + 1, received + size) \in Seq(STRING)
        /\ Len(SubSeq(body, received + 1, received + size)) = size
        /\ \A i \in 1..size : SubSeq(body, received + 1, received + size)[i] = body[received + i]
    BY <1>1, <1>2, <1>3, PartIs
  <2>2. QED
    BY <2>1
<1>5. /\ buffer' \in Seq(STRING) /\ Len(buffer') = Len(buffer) + size
      /\ \A j \in 1..Len(buffer) : buffer'[j] = buffer[j]
      /\ \A j \in 1..size : buffer'[Len(buffer) + j] = b[j]
  <2>1. /\ buffer \o b \in Seq(STRING) /\ Len(buffer \o b) = Len(buffer) + Len(b)
        /\ \A j \in 1..Len(buffer) : (buffer \o b)[j] = buffer[j]
        /\ \A j \in 1..Len(b) : (buffer \o b)[Len(buffer) + j] = b[j]
    BY <1>1, Joined
  <2>2. QED
    BY <1>3, <1>4, <2>1
<1>6. Done' = Done
  <2>1. Done' = received' - Len(buffer') /\ Done = received - Len(buffer)
    BY DEF Done
  <2>2. Len(buffer') = Len(buffer) + size /\ received' = received + size
    BY <1>3, <1>5
  <2>3. QED
    BY <1>2, <2>1, <2>2
<1>7. received \in Nat /\ received' \in Nat /\ received <= received'
  BY <1>2, <1>3
<1>8. StreamTypeOK'
  <2>1. 1..received \subseteq 1..received'
    BY <1>7
  <2>2. given' \in Seq(1..received')
    <3>1. given \in Seq(1..received)
      BY <1>1 DEF StreamTypeOK
    <3>2. QED
      BY <1>3, <2>1, <3>1, WiderSeq
  <2>3. due' \in [payloads : SUBSET (1..received'), then : {"reading", "returned", "raised"}]
    BY <1>1, <1>3, <2>1 DEF StreamTypeOK
  <2>4. received' \in 0..Len(body') /\ Len(buffer') <= received'
    BY <1>2, <1>3, <1>5
  <2>5. parser' = "adapter" /\ status' # "overflow" => Len(buffer') <= Cap
    BY <1>1, <1>2, <1>3, <1>5
  <2>6. /\ status' \in {"reading", "yielding", "returned", "raised", "ended", "overflow"}
        /\ status' # "yielding" /\ due'.payloads = {}
        /\ parser' \in Parsers /\ body' \in Bodies[parser']
    BY <1>1, <1>3 DEF StreamTypeOK
  <2>7. QED
    BY <2>2, <2>3, <2>4, <2>5, <2>6 DEF StreamTypeOK
<1>9. Held'
  <2>1. ASSUME NEW i \in 1..Len(buffer') PROVE buffer'[i] = body'[Done' + i]
    <3>1. CASE i \in 1..Len(buffer)
      BY <1>1, <1>3, <1>5, <1>6, <3>1 DEF Held
    <3>2. CASE i \notin 1..Len(buffer)
      <4>1. PICK j \in 1..size : i = Len(buffer) + j
        <5>1. i - Len(buffer) \in 1..size /\ i = Len(buffer) + (i - Len(buffer))
          BY <1>2, <1>5, <3>2
        <5>2. QED
          BY <5>1
      <4>2. Done + i = received + j
        BY <1>2, <4>1
      <4>3. QED
        BY <1>3, <1>4, <1>5, <1>6, <4>1, <4>2
    <3>3. QED
      BY <3>1, <3>2
  <2>2. Done' = 0 \/ Done' \in EventEnds'
    BY <1>1, <1>3, <1>6, SameBody DEF Held
  <2>3. QED
    BY <1>1, <1>2, <1>3, <1>5, <1>6, <1>7, <2>1, <2>2 DEF Held
<1>10. Handed'
  <2>1. Promised(Done') = Promised(Done)
    BY <1>6
  <2>2. Promised(Done)' = Promised(Done)
    <3>1. PICK d : d = Done
      OBVIOUS
    <3>2. Promised(d)' = Promised(d)
      BY <1>3, SameBody
    <3>3. QED
      BY <1>6, <3>1, <3>2 DEF Promised
  <2>3. QED
    BY <1>1, <1>3, <1>6, <2>2 DEF Handed
<1>11. Judged'
  <2>1. \A e \in Stops : Done < e
    BY <1>1, <1>3 DEF Judged, Outcome
  <2>2. Stops' = Stops
    BY <1>3, SameBody
  <2>3. \A e \in Stops' : Done' < e
    BY <1>6, <2>1, <2>2
  <2>4. QED
    BY <1>3, <2>3 DEF Judged, Outcome
<1>12. QED
  BY <1>8, <1>9, <1>10, <1>11 DEF StreamInv

(* An event that is taken: what is due of it lies behind all that was      *)
(* handed on.                                                              *)
LEMMA TakeEventInv ==
  ASSUME StreamInv, TakeEvent
  PROVE  StreamInv'
<1>1. /\ body \in Seq(STRING) /\ parser \in {"adapter", "openai", "anthropic"}
      /\ buffer \in Seq(STRING) /\ StreamTypeOK /\ Held /\ Handed /\ Judged
  BY BodyIs DEF StreamInv, Held
<1>2. /\ Len(buffer) \in Nat /\ Len(body) \in Nat /\ Done + Len(buffer) = received
      /\ Done \in Nat /\ received \in Nat /\ received <= Len(body)
  BY <1>1, BufferIs DEF Held
<1>3. /\ parser' = parser /\ body' = body /\ given' = given /\ received' = received
      /\ status = "reading" /\ Terminators # {} /\ due.payloads = {}
  BY <1>1 DEF TakeEvent, StreamTypeOK
<1>4. \A g \in Stops : Done < g
  BY <1>1, <1>3 DEF Judged, Outcome
<1>5. PICK sep \in 1..(Len(buffer) - 1) :
        /\ sep = Min(Terminators)
        /\ Done + sep + 1 \in EventEnds
  BY <1>1, <1>3, NextEnd
<1>6. sep \in Nat /\ 1 <= sep /\ sep + 1 <= Len(buffer)
  BY <1>2
<1>7. PICK event \in Seq(STRING) : event = SubSeq(buffer, 1, sep - 1) /\ Len(event) = sep - 1
  <2>1. 0 \in Nat /\ sep - 1 \in Nat /\ 0 + (sep - 1) <= Len(buffer) /\ 0 + 1 = 1 /\ 0 + (sep - 1) = sep - 1
    BY <1>2
  <2>2. SubSeq(buffer, 0 + 1, 0 + (sep - 1)) \in Seq(STRING) /\ Len(SubSeq(buffer, 0 + 1, 0 + (sep - 1))) = sep - 1
    BY <1>1, <2>1, PartIs
  <2>3. QED
    BY <2>1, <2>2
<1>8. PICK result \in Outcomes(sep - 1) : result = Reads(event)
  BY <1>1, <1>7, ReadsIs
<1>9. PICK e \in Nat : e = Done + sep + 1
  BY <1>2
<1>10. /\ Promised(e) = Promised(Done) \union {Done + i : i \in result.payloads}
       /\ e \in Stops <=> result.then # "reading"
       /\ \A g \in Stops : e <= g
       /\ Reads(EventAt(e)) = result
       /\ e \in EventEnds
  BY <1>1, <1>3, <1>4, <1>5, <1>7, <1>8, <1>9, PromisedNext
<1>11. PICK new : new = {Done + i : i \in result.payloads}
  OBVIOUS
<1>12. /\ result.payloads \subseteq 1..(sep - 1)
       /\ result.then \in {"reading", "returned", "raised"}
  BY <1>8 DEF Outcomes
<1>13. \A j \in new : j \in Nat /\ Done < j /\ j <= e /\ j \in 1..received
  <2> SUFFICES ASSUME NEW i \in result.payloads
               PROVE  /\ Done + i \in Nat /\ Done < Done + i /\ Done + i <= e
                      /\ Done + i \in 1..received
    BY <1>11
  <2>1. i \in 1..(sep - 1)
    BY <1>12
  <2>2. QED
    BY <1>2, <1>6, <1>9, <2>1
<1>14. /\ due'.payloads = new /\ due'.then = result.then /\ due' \in Outcomes(received)
       /\ status' = IF new = {} THEN result.then ELSE "yielding"
       /\ buffer' = SubSeq(buffer, sep + 2, Len(buffer))
  <2>1. GoesOn(Result(new, result.then)) /\ buffer' = SubSeq(buffer, sep + 2, Len(buffer))
    BY <1>5, <1>7, <1>8, <1>11 DEF TakeEvent
  <2>2. due' = Result(new, result.then)
    BY <2>1 DEF GoesOn
  <2>3. due'.payloads = new /\ due'.then = result.then
    BY <2>2, ResultIs
  <2>4. new \subseteq 1..received
    BY <1>13
  <2>5. due' \in Outcomes(received)
    BY <1>2, <1>12, <2>2, <2>4, ResultIs
  <2>6. status' = IF new = {} THEN result.then ELSE "yielding"
    <3>1. /\ Result(new, result.then).payloads = new
          /\ Result(new, result.then).then = result.then
      BY ResultIs
    <3>2. QED
      BY <2>1, <3>1 DEF GoesOn
  <2>7. QED
    BY <2>1, <2>3, <2>5, <2>6
<1>15. /\ buffer' \in Seq(STRING) /\ Len(buffer') = Len(buffer) - (sep + 1)
       /\ \A i \in 1..(Len(buffer) - (sep + 1)) : buffer'[i] = buffer[sep + 1 + i]
  <2>1. Len(buffer) - (sep + 1) \in Nat
    BY <1>2, <1>6
  <2>2. PICK n \in Nat : n = Len(buffer) - (sep + 1)
    BY <2>1
  <2>3. sep + 1 \in Nat /\ (sep + 1) + n = Len(buffer) /\ (sep + 1) + 1 = sep + 2
    BY <1>2, <1>6, <2>2
  <2>4. /\ SubSeq(buffer, (sep + 1) + 1, (sep + 1) + n) \in Seq(STRING)
        /\ Len(SubSeq(buffer, (sep + 1) + 1, (sep + 1) + n)) = n
        /\ \A i \in 1..n : SubSeq(buffer, (sep + 1) + 1, (sep + 1) + n)[i] = buffer[(sep + 1) + i]
    BY <1>1, <2>3, PartIs
  <2>5. QED
    BY <1>14, <2>2, <2>3, <2>4
<1>16. Done' = e
  <2>1. Done' = received' - Len(buffer')
    BY DEF Done
  <2>2. /\ Len(buffer') = Len(buffer) - (sep + 1) /\ received' = received
        /\ e = Done + sep + 1 /\ sep \in Nat
    BY <1>3, <1>5, <1>9, <1>15
  <2>3. Len(buffer) \in Nat /\ Done + Len(buffer) = received /\ Done \in Nat /\ received \in Nat
    BY <1>2
  <2>4. QED
    BY <2>1, <2>2, <2>3
<1>17. StreamTypeOK'
  <2>1. parser' \in Parsers /\ body' \in Bodies[parser'] /\ received' \in 0..Len(body') /\ given' \in Seq(1..received')
    BY <1>1, <1>3 DEF StreamTypeOK
  <2>2. Len(buffer') <= received' /\ Len(buffer') <= Len(buffer)
    <3>1. /\ Len(buffer') = Len(buffer) - (sep + 1) /\ received' = received
          /\ sep \in Nat
      BY <1>3, <1>5, <1>15
    <3>2. Len(buffer) \in Nat /\ Done + Len(buffer) = received /\ Done \in Nat /\ received \in Nat
      BY <1>2
    <3>3. QED
      BY <3>1, <3>2
  <2>3. parser' = "adapter" => Len(buffer') <= Cap
    <3>1. parser = "adapter" => Len(buffer) <= Cap
      BY <1>1, <1>3 DEF StreamTypeOK
    <3>2. Cap \in Nat /\ Len(buffer') \in Nat
      BY <1>15, StreamAssumption
    <3>3. QED
      BY <1>2, <1>3, <2>2, <3>1, <3>2
  <2>4. due' \in [payloads : SUBSET (1..received'), then : {"reading", "returned", "raised"}]
    BY <1>3, <1>14 DEF Outcomes
  <2>5. /\ status' \in {"reading", "yielding", "returned", "raised", "ended", "overflow"}
        /\ status' = "yielding" <=> due'.payloads # {}
    BY <1>12, <1>14
  <2>6. QED
    BY <2>1, <2>2, <2>3, <2>4, <2>5 DEF StreamTypeOK
<1>18. Held'
  <2>1. ASSUME NEW i \in 1..Len(buffer') PROVE buffer'[i] = body'[Done' + i]
    <3>1. i \in 1..(Len(buffer) - (sep + 1)) /\ sep + 1 + i \in 1..Len(buffer)
      BY <1>2, <1>15
    <3>2. buffer[sep + 1 + i] = body[Done + (sep + 1 + i)]
      BY <1>1, <3>1 DEF Held
    <3>3. Done + (sep + 1 + i) = e + i
      BY <1>2, <1>9
    <3>4. QED
      BY <1>3, <1>15, <1>16, <3>1, <3>2, <3>3
  <2>2. Done' \in EventEnds'
    BY <1>3, <1>10, <1>16, SameBody
  <2>3. QED
    BY <1>1, <1>2, <1>3, <1>9, <1>15, <1>16, <2>1, <2>2 DEF Held
<1>19. Handed'
  <2>1. Promised(Done)' = Promised(e)
    <3>1. Promised(e)' = Promised(e)
      BY <1>3, SameBody
    <3>2. QED
      BY <1>16, <3>1 DEF Promised
  <2>2. Range(given) = Promised(Done)
    BY <1>1, <1>3 DEF Handed
  <2>3. Range(given') \union due'.payloads = Promised(e)
    BY <1>3, <1>10, <1>11, <1>14, <2>2
  <2>4. \A i, j \in DOMAIN given' : i < j => given'[i] < given'[j]
    BY <1>1, <1>3 DEF Handed
  <2>5. \A i \in DOMAIN given : given[i] \in Nat /\ given[i] <= Done
    <3>1. given \in Seq(1..received)
      BY <1>1 DEF StreamTypeOK
    <3>2. \A i \in DOMAIN given : given[i] \in 1..received
      BY <3>1, ElementsAre
    <3>3. \A i \in DOMAIN given : given[i] <= Done
      BY <1>1 DEF Handed
    <3>4. QED
      BY <1>2, <3>2, <3>3
  <2>6. \A i \in DOMAIN given' : \A j \in due'.payloads : given'[i] < j
    BY <1>2, <1>3, <1>13, <1>14, <2>5
  <2>7. /\ \A i \in DOMAIN given' : given'[i] <= Done'
        /\ \A j \in due'.payloads : j <= Done'
    <3>1. Done <= e
      BY <1>2, <1>5, <1>9
    <3>2. QED
      BY <1>2, <1>3, <1>13, <1>14, <1>16, <2>5, <3>1
  <2>8. QED
    BY <2>1, <2>3, <2>4, <2>6, <2>7 DEF Handed
<1>20. Judged'
  <2>1. Outcome' = result.then /\ status' # "ended"
    BY <1>12, <1>14 DEF Outcome
  <2>2. Stops' = Stops /\ Reads(EventAt(e))' = Reads(EventAt(e))
    BY <1>3, SameBody
  <2>3. Reads(EventAt(Done))' = result
    <3>1. Reads(EventAt(Done))' = Reads(EventAt(e))'
      BY <1>16 DEF Reads, EventAt, Before
    <3>2. QED
      BY <1>10, <2>2, <3>1
  <2>4. CASE result.then = "reading"
    <3>1. \A g \in Stops : e < g
      <4>1. Stops \subseteq Nat
        <5>1. EventEnds \subseteq 1..Len(body)
          BY <1>1, BufferIs
        <5>2. \A g \in Stops : g \in EventEnds
          BY DEF Stops
        <5>3. \A g \in 1..Len(body) : g \in Nat
          OBVIOUS
        <5>4. QED
          BY <5>1, <5>2, <5>3
      <4>2. QED
        BY <1>10, <2>4, <4>1
    <3>2. QED
      BY <1>16, <2>1, <2>2, <2>4, <3>1 DEF Judged
  <2>5. CASE result.then # "reading"
    <3>1. result.then \in {"returned", "raised"} /\ e \in Stops /\ \A g \in Stops : e <= g
      BY <1>10, <1>12, <2>5
    <3>2. QED
      BY <1>16, <2>1, <2>2, <2>3, <3>1 DEF Judged
  <2>6. QED
    BY <2>4, <2>5
<1>21. QED
  BY <1>17, <1>18, <1>19, <1>20 DEF StreamInv

(* A payload is handed on.                                                 *)
LEMMA YieldInv ==
  ASSUME StreamInv, Yield
  PROVE  StreamInv'
<1>1. StreamTypeOK /\ Held /\ Handed /\ Judged
  BY DEF StreamInv
<1>2. /\ parser' = parser /\ body' = body /\ received' = received /\ buffer' = buffer
      /\ status = "yielding" /\ received \in Nat /\ Done \in Nat
  BY <1>1 DEF Yield, Held
<1>3. Done' = Done
  BY <1>2 DEF Done
<1>4. PICK D \in SUBSET (1..received) : D = due.payloads /\ D # {}
  BY <1>1, <1>2 DEF StreamTypeOK
<1>5. PICK m \in D : m = Min(D) /\ \A y \in D : m <= y
  <2>1. D \in SUBSET Nat
    BY <1>2
  <2>2. QED
    BY <1>4, <2>1, MinIs
<1>6. PICK then \in {"reading", "returned", "raised"} : then = due.then
  BY <1>1 DEF StreamTypeOK
<1>7. /\ given' = Append(given, m) /\ GoesOn(Result(D \ {m}, then))
  BY <1>4, <1>5, <1>6 DEF Yield
<1>8. /\ due'.payloads = D \ {m} /\ due'.then = then /\ due' \in Outcomes(received)
      /\ status' = IF D \ {m} = {} THEN then ELSE "yielding"
  <2>1. /\ Result(D \ {m}, then).payloads = D \ {m} /\ Result(D \ {m}, then).then = then
        /\ Result(D \ {m}, then) \in Outcomes(received)
    <3>1. D \ {m} \subseteq 1..received
      OBVIOUS
    <3>2. QED
      BY <1>2, <3>1, ResultIs
  <2>2. QED
    BY <1>7, <2>1 DEF GoesOn
<1>9. /\ given \in Seq(1..received) /\ m \in 1..received
      /\ \A y \in D : y \in Nat /\ (y # m => m < y)
  <2>1. given \in Seq(1..received)
    BY <1>1 DEF StreamTypeOK
  <2>2. QED
    BY <1>2, <1>5, <2>1
<1>10. /\ given' \in Seq(1..received) /\ Len(given) \in Nat
       /\ DOMAIN given = 1..Len(given) /\ DOMAIN given' = 1..(Len(given) + 1)
       /\ given'[Len(given) + 1] = m
       /\ \A i \in 1..Len(given) : given'[i] = given[i]
  BY <1>7, <1>9
<1>11. \A i \in 1..(Len(given) + 1) : i \in 1..Len(given) \/ i = Len(given) + 1
  BY <1>10
<1>12. StreamTypeOK'
  <2>1. /\ parser' \in Parsers /\ body' \in Bodies[parser'] /\ received' \in 0..Len(body')
        /\ Len(buffer') <= received' /\ (parser' = "adapter" => Len(buffer') <= Cap)
    BY <1>1, <1>2 DEF StreamTypeOK
  <2>2. due' \in [payloads : SUBSET (1..received'), then : {"reading", "returned", "raised"}]
    BY <1>2, <1>8 DEF Outcomes
  <2>3. /\ status' \in {"reading", "yielding", "returned", "raised", "ended", "overflow"}
        /\ status' = "yielding" <=> due'.payloads # {}
    BY <1>8
  <2>4. QED
    BY <1>2, <1>10, <2>1, <2>2, <2>3 DEF StreamTypeOK
<1>13. Held'
  <2>1. EventEnds' = EventEnds
    BY <1>2, SameBody
  <2>2. QED
    BY <1>1, <1>2, <1>3, <2>1 DEF Held
<1>14. Handed'
  <2>1. Promised(Done)' = Promised(Done)
    <3>1. PICK d : d = Done
      OBVIOUS
    <3>2. Promised(d)' = Promised(d)
      BY <1>2, SameBody
    <3>3. QED
      BY <1>3, <3>1, <3>2 DEF Promised
  <2>2. /\ Range(given) \union D = Promised(Done)
        /\ \A i, j \in 1..Len(given) : i < j => given[i] < given[j]
        /\ \A i \in 1..Len(given) : \A j \in D : given[i] < j
        /\ \A i \in 1..Len(given) : given[i] <= Done
        /\ \A j \in D : j <= Done
    BY <1>1, <1>4, <1>10 DEF Handed
  <2>3. Range(given') = Range(given) \union {m}
    BY <1>10, <1>11 DEF Range
  <2>4. Range(given') \union due'.payloads = Promised(Done)
    BY <1>8, <2>2, <2>3
  <2>5. \A i, j \in DOMAIN given' : i < j => given'[i] < given'[j]
    <3> SUFFICES ASSUME NEW i \in 1..(Len(given) + 1), NEW j \in 1..(Len(given) + 1), i < j
                 PROVE  given'[i] < given'[j]
      BY <1>10
    <3>1. i \in 1..Len(given)
      BY <1>10
    <3>2. CASE j \in 1..Len(given)
      BY <1>10, <2>2, <3>1, <3>2
    <3>3. CASE j = Len(given) + 1
      BY <1>10, <2>2, <3>1, <3>3
    <3>4. QED
      BY <1>11, <3>2, <3>3
  <2>6. \A i \in DOMAIN given' : \A j \in due'.payloads : given'[i] < j
    BY <1>8, <1>9, <1>10, <1>11, <2>2
  <2>7. /\ \A i \in DOMAIN given' : given'[i] <= Done'
        /\ \A j \in due'.payloads : j <= Done'
    BY <1>3, <1>8, <1>10, <1>11, <2>2
  <2>8. QED
    BY <2>1, <2>4, <2>5, <2>6, <2>7 DEF Handed
<1>15. Judged'
  <2>1. Outcome = then /\ Outcome' = then /\ status' # "ended"
    BY <1>2, <1>6, <1>8 DEF Outcome
  <2>2. Stops' = Stops /\ Reads(EventAt(Done))' = Reads(EventAt(Done))
    <3>1. PICK d : d = Done
      OBVIOUS
    <3>2. Reads(EventAt(d))' = Reads(EventAt(d)) /\ Stops' = Stops
      BY <1>2, SameBody
    <3>3. Reads(EventAt(Done))' = Reads(EventAt(d))'
      BY <1>3, <3>1 DEF Reads, EventAt, Before
    <3>4. QED
      BY <3>1, <3>2, <3>3
  <2>3. QED
    BY <1>1, <1>3, <2>1, <2>2 DEF Judged
<1>16. QED
  BY <1>12, <1>13, <1>14, <1>15 DEF StreamInv

(* The body ends.                                                          *)
LEMMA EndOfBodyInv ==
  ASSUME StreamInv, EndOfBody \/ UNCHANGED streamVars
  PROVE  StreamInv'
<1>1. StreamTypeOK /\ Held /\ Handed /\ Judged
  BY DEF StreamInv
<1>2. /\ parser' = parser /\ body' = body /\ received' = received /\ buffer' = buffer
      /\ given' = given /\ due' = due
  BY DEF EndOfBody, streamVars
<1>3. Done' = Done
  BY <1>2 DEF Done
<1>4. /\ EventEnds' = EventEnds /\ Stops' = Stops
      /\ Promised(Done)' = Promised(Done)
      /\ Reads(EventAt(Done))' = Reads(EventAt(Done))
  <2>1. PICK d : d = Done
    OBVIOUS
  <2>2. /\ EventEnds' = EventEnds /\ Stops' = Stops
        /\ Promised(d)' = Promised(d)
        /\ Reads(EventAt(d))' = Reads(EventAt(d))
    BY <1>2, SameBody
  <2>3. Promised(Done)' = Promised(d)'
    BY <1>3, <2>1 DEF Promised
  <2>4. Reads(EventAt(Done))' = Reads(EventAt(d))'
    BY <1>3, <2>1 DEF Reads, EventAt, Before
  <2>5. QED
    BY <2>1, <2>2, <2>3, <2>4
<1>5. Held'
  BY <1>1, <1>2, <1>3, <1>4 DEF Held
<1>6. Handed'
  BY <1>1, <1>2, <1>3, <1>4 DEF Handed
<1>7. CASE UNCHANGED streamVars
  <2>1. status' = status
    BY <1>7 DEF streamVars
  <2>2. StreamTypeOK'
    BY <1>1, <1>2, <2>1 DEF StreamTypeOK
  <2>3. Outcome' = Outcome
    BY <1>2, <2>1 DEF Outcome
  <2>4. Judged'
    BY <1>1, <1>3, <1>4, <2>1, <2>3 DEF Judged
  <2>5. QED
    BY <1>5, <1>6, <2>2, <2>4 DEF StreamInv
<1>8. CASE EndOfBody
  <2>1. status = "reading" /\ status' = "ended" /\ Terminators = {} /\ received = Len(body)
    BY <1>8 DEF EndOfBody
  <2>2. StreamTypeOK'
    BY <1>1, <1>2, <2>1 DEF StreamTypeOK
  <2>3. \A f \in EventEnds : f <= Done
    <3> SUFFICES ASSUME NEW f \in EventEnds, ~(f <= Done) PROVE FALSE
      OBVIOUS
    <3>1. f \in 1..Len(body) /\ Len(body) \in Nat /\ Done \in Nat
      BY <1>1, BufferIs DEF Held
    <3>2. f > Done /\ f <= received
      BY <2>1, <3>1
    <3>3. QED
      BY <1>1, <2>1, <3>2, EndsAnnounced
  <2>4. \A e \in Stops : Done < e
    BY <1>1, <2>1 DEF Judged, Outcome
  <2>5. Judged'
    BY <1>3, <1>4, <2>1, <2>3, <2>4 DEF Judged, Outcome
  <2>6. QED
    BY <1>5, <1>6, <2>2, <2>5 DEF StreamInv
<1>9. QED
  BY <1>7, <1>8

(* The invariant holds throughout.                                         *)
LEMMA StreamInvariance == StreamSpec => []StreamInv
<1>1. StreamInv /\ [StreamNext]_streamVars => StreamInv'
  BY ReceiveInv, TakeEventInv, YieldInv, EndOfBodyInv DEF StreamNext
<1>2. QED
  BY StreamInitInv, <1>1, PTL DEF StreamSpec

(* However an answer is cut into chunks, its payloads are handed on once,  *)
(* in order, and up to the one that stops the stream.                      *)
THEOREM PayloadsExactlyOnce == StreamSpec => []ExactlyOnce
<1>1. StreamInv => ExactlyOnce
  <2> SUFFICES ASSUME StreamInv PROVE ExactlyOnce
    OBVIOUS
  <2>1. StreamTypeOK /\ Held /\ Handed /\ Judged
    BY DEF StreamInv
  <2>2. ASSUME status = "ended" PROVE Range(given) = Promised(Len(body))
    <3>1. Promised(Len(body)) = Promised(Done)
      BY <2>1, <2>2, PromisedAll DEF Judged
    <3>2. due.payloads = {}
      BY <2>1, <2>2 DEF StreamTypeOK
    <3>3. QED
      BY <2>1, <3>1, <3>2 DEF Handed
  <2>3. QED
    BY <2>1, <2>2 DEF Handed, ExactlyOnce
<1>2. QED
  BY <1>1, StreamInvariance, PTL

(* How reading ends is decided by the body and not by its chunks.          *)
THEOREM StreamEndsAsSent == StreamSpec => []EndsAsSent
<1>1. StreamInv => EndsAsSent
  <2> SUFFICES ASSUME StreamInv PROVE EndsAsSent
    OBVIOUS
  <2>1. StreamTypeOK /\ Held /\ Judged
    BY DEF StreamInv
  <2>2. /\ EventEnds \subseteq 1..Len(body) /\ Stops \subseteq EventEnds
        /\ Len(body) \in Nat /\ Done \in Nat
    BY <2>1, BufferIs DEF Stops, Held
  <2>3. /\ status \in {"reading", "yielding", "returned", "raised", "ended", "overflow"}
        /\ due.then \in {"reading", "returned", "raised"}
    BY <2>1 DEF StreamTypeOK
  <2>4. CASE status = "ended"
    <3>1. /\ \A e \in Stops : Done < e
          /\ \A f \in EventEnds : f <= Done
      BY <2>1, <2>4 DEF Judged, Outcome
    <3>2. Stops = {}
      BY <2>2, <3>1
    <3>3. QED
      BY <2>4, <3>2 DEF EndsAsSent
  <2>5. CASE status \in {"returned", "raised"}
    <3>1. /\ Done \in Stops /\ \A e \in Stops : Done <= e
          /\ status = Reads(EventAt(Done)).then
      BY <2>1, <2>5 DEF Judged, Outcome
    <3>2. Min(Stops) = Done
      <4>1. Stops \in SUBSET Nat
        BY <2>2
      <4>2. Min(Stops) \in Stops /\ Min(Stops) <= Done
        BY <3>1, <4>1, MinIs
      <4>3. Min(Stops) \in Nat /\ Done <= Min(Stops)
        BY <3>1, <4>1, <4>2
      <4>4. QED
        BY <2>2, <4>2, <4>3
    <3>3. QED
      BY <2>5, <3>1, <3>2 DEF EndsAsSent
  <2>6. CASE status \in {"reading", "overflow"}
    <3>1. \A e \in Stops : Done < e
      BY <2>1, <2>6 DEF Judged, Outcome
    <3>2. QED
      BY <2>6, <3>1 DEF EndsAsSent
  <2>7. CASE status = "yielding"
    <3>1. \A e \in Stops : Done < e \/ Done = e
      <4>1. (\A e \in Stops : Done < e) \/ (\A e \in Stops : Done <= e)
        BY <2>1 DEF Judged
      <4>2. QED
        BY <2>2, <4>1
    <3>2. QED
      BY <2>7, <3>1 DEF EndsAsSent
  <2>8. QED
    BY <2>3, <2>4, <2>5, <2>6, <2>7
<1>2. QED
  BY <1>1, StreamInvariance, PTL
=============================================================================

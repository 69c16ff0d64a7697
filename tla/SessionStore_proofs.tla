-------------------------- MODULE SessionStore_proofs --------------------------
(***************************************************************************)
(* The session store, for any number of sessions, messages and failures    *)
(* and for every max_messages.                                             *)
(***************************************************************************)
EXTENDS SessionStore, FiniteSetTheorems, WellFoundedInduction, TLAPS

-----------------------------------------------------------------------------
(* Finite sets of numbers in order.                                        *)

LEMMA Least ==
  ASSUME NEW T \in SUBSET Nat, T # {}
  PROVE  \E x \in T : \A y \in T : x <= y
  <1> DEFINE R == OpToRel(<, Nat)
  <1>1. IsWellFoundedOn(R, Nat)
    BY NatLessThanWellFounded
  <1>2. \A x, y \in Nat : y < x => <<y, x>> \in R
    BY DEF OpToRel
  <1> HIDE DEF R
  <1>3. PICK x \in T : \A y \in T : ~(<<y, x>> \in R)
    BY <1>1, WFMin
  <1>4. \A y \in T : ~(y < x)
    BY <1>2, <1>3, Zenon
  <1> QED  BY <1>4

LEMMA Greatest ==
  ASSUME NEW n \in Nat, NEW S \in SUBSET (1..n), S # {}
  PROVE  \E x \in S : \A y \in S : y <= x
  <1> DEFINE T == {m \in Nat : \A y \in S : y <= m}
  <1>1. n \in T
    OBVIOUS
  <1>2. PICK m \in T : \A y \in T : m <= y
    BY <1>1, Least
  <1>3. m \in S
    <2> SUFFICES ASSUME m \notin S PROVE FALSE
      OBVIOUS
    <2>1. \A y \in S : y <= m - 1 /\ m - 1 \in Nat
      OBVIOUS
    <2>2. m - 1 \in T
      BY <2>1
    <2> QED  BY <1>2, <2>2
  <1> QED  BY <1>3

LEMMA PartFinite ==
  ASSUME NEW n \in Nat, NEW S \in SUBSET (1..n)
  PROVE  IsFiniteSet(S) /\ Cardinality(S) \in Nat
  <1>1. IsFiniteSet(1..n)
    BY FS_Interval
  <1>2. IsFiniteSet(S)
    BY <1>1, FS_Subset
  <1> QED  BY <1>2, FS_CardinalityType

LEMMA RankType ==
  ASSUME NEW n \in Nat, NEW S \in SUBSET (1..n), NEW i \in Int
  PROVE  Rank(S, i) \in 0..Cardinality(S) /\ (i \in S => Rank(S, i) > 0)
  <1> DEFINE T == {j \in S : j <= i}
  <1>1. IsFiniteSet(S) /\ T \in SUBSET S
    BY PartFinite
  <1>2. IsFiniteSet(T) /\ Cardinality(T) <= Cardinality(S)
    BY <1>1, FS_Subset
  <1>3. Cardinality(T) \in Nat /\ Cardinality(S) \in Nat
    BY <1>1, <1>2, FS_CardinalityType
  <1>4. i \in S => Cardinality(T) # 0
    BY <1>2, FS_EmptySet
  <1> QED  BY <1>2, <1>3, <1>4 DEF Rank

(* A greater member has a greater rank.                                    *)
LEMMA RankStrict ==
  ASSUME NEW n \in Nat, NEW S \in SUBSET (1..n), NEW i \in S, NEW j \in S, i < j
  PROVE  Rank(S, i) < Rank(S, j)
  <1> DEFINE T == {k \in S : k <= i}
             U == {k \in S : k <= j}
  <1>1. \A x \in S : x \in Int
    OBVIOUS
  <1>2. U \in SUBSET (1..n) /\ T \in SUBSET U /\ j \in U /\ j \notin T
    <2>1. U \in SUBSET (1..n)
      OBVIOUS
    <2>2. j \in U
      BY <1>1
    <2>3. j \notin T
      BY <1>1
    <2>4. \A k \in S : k <= i => k <= j
      BY <1>1
    <2> QED  BY <2>1, <2>2, <2>3, <2>4
  <1>3. IsFiniteSet(U) /\ Cardinality(U) \in Nat
    BY <1>2, PartFinite
  <1>4. Cardinality(T) <= Cardinality(U) /\ Cardinality(T) # Cardinality(U)
    BY <1>2, <1>3, FS_Subset
  <1>5. Cardinality(T) \in Nat
    BY <1>2, PartFinite
  <1> QED  BY <1>3, <1>4, <1>5 DEF Rank

(* Some member has each rank.                                              *)
LEMMA RankTaken ==
  ASSUME NEW n \in Nat, NEW S \in SUBSET (1..n), NEW k \in 1..Cardinality(S)
  PROVE  \E i \in S : Rank(S, i) = k
  <1> DEFINE T == {m \in Nat : Rank(S, m) >= k}
  <1>1. \A x \in S : x \in Int /\ x >= 1 /\ x <= n
    OBVIOUS
  <1>2. Cardinality(S) \in Nat /\ IsFiniteSet(S)
    BY PartFinite
  <1>3. {j \in S : j <= n} = S
    BY <1>1
  <1>4. n \in T
    BY <1>2, <1>3 DEF Rank
  <1>5. PICK m \in T : \A y \in T : m <= y
    BY <1>4, Least
  <1>6. Rank(S, 0) = 0
    <2>1. \A j \in S : ~(j <= 0)
      BY <1>1
    <2>2. {j \in S : j <= 0} = {}
      BY <2>1
    <2> QED  BY <2>2, FS_EmptySet DEF Rank
  <1>7. m > 0 /\ m - 1 \in Nat /\ Rank(S, m - 1) < k
    <2>1. m # 0
      BY <1>5, <1>6
    <2>2. m - 1 \in Nat /\ m - 1 \notin T
      BY <1>5, <2>1
    <2>3. \A i \in Int : Rank(S, i) \in 0..Cardinality(S)
      BY RankType
    <2>4. Rank(S, m - 1) \in Nat
      BY <1>2, <2>2, <2>3
    <2>5. ~(Rank(S, m - 1) >= k)
      BY <2>2
    <2>6. m > 0
      BY <2>1
    <2> HIDE DEF T
    <2>7. k \in Nat
      BY <1>2
    <2> QED  BY <2>2, <2>4, <2>5, <2>6, <2>7
  <1> HIDE DEF T
  <1>8. m \in Nat /\ Rank(S, m) >= k /\ Rank(S, m) \in Nat /\ k \in Nat
    <2>1. m \in Nat /\ Rank(S, m) >= k
      BY DEF T
    <2> QED  BY <1>2, <2>1, RankType
  <1> DEFINE U == {j \in S : j <= m - 1}
  <1>9. U \in SUBSET (1..n) /\ IsFiniteSet(U)
    BY PartFinite
  <1>10. CASE m \in S
    <2>1. \A j \in S : j <= m <=> (j <= m - 1 \/ j = m)
      BY <1>1, <1>8
    <2>2. m \notin U
      BY <1>8
    <2>3. \A j : j \in {i \in S : i <= m} <=> j \in U \cup {m}
      BY <1>10, <2>1
    <2>4. {j \in S : j <= m} = U \cup {m} /\ m \notin U
      BY <2>2, <2>3, Zenon
    <2>5. Rank(S, m) = Rank(S, m - 1) + 1
      BY <1>9, <2>4, FS_AddElement DEF Rank
    <2>6. \A i \in Int : Rank(S, i) \in 0..Cardinality(S)
      BY RankType
    <2>7. Rank(S, m - 1) \in Nat
      BY <1>2, <1>7, <2>6
    <2> QED  BY <1>7, <1>8, <1>10, <2>5, <2>7
  <1>11. CASE m \notin S
    <2>1. \A j \in S : j <= m <=> j <= m - 1
      BY <1>1, <1>8, <1>11
    <2>2. {j \in S : j <= m} = U
      BY <2>1
    <2>3. Rank(S, m) = Rank(S, m - 1)
      BY <2>2 DEF Rank
    <2> QED  BY <1>7, <1>8, <2>3
  <1> QED  BY <1>10, <1>11

LEMMA InOrderIs ==
  ASSUME NEW n \in Nat, NEW S \in SUBSET (1..n)
  PROVE  /\ InOrder(S) \in [1..Cardinality(S) -> S]
         /\ \A k \in 1..Cardinality(S) : Rank(S, InOrder(S)[k]) = k
         /\ \A i \in S : Rank(S, i) \in 1..Cardinality(S) /\ InOrder(S)[Rank(S, i)] = i
         /\ \A k, l \in 1..Cardinality(S) : k < l => InOrder(S)[k] < InOrder(S)[l]
  <1> DEFINE c == Cardinality(S)
  <1>1. c \in Nat
    BY PartFinite
  <1>2. \A k \in 1..c : InOrder(S)[k] = CHOOSE i \in S : Rank(S, i) = k
    BY DEF InOrder
  <1>3. ASSUME NEW k \in 1..c PROVE InOrder(S)[k] \in S /\ Rank(S, InOrder(S)[k]) = k
    <2>1. \E i \in S : Rank(S, i) = k
      BY RankTaken
    <2> QED  BY <1>2, <2>1
  <1>4. InOrder(S) \in [1..c -> S]
    BY <1>3 DEF InOrder
  <1>5. ASSUME NEW i \in S PROVE Rank(S, i) \in 1..c
    <2>1. i \in Int
      OBVIOUS
    <2>2. Rank(S, i) \in 0..c /\ Rank(S, i) > 0
      BY <2>1, RankType
    <2> QED  BY <1>1, <2>2
  <1>6. \A i, j \in S : Rank(S, i) = Rank(S, j) => i = j
    <2> SUFFICES ASSUME NEW i \in S, NEW j \in S, Rank(S, i) = Rank(S, j), i # j PROVE FALSE
      OBVIOUS
    <2>1. Rank(S, i) \in Nat /\ i \in Int /\ j \in Int
      BY <1>1, <1>5
    <2>2. i < j => Rank(S, i) < Rank(S, j)
      BY RankStrict
    <2>3. j < i => Rank(S, j) < Rank(S, i)
      BY RankStrict
    <2> QED  BY <2>1, <2>2, <2>3
  <1>7. \A i \in S : InOrder(S)[Rank(S, i)] = i
    BY <1>3, <1>5, <1>6
  <1>8. ASSUME NEW k \in 1..c, NEW l \in 1..c, k < l PROVE InOrder(S)[k] < InOrder(S)[l]
    <2> DEFINE i == InOrder(S)[k]
               j == InOrder(S)[l]
    <2>1. i \in S /\ j \in S /\ Rank(S, i) = k /\ Rank(S, j) = l
      BY <1>3
    <2> HIDE DEF i, j
    <2>2. i # j
      BY <1>8, <2>1
    <2>3. ~(j < i)
      BY <1>8, <2>1, RankStrict
    <2>4. i < j
      BY <2>1, <2>2, <2>3
    <2> QED  BY <2>4 DEF i, j
  <1> QED  BY <1>3, <1>4, <1>5, <1>7, <1>8

(* There is no other way to put the members in order.                      *)
LEMMA InOrderOnly ==
  ASSUME NEW n \in Nat, NEW S \in SUBSET (1..n), NEW m \in Nat, NEW q \in [1..m -> S],
         \A i \in S : \E k \in 1..m : q[k] = i,
         \A k, l \in 1..m : k < l => q[k] < q[l]
  PROVE  m = Cardinality(S) /\ q = InOrder(S)
  <1>1. \A k, l \in 1..m : q[k] = q[l] => k = l
    <2> SUFFICES ASSUME NEW k \in 1..m, NEW l \in 1..m, k < l PROVE q[k] # q[l]
      OBVIOUS
    <2>1. q[k] < q[l]
      OBVIOUS
    <2>2. q[k] \in Int /\ q[l] \in Int
      <3>1. \A i \in S : i \in Int
        OBVIOUS
      <3> QED  BY <3>1
    <2> QED  BY <2>1, <2>2
  <1>2. m = Cardinality(S)
    <2>1. q \in Bijection(1..m, S)
      BY <1>1 DEF Bijection, Injection, Surjection, IsInjective
    <2>2. ExistsBijection(1..m, S)
      BY <2>1 DEF ExistsBijection
    <2>3. IsFiniteSet(1..m) /\ Cardinality(1..m) = m
      BY FS_Interval
    <2> QED  BY <2>2, <2>3, FS_Bijection
  <1>3. ASSUME NEW k \in 1..m PROVE Rank(S, q[k]) = k
    <2> DEFINE T == {j \in S : j <= q[k]}
               f == [l \in 1..k |-> q[l]]
    <2>1. \A l \in 1..m : l <= k <=> q[l] <= q[k]
      <3> TAKE l \in 1..m
      <3>1. q[k] \in Int /\ q[l] \in Int
        <4>1. \A i \in S : i \in Int
          OBVIOUS
        <4> QED  BY <4>1
      <3>2. CASE l < k
        BY <3>1, <3>2
      <3>3. CASE l = k
        BY <3>1, <3>3
      <3>4. CASE l > k
        <4>1. q[k] < q[l]
          BY <3>4
        <4> QED  BY <3>1, <3>4, <4>1
      <3> QED  BY <3>2, <3>3, <3>4
    <2>2. f \in [1..k -> T]
      BY <2>1
    <2>3. \A a, b \in 1..k : f[a] = f[b] => a = b
      BY <1>1
    <2>4. \A j \in T : \E l \in 1..k : f[l] = j
      BY <2>1
    <2> HIDE DEF f, T
    <2>5. f \in Bijection(1..k, T)
      BY <2>2, <2>3, <2>4 DEF Bijection, Injection, Surjection, IsInjective
    <2>6. ExistsBijection(1..k, T)
      BY <2>5 DEF ExistsBijection
    <2>7. IsFiniteSet(1..k) /\ Cardinality(1..k) = k
      BY FS_Interval
    <2>8. Cardinality(T) = k
      BY <2>6, <2>7, FS_Bijection
    <2> QED  BY <2>8 DEF T, Rank
  <1>4. \A k \in 1..m : InOrder(S)[k] = q[k]
    BY <1>2, <1>3, InOrderIs
  <1>5. InOrder(S) \in [1..m -> S]
    BY <1>2, InOrderIs
  <1> QED  BY <1>2, <1>4, <1>5

-----------------------------------------------------------------------------
(* What picking and truncating leave is messages.                          *)

LEMMA PickIs ==
  ASSUME NEW X, NEW ms \in Seq(X), NEW C \in SUBSET DOMAIN ms
  PROVE  /\ Pick(ms, C) \in Seq(X) /\ Len(Pick(ms, C)) = Cardinality(C)
         /\ Cardinality(C) \in Nat
         /\ \A k \in 1..Cardinality(C) :
              InOrder(C)[k] \in C /\ Pick(ms, C)[k] = ms[InOrder(C)[k]]
  <1>1. Len(ms) \in Nat /\ C \in SUBSET (1..Len(ms))
    OBVIOUS
  <1>2. Cardinality(C) \in Nat
    BY <1>1, PartFinite
  <1>3. InOrder(C) \in [1..Cardinality(C) -> C]
    BY <1>1, InOrderIs
  <1>4. \A k \in 1..Cardinality(C) : InOrder(C)[k] \in C /\ ms[InOrder(C)[k]] \in X
    BY <1>1, <1>3
  <1> QED  BY <1>2, <1>4 DEF Pick

(* The messages that truncation leaves, and where.                         *)
Chosen(ms) ==
  {i \in DOMAIN ms : ms[i].kind = "system" \/ Rank(OfKind(ms, "dialog"), i) > Excess(ms)}

Left(ms) == Pick(ms, Chosen(ms))

FirstDialog(ms) ==
  CHOOSE i \in OfKind(ms, "dialog") : \A j \in OfKind(ms, "dialog") : i <= j

LEMMA TruncateIs ==
  ASSUME NEW ms
  PROVE  Truncate(ms) = IF Len(Left(ms)) = Len(ms) \/ OfKind(Left(ms), "dialog") = {}
                          THEN Left(ms)
                          ELSE [Left(ms) EXCEPT ![FirstDialog(Left(ms))].truncated = TRUE]
  BY DEF Truncate, Left, Chosen, FirstDialog

LEMMA FirstDialogIs ==
  ASSUME NEW ms \in Seq(Messages), OfKind(ms, "dialog") # {}
  PROVE  /\ FirstDialog(ms) \in 1..Len(ms) /\ ms[FirstDialog(ms)].kind = "dialog"
         /\ \A j \in 1..Len(ms) : ms[j].kind = "dialog" => FirstDialog(ms) <= j
  <1> DEFINE D == OfKind(ms, "dialog")
  <1>1. D \in SUBSET Nat
    BY DEF OfKind
  <1>2. \E i \in D : \A j \in D : i <= j
    BY <1>1, Least
  <1>3. FirstDialog(ms) \in D /\ \A j \in D : FirstDialog(ms) <= j
    BY <1>2 DEF FirstDialog
  <1> QED  BY <1>3 DEF OfKind

LEMMA MarkIs ==
  ASSUME NEW ms \in Seq(Messages), NEW i \in 1..Len(ms)
  PROVE  LET marked == [ms EXCEPT ![i].truncated = TRUE] IN
         /\ marked \in Seq(Messages) /\ Len(marked) = Len(ms)
         /\ \A k \in 1..Len(ms) :
              /\ marked[k].n = ms[k].n /\ marked[k].kind = ms[k].kind
              /\ marked[k].truncated = IF k = i THEN TRUE ELSE ms[k].truncated
  <1> DEFINE m == [ms[i] EXCEPT !.truncated = TRUE]
             marked == [ms EXCEPT ![i].truncated = TRUE]
  <1>1. ms[i] \in Messages
    OBVIOUS
  <1>2. m \in Messages /\ m.n = ms[i].n /\ m.kind = ms[i].kind /\ m.truncated = TRUE
    BY <1>1 DEF Messages
  <1> HIDE DEF m
  <1>3. marked = [ms EXCEPT ![i] = m]
    BY DEF m
  <1> HIDE DEF marked
  <1>4. /\ marked \in Seq(Messages) /\ Len(marked) = Len(ms)
        /\ \A k \in 1..Len(ms) : marked[k] = IF k = i THEN m ELSE ms[k]
    BY <1>2, <1>3
  <1>5. \A k \in 1..Len(ms) :
          /\ marked[k].n = ms[k].n /\ marked[k].kind = ms[k].kind
          /\ marked[k].truncated = IF k = i THEN TRUE ELSE ms[k].truncated
    BY <1>2, <1>4
  <1> QED  BY <1>4, <1>5 DEF marked

LEMMA TruncateType ==
  ASSUME NEW ms \in Seq(Messages)
  PROVE  Truncate(ms) \in Seq(Messages)
  <1>1. Chosen(ms) \in SUBSET DOMAIN ms
    BY DEF Chosen
  <1>2. Left(ms) \in Seq(Messages)
    BY <1>1, PickIs DEF Left
  <1>3. CASE Len(Left(ms)) = Len(ms) \/ OfKind(Left(ms), "dialog") = {}
    BY <1>2, <1>3, TruncateIs
  <1>4. CASE ~(Len(Left(ms)) = Len(ms) \/ OfKind(Left(ms), "dialog") = {})
    BY <1>2, <1>4, TruncateIs, FirstDialogIs, MarkIs
  <1> QED  BY <1>3, <1>4

-----------------------------------------------------------------------------
(* The invariant of the store.  A session without a file leaves no trace.  *)
NoTrace ==
  \A s \in Sessions :
    /\ file[s] = None =>
         /\ cache[s] = None /\ history[s] = <<>> /\ saved[s] = 0 /\ acked[s] = -1
         /\ s \notin unsaved
    /\ s \in deleted => file[s] = None

(* What is in the history is in the file, or in the cache; what was        *)
(* acknowledged is in the file.                                            *)
Counted ==
  \A s \in Sessions :
    /\ acked[s] <= saved[s] /\ saved[s] <= Len(history[s])
    /\ cache[s] = None => saved[s] = Len(history[s])

(* What the operation that holds the lock has done so far.                 *)
OpOK ==
  \/ op = Idle
  \/ op.name = "list" /\ op.sid = None /\ op.at \in {"ensure", "collect"}
  \/ op.name = "delete" /\ op.sid \in Sessions /\ op.at \in {"ensure", "index"}
  \/ /\ op.name \in {"create", "change"} /\ op.sid \in Sessions \ deleted
     /\ op.at \in {"write", "ensure", "index"}
     /\ op.name = "create" =>
          /\ cache[op.sid] = None
          /\ file[op.sid] = IF op.at = "write" THEN None ELSE EmptyDoc
     /\ op.name = "change" => cache[op.sid] # None
     /\ op.at # "write" => /\ op.sid \notin unsaved
                           /\ saved[op.sid] = Len(history[op.sid])

(* The cache agrees with the files but for a change that is being written, *)
(* or that was not.                                                        *)
Agrees ==
  \A s \in Sessions \ unsaved :
    cache[s] = None \/ cache[s] = file[s]
    \/ (op.name = "change" /\ op.at = "write" /\ op.sid = s)

Indexed == op.at = "collect" => index = OnDisk

StoreInv == TypeOK /\ NoTrace /\ Counted /\ OpOK /\ Agrees /\ Indexed

LEMMA DocsAreNotNone == \A d \in Docs : d # None
  BY StoreAssumption DEF Docs, Messages, Kinds

LEMMA IdleIs == Idle.name = "idle" /\ Idle.sid = None /\ Idle.at = "done"
  BY DEF Idle

LEMMA InitStore == Init => StoreInv
  <1> SUFFICES ASSUME Init PROVE StoreInv
    OBVIOUS
  <1> USE DEF Init
  <1>1. TypeOK
    BY DEF TypeOK
  <1>2. NoTrace /\ OpOK /\ Agrees
    BY DEF NoTrace, OpOK, Agrees
  <1>3. Counted
    BY DEF Counted
  <1>4. Indexed
    BY IdleIs DEF Indexed
  <1> QED  BY <1>1, <1>2, <1>3, <1>4 DEF StoreInv

(* What get finds is a session with a file.                                *)
LEMMA FoundIs ==
  ASSUME StoreInv, NEW s \in Sessions, Found(s)
  PROVE  /\ op = Idle /\ op.name = "idle" /\ op.at = "done"
         /\ Current(s) \in Docs /\ file[s] # None /\ s \notin deleted
         /\ s \notin unsaved => Current(s) = file[s]
         /\ cache[s] = None => Current(s) = file[s]
         /\ cache[s] # None => Current(s) = cache[s]
  <1>1. op = Idle /\ Current(s) # None
    BY DEF Found
  <1>2. file[s] # None
    BY <1>1 DEF StoreInv, NoTrace, Current
  <1>3. s \notin deleted
    BY <1>2 DEF StoreInv, NoTrace
  <1>4. Current(s) \in Docs
    BY <1>1 DEF StoreInv, TypeOK, Current
  <1>5. s \notin unsaved => cache[s] = None \/ cache[s] = file[s]
    BY <1>1, IdleIs DEF StoreInv, Agrees
  <1> QED  BY <1>1, <1>2, <1>3, <1>4, <1>5, IdleIs DEF Current

LEMMA GetStore ==
  ASSUME StoreInv, NEW s \in Sessions, Get(s)
  PROVE  StoreInv'
  <1>1. /\ op = Idle /\ op.name = "idle" /\ op.at = "done" /\ Current(s) \in Docs
        /\ Current(s) # None /\ file[s] # None
        /\ s \notin unsaved => Current(s) = file[s]
        /\ cache[s] # None => Current(s) = cache[s]
    BY FoundIs, DocsAreNotNone DEF Get
  <1>2. /\ cache' = [cache EXCEPT ![s] = Current(s)]
        /\ UNCHANGED <<file, index, op, history, saved, acked, deleted, unsaved>>
    BY DEF Get, fileVars, ghostVars
  <1> USE DEF StoreInv
  <1>3. TypeOK'
    BY <1>1, <1>2 DEF TypeOK
  <1>4. \A t \in Sessions : cache'[t] = IF t = s THEN Current(s) ELSE cache[t]
    BY <1>2 DEF TypeOK
  <1>5. NoTrace' /\ Counted'
    BY <1>1, <1>2, <1>4 DEF NoTrace, Counted
  <1>6. OpOK' /\ Indexed'
    BY <1>1, <1>2 DEF OpOK, Indexed
  <1>7. Agrees'
    BY <1>1, <1>2, <1>4 DEF Agrees
  <1> QED  BY <1>3, <1>5, <1>6, <1>7

(* append_message and update: the cached session changes, and its history  *)
(* at most grows.                                                          *)
LEMMA ChangeStore ==
  ASSUME StoreInv, NEW s \in Sessions, Found(s), NEW doc \in Docs,
         cache' = [cache EXCEPT ![s] = doc], Begin("change", s, "write"),
         history' \in [Sessions -> Seq(Kinds)],
         \A t \in Sessions : t # s => history'[t] = history[t],
         Len(history'[s]) >= Len(history[s]),
         UNCHANGED <<file, index, saved, acked, deleted, unsaved>>
  PROVE  StoreInv'
  <1>1. op.at = "done" /\ file[s] # None /\ s \notin deleted /\ doc # None
    BY FoundIs, DocsAreNotNone
  <1>2. op' = [name |-> "change", sid |-> s, at |-> "write"]
    BY DEF Begin
  <1>3. /\ op'.name = "change" /\ op'.sid = s /\ op'.at = "write"
        /\ op' \in [name : {"create", "change", "delete", "list"},
                    sid : Sessions \union {None},
                    at : {"write", "ensure", "index", "collect"}]
    BY <1>2
  <1> USE DEF StoreInv
  <1>4. TypeOK'
    BY <1>3 DEF TypeOK
  <1>5. \A t \in Sessions : cache'[t] = IF t = s THEN doc ELSE cache[t]
    BY DEF TypeOK
  <1>6. NoTrace'
    BY <1>1, <1>5 DEF NoTrace
  <1>7. Counted'
    <2>1. \A t \in Sessions : Len(history[t]) \in Nat /\ Len(history'[t]) \in Nat
                              /\ saved[t] \in Nat /\ acked[t] \in Int
      BY DEF TypeOK
    <2> QED  BY <1>1, <1>5, <2>1 DEF Counted
  <1>8. OpOK' /\ Indexed'
    BY <1>1, <1>3, <1>5 DEF OpOK, Indexed
  <1>9. Agrees'
    <2>1. ASSUME NEW t \in Sessions \ unsaved, t # s
          PROVE  cache'[t] = None \/ cache'[t] = file'[t]
      <3>1. op.name = "idle"
        BY FoundIs
      <3> QED  BY <1>5, <2>1, <3>1 DEF Agrees
    <2> QED  BY <1>3, <2>1 DEF Agrees
  <1> QED  BY <1>4, <1>6, <1>7, <1>8, <1>9

(* The document that append_message puts into the cache.                   *)
Appended(s, kind) ==
  [Current(s) EXCEPT !.messages =
     Truncate(Append(@, [n |-> Len(history[s]) + 1, kind |-> kind, truncated |-> FALSE]))]

LEMMA AppendedIs ==
  ASSUME TypeOK, NEW s \in Sessions, NEW kind \in Kinds, Current(s) \in Docs
  PROVE  /\ Appended(s, kind) \in Docs
         /\ Appended(s, kind).messages =
              Truncate(Append(Current(s).messages,
                              [n |-> Len(history[s]) + 1, kind |-> kind, truncated |-> FALSE]))
         /\ Appended(s, kind).archived = Current(s).archived
  <1> DEFINE new == [n |-> Len(history[s]) + 1, kind |-> kind, truncated |-> FALSE]
             doc == Current(s)
             ms == Truncate(Append(doc.messages, new))
  <1>1. new \in Messages
    BY DEF TypeOK, Messages
  <1>2. doc.messages \in Seq(Messages) /\ doc.archived \in BOOLEAN
    BY DEF Docs
  <1>3. Append(doc.messages, new) \in Seq(Messages)
    BY <1>1, <1>2
  <1>4. ms \in Seq(Messages)
    BY <1>3, TruncateType
  <1> HIDE DEF new
  <1>5. Appended(s, kind) = [doc EXCEPT !.messages = ms]
    BY DEF Appended, new
  <1> HIDE DEF ms
  <1>6. doc \in [messages : Seq(Messages), archived : BOOLEAN]
    BY DEF Docs
  <1> HIDE DEF doc
  <1> QED  BY <1>4, <1>5, <1>6 DEF Docs, ms, new, doc

LEMMA AppendStore ==
  ASSUME StoreInv, NEW s \in Sessions, NEW kind \in Kinds, AppendMessage(s, kind)
  PROVE  StoreInv'
  <1>1. Found(s) /\ Current(s) \in Docs /\ TypeOK
    BY FoundIs DEF AppendMessage, StoreInv
  <1>2. cache' = [cache EXCEPT ![s] = Appended(s, kind)] /\ Appended(s, kind) \in Docs
    BY <1>1, AppendedIs DEF AppendMessage, Appended
  <1>3. history' = [history EXCEPT ![s] = Append(@, kind)] /\ history[s] \in Seq(Kinds)
    BY <1>1 DEF AppendMessage, TypeOK
  <1>4. /\ history' \in [Sessions -> Seq(Kinds)]
        /\ \A t \in Sessions : t # s => history'[t] = history[t]
        /\ Len(history'[s]) >= Len(history[s])
    BY <1>1, <1>3 DEF TypeOK
  <1> QED  BY <1>1, <1>2, <1>4, ChangeStore DEF AppendMessage, fileVars

LEMMA UpdateStore ==
  ASSUME StoreInv, NEW s \in Sessions, NEW archived \in BOOLEAN, Update(s, archived)
  PROVE  StoreInv'
  <1>1. Found(s) /\ Current(s) \in Docs /\ TypeOK
    BY FoundIs DEF Update, StoreInv
  <1>2. [Current(s) EXCEPT !.archived = archived] \in Docs
    BY <1>1 DEF Docs
  <1>3. UNCHANGED <<file, index, history, saved, acked, deleted, unsaved>>
    BY DEF Update, fileVars, ghostVars
  <1>4. history \in [Sessions -> Seq(Kinds)] /\ \A t \in Sessions : Len(history[t]) >= Len(history[t])
    BY <1>1 DEF TypeOK
  <1> QED  BY <1>1, <1>2, <1>3, <1>4, ChangeStore DEF Update

OpType == [name : {"create", "change", "delete", "list"},
           sid : Sessions \union {None},
           at : {"write", "ensure", "index", "collect"}]

(* An operation that goes on is the same operation at its next step.       *)
LEMMA GoOnIs ==
  ASSUME op \in OpType, NEW at \in {"write", "ensure", "index", "collect"}, GoOn(at)
  PROVE  op' \in OpType /\ op'.name = op.name /\ op'.sid = op.sid /\ op'.at = at
  BY DEF GoOn, OpType

LEMMA AtWork ==
  ASSUME StoreInv, op.at # "done"
  PROVE  op \in OpType /\ op # Idle /\ op.name # "idle"
  BY IdleIs DEF StoreInv, TypeOK, OpType

LEMMA BeginIs ==
  ASSUME NEW name \in {"create", "change", "delete", "list"},
         NEW s \in Sessions \union {None},
         NEW at \in {"write", "ensure", "index", "collect"}, Begin(name, s, at)
  PROVE  op' \in OpType /\ op'.name = name /\ op'.sid = s /\ op'.at = at
  BY DEF Begin, OpType

LEMMA CreateStore ==
  ASSUME StoreInv, NEW s \in Sessions, Create(s)
  PROVE  StoreInv'
  <1>1. op = Idle /\ op.name = "idle" /\ file[s] = None /\ s \notin deleted
    BY IdleIs DEF Create, OnDisk
  <1>2. op' \in OpType /\ op'.name = "create" /\ op'.sid = s /\ op'.at = "write"
    BY BeginIs DEF Create
  <1>3. UNCHANGED <<file, index, cache, history, saved, acked, deleted, unsaved>>
    BY DEF Create, fileVars, ghostVars
  <1> USE DEF StoreInv
  <1>4. TypeOK'
    BY <1>2, <1>3 DEF TypeOK, OpType
  <1>5. NoTrace' /\ Counted'
    BY <1>3 DEF NoTrace, Counted
  <1>6. OpOK' /\ Indexed'
    BY <1>1, <1>2, <1>3 DEF OpOK, Indexed, NoTrace
  <1>7. Agrees'
    BY <1>1, <1>3 DEF Agrees
  <1> QED  BY <1>4, <1>5, <1>6, <1>7

LEMMA HardDeleteStore ==
  ASSUME StoreInv, NEW s \in Sessions, HardDelete(s)
  PROVE  StoreInv'
  <1>1. op.name = "idle"
    BY FoundIs DEF HardDelete
  <1>2. op' \in OpType /\ op'.name = "delete" /\ op'.sid = s /\ op'.at = "ensure"
    BY BeginIs DEF HardDelete
  <1>3. /\ cache' = [cache EXCEPT ![s] = None] /\ file' = [file EXCEPT ![s] = None]
        /\ index' = index /\ deleted' = deleted \union {s} /\ unsaved' = unsaved \ {s}
        /\ history' = [history EXCEPT ![s] = <<>>] /\ saved' = [saved EXCEPT ![s] = 0]
        /\ acked' = [acked EXCEPT ![s] = -1]
    BY DEF HardDelete, Bury
  <1> USE DEF StoreInv
  <1>4. TypeOK'
    BY <1>2, <1>3 DEF TypeOK, OpType
  <1>5. \A t \in Sessions :
          /\ cache'[t] = IF t = s THEN None ELSE cache[t]
          /\ file'[t] = IF t = s THEN None ELSE file[t]
          /\ history'[t] = IF t = s THEN <<>> ELSE history[t]
          /\ saved'[t] = IF t = s THEN 0 ELSE saved[t]
          /\ acked'[t] = IF t = s THEN -1 ELSE acked[t]
    BY <1>3 DEF TypeOK
  <1>6. NoTrace'
    BY <1>3, <1>5 DEF NoTrace
  <1>7. Counted'
    BY <1>3, <1>5 DEF Counted
  <1>8. OpOK' /\ Indexed'
    BY <1>2 DEF OpOK, Indexed
  <1>9. Agrees'
    BY <1>1, <1>3, <1>5 DEF Agrees
  <1> QED  BY <1>4, <1>6, <1>7, <1>8, <1>9

LEMMA ListSummariesStore ==
  ASSUME StoreInv, ListSummaries
  PROVE  StoreInv'
  <1>1. op = Idle /\ op.name = "idle"
    BY IdleIs DEF ListSummaries
  <1>2. op' \in OpType /\ op'.name = "list" /\ op'.sid = None /\ op'.at = "ensure"
    BY BeginIs DEF ListSummaries
  <1>3. UNCHANGED <<file, index, cache, history, saved, acked, deleted, unsaved>>
    BY DEF ListSummaries, fileVars, ghostVars
  <1> USE DEF StoreInv
  <1>4. TypeOK'
    BY <1>2, <1>3 DEF TypeOK, OpType
  <1>5. NoTrace' /\ Counted'
    BY <1>3 DEF NoTrace, Counted
  <1>6. OpOK' /\ Indexed'
    BY <1>2 DEF OpOK, Indexed
  <1>7. Agrees'
    BY <1>1, <1>3 DEF Agrees
  <1> QED  BY <1>4, <1>5, <1>6, <1>7

(* The document that _save writes.                                         *)
LEMMA SavedIs ==
  ASSUME StoreInv, op.at \in {"write", "index"}, op.name # "delete"
  PROVE  /\ op.sid \in Sessions \ deleted /\ op.name \in {"create", "change"}
         /\ Saved \in Docs /\ Saved # None
         /\ op.name = "change" => Saved = cache[op.sid]
         /\ op.name = "create" => Saved = EmptyDoc
  <1>1. op # Idle
    BY IdleIs
  <1>2. op.sid \in Sessions \ deleted /\ op.name \in {"create", "change"}
    BY <1>1 DEF StoreInv, OpOK
  <1>3. op.name = "change" => cache[op.sid] \in Docs
    BY <1>1, <1>2 DEF StoreInv, TypeOK, OpOK
  <1>4. EmptyDoc \in Docs
    BY DEF EmptyDoc, Docs
  <1>5. Saved \in Docs
    BY <1>2, <1>3, <1>4 DEF Saved
  <1> QED  BY <1>2, <1>5, DocsAreNotNone DEF Saved

LEMMA WriteFileStore ==
  ASSUME StoreInv, WriteFile
  PROVE  StoreInv'
  <1> DEFINE s == op.sid
  <1>1. op.at = "write" /\ op \in OpType /\ op # Idle
    BY AtWork DEF WriteFile
  <1>2. /\ s \in Sessions \ deleted /\ Saved \in Docs /\ Saved # None
        /\ op.name \in {"create", "change"}
        /\ op.name = "change" => Saved = cache[s]
        /\ op.name = "create" => Saved = EmptyDoc
    <2>1. op.name # "delete"
      BY <1>1 DEF StoreInv, OpOK
    <2> QED  BY <1>1, <2>1, SavedIs
  <1>3. op' \in OpType /\ op'.name = op.name /\ op'.sid = s /\ op'.at = "ensure"
    BY <1>1, GoOnIs DEF WriteFile
  <1>4. /\ file' = [file EXCEPT ![s] = Saved] /\ unsaved' = unsaved \ {s}
        /\ saved' = [saved EXCEPT ![s] = Len(history[s])]
        /\ UNCHANGED <<index, cache, history, acked, deleted>>
    BY DEF WriteFile
  <1> HIDE DEF s
  <1> USE DEF StoreInv
  <1>5. TypeOK'
    <2>1. Len(history[s]) \in Nat
      BY <1>2 DEF TypeOK
    <2> QED  BY <1>2, <1>3, <1>4, <2>1 DEF TypeOK, OpType
  <1>6. \A t \in Sessions :
          /\ file'[t] = IF t = s THEN Saved ELSE file[t]
          /\ saved'[t] = IF t = s THEN Len(history[s]) ELSE saved[t]
    BY <1>4 DEF TypeOK
  <1>7. NoTrace'
    BY <1>2, <1>4, <1>6 DEF NoTrace
  <1>8. Counted'
    <2>1. \A t \in Sessions : Len(history[t]) \in Nat /\ saved[t] \in Nat /\ acked[t] \in Int
      BY DEF TypeOK
    <2> QED  BY <1>4, <1>6, <2>1 DEF Counted
  <1>9. OpOK'
    <2>1. op.name = "create" => cache[s] = None
      BY <1>1, <1>2 DEF OpOK, s
    <2>2. op.name = "change" => cache[s] # None
      BY <1>1, <1>2 DEF OpOK, s
    <2> QED  BY <1>2, <1>3, <1>4, <1>6, <2>1, <2>2 DEF OpOK
  <1>10. Indexed'
    BY <1>3 DEF Indexed
  <1>11. Agrees'
    <2>1. ASSUME NEW t \in Sessions \ unsaved', t # s
          PROVE  cache'[t] = None \/ cache'[t] = file'[t]
      BY <1>4, <1>6, <2>1 DEF Agrees, s
    <2>2. cache[s] = None \/ cache[s] = file'[s]
      <3>1. op.name = "create" => cache[s] = None
        BY <1>1, <1>2 DEF OpOK, s
      <3> QED  BY <1>2, <1>6, <3>1
    <2> QED  BY <1>4, <2>1, <2>2 DEF Agrees
  <1> QED  BY <1>5, <1>7, <1>8, <1>9, <1>10, <1>11

LEMMA EnsureIndexStore ==
  ASSUME StoreInv, EnsureIndex
  PROVE  StoreInv'
  <1> DEFINE at == IF op.name = "list" THEN "collect" ELSE "index"
  <1>1. op.at = "ensure" /\ op \in OpType /\ op # Idle
    BY AtWork DEF EnsureIndex
  <1>2. op' \in OpType /\ op'.name = op.name /\ op'.sid = op.sid /\ op'.at = at
    BY <1>1, GoOnIs DEF EnsureIndex
  <1>3. index' = OnDisk /\ UNCHANGED <<file, cache, history, saved, acked, deleted, unsaved>>
    BY DEF EnsureIndex, RepairedIndex, ghostVars
  <1> USE DEF StoreInv
  <1>4. TypeOK'
    BY <1>2, <1>3 DEF TypeOK, OpType, OnDisk
  <1>5. NoTrace' /\ Counted'
    BY <1>3 DEF NoTrace, Counted
  <1>6. OpOK'
    BY <1>1, <1>2, <1>3 DEF OpOK
  <1>7. Indexed'
    BY <1>3 DEF Indexed, OnDisk
  <1>8. Agrees'
    BY <1>1, <1>3 DEF Agrees
  <1> QED  BY <1>4, <1>5, <1>6, <1>7, <1>8

LEMMA SaveReturnsStore ==
  ASSUME StoreInv, SaveReturns
  PROVE  StoreInv'
  <1> DEFINE s == op.sid
  <1>1. op.at = "index" /\ op.name \in {"create", "change"} /\ op # Idle
    BY IdleIs DEF SaveReturns
  <1>2. /\ s \in Sessions \ deleted /\ Saved \in Docs /\ Saved # None
        /\ op.name = "change" => Saved = cache[s]
        /\ op.name = "create" => Saved = EmptyDoc
    BY <1>1, SavedIs
  <1>3. /\ index' = index \union {s} /\ cache' = [cache EXCEPT ![s] = Saved]
        /\ acked' = [acked EXCEPT ![s] = Len(history[s])] /\ op' = Idle
        /\ UNCHANGED <<file, history, saved, deleted, unsaved>>
    BY DEF SaveReturns
  <1>4. s \notin unsaved /\ saved[s] = Len(history[s])
    BY <1>1 DEF StoreInv, OpOK
  <1>5. Saved = file[s]
    <2>1. CASE op.name = "create"
      BY <1>1, <1>2, <2>1 DEF StoreInv, OpOK
    <2>2. CASE op.name = "change"
      <3>1. cache[s] = None \/ cache[s] = file[s]
        BY <1>1, <1>2, <1>4 DEF StoreInv, Agrees
      <3> QED  BY <1>2, <2>2, <3>1
    <2> QED  BY <1>1, <2>1, <2>2
  <1> HIDE DEF s
  <1> USE DEF StoreInv
  <1>6. TypeOK'
    <2>1. Len(history[s]) \in Nat
      BY <1>2 DEF TypeOK
    <2> QED  BY <1>2, <1>3, <2>1 DEF TypeOK
  <1>7. \A t \in Sessions :
          /\ cache'[t] = IF t = s THEN Saved ELSE cache[t]
          /\ acked'[t] = IF t = s THEN Len(history[s]) ELSE acked[t]
    BY <1>3 DEF TypeOK
  <1>8. NoTrace'
    BY <1>2, <1>3, <1>5, <1>7 DEF NoTrace
  <1>9. Counted'
    <2>1. \A t \in Sessions : Len(history[t]) \in Nat /\ saved[t] \in Nat /\ acked[t] \in Int
      BY DEF TypeOK
    <2> QED  BY <1>3, <1>4, <1>7, <2>1 DEF Counted
  <1>10. OpOK' /\ Indexed'
    BY <1>3, IdleIs DEF OpOK, Indexed
  <1>11. Agrees'
    <2>1. ASSUME NEW t \in Sessions \ unsaved, t # s
          PROVE  cache'[t] = None \/ cache'[t] = file'[t]
      BY <1>1, <1>3, <1>7, <2>1 DEF Agrees
    <2> QED  BY <1>2, <1>3, <1>5, <1>7, <2>1 DEF Agrees
  <1> QED  BY <1>6, <1>8, <1>9, <1>10, <1>11

LEMMA DeleteReturnsStore ==
  ASSUME StoreInv, DeleteReturns
  PROVE  StoreInv'
  <1>1. /\ op.name = "delete" /\ index' = index \ {op.sid} /\ op' = Idle
        /\ UNCHANGED <<file, cache, history, saved, acked, deleted, unsaved>>
    BY DEF DeleteReturns, ghostVars
  <1> USE DEF StoreInv
  <1>2. TypeOK'
    BY <1>1 DEF TypeOK
  <1>3. NoTrace' /\ Counted'
    BY <1>1 DEF NoTrace, Counted
  <1>4. OpOK' /\ Indexed'
    BY <1>1, IdleIs DEF OpOK, Indexed
  <1>5. Agrees'
    BY <1>1 DEF Agrees
  <1> QED  BY <1>2, <1>3, <1>4, <1>5

LEMMA ListReturnsStore ==
  ASSUME StoreInv, ListReturns
  PROVE  StoreInv'
  <1>1. /\ op.at = "collect" /\ op' = Idle
        /\ cache' = [s \in Sessions |-> IF s \in index THEN Current(s) ELSE cache[s]]
        /\ UNCHANGED <<file, index, history, saved, acked, deleted, unsaved>>
    BY DEF ListReturns, fileVars, ghostVars
  <1>2. op.name = "list"
    BY <1>1, IdleIs DEF StoreInv, OpOK
  <1> USE DEF StoreInv
  <1>3. \A s \in Sessions : Current(s) = IF cache[s] # None THEN cache[s] ELSE file[s]
    BY DEF Current
  <1>4. \A s \in Sessions :
          cache'[s] = cache[s] \/ (cache[s] = None /\ cache'[s] = file[s])
    BY <1>1, <1>3
  <1>5. TypeOK'
    BY <1>1, <1>3 DEF TypeOK
  <1>6. NoTrace' /\ Counted'
    BY <1>1, <1>4 DEF NoTrace, Counted
  <1>7. OpOK' /\ Indexed'
    BY <1>1, IdleIs DEF OpOK, Indexed
  <1>8. Agrees'
    BY <1>1, <1>2, <1>4 DEF Agrees
  <1> QED  BY <1>5, <1>6, <1>7, <1>8

LEMMA OpFailsStore ==
  ASSUME StoreInv, OpFails
  PROVE  StoreInv'
  <1>1. /\ op # Idle /\ op' = Idle
        /\ unsaved' = IF op.at = "write" /\ op.name = "change"
                        THEN unsaved \union {op.sid} ELSE unsaved
        /\ UNCHANGED <<file, index, cache, history, saved, acked, deleted>>
    BY DEF OpFails, fileVars
  <1>2. op.at = "write" /\ op.name = "change" => op.sid \in Sessions /\ cache[op.sid] # None
    BY <1>1 DEF StoreInv, OpOK
  <1> USE DEF StoreInv
  <1>3. TypeOK'
    BY <1>1, <1>2 DEF TypeOK
  <1>4. NoTrace'
    BY <1>1, <1>2 DEF NoTrace
  <1>5. Counted'
    BY <1>1 DEF Counted
  <1>6. OpOK' /\ Indexed'
    BY <1>1, IdleIs DEF OpOK, Indexed
  <1>7. Agrees'
    BY <1>1 DEF Agrees
  <1> QED  BY <1>3, <1>4, <1>5, <1>6, <1>7

(* A crash leaves the files, and of a history what the file accounts for.  *)
LEMMA CrashStore ==
  ASSUME StoreInv, Crash
  PROVE  StoreInv'
  <1>1. /\ cache' = [s \in Sessions |-> None] /\ op' = Idle /\ unsaved' = {}
        /\ history' = [s \in Sessions |-> SubSeq(history[s], 1, saved[s])]
        /\ UNCHANGED <<file, index, saved, acked, deleted>>
    BY DEF Crash, fileVars
  <1> USE DEF StoreInv
  <1>2. \A s \in Sessions :
          /\ SubSeq(history[s], 1, saved[s]) \in Seq(Kinds)
          /\ Len(SubSeq(history[s], 1, saved[s])) = saved[s]
          /\ history[s] = <<>> /\ saved[s] = 0 => SubSeq(history[s], 1, saved[s]) = <<>>
    BY DEF TypeOK, Counted
  <1>3. TypeOK'
    BY <1>1, <1>2 DEF TypeOK
  <1>4. NoTrace'
    BY <1>1, <1>2 DEF NoTrace
  <1>5. Counted'
    <2>1. \A s \in Sessions : saved[s] \in Nat
      BY DEF TypeOK
    <2> QED  BY <1>1, <1>2, <2>1 DEF Counted
  <1>6. OpOK' /\ Indexed'
    BY <1>1, IdleIs DEF OpOK, Indexed
  <1>7. Agrees'
    BY <1>1 DEF Agrees
  <1> QED  BY <1>3, <1>4, <1>5, <1>6, <1>7

LEMMA StillStore ==
  ASSUME StoreInv, UNCHANGED vars
  PROVE  StoreInv'
  <1>1. UNCHANGED <<file, index, cache, op, history, saved, acked, deleted, unsaved>>
    BY DEF vars, fileVars, ghostVars
  <1> QED  BY <1>1 DEF StoreInv, TypeOK, NoTrace, Counted, OpOK, Agrees, Indexed, OnDisk

LEMMA NextStore ==
  ASSUME StoreInv, [Next]_vars
  PROVE  StoreInv'
  <1>1. ASSUME NEW s \in Sessions, Get(s) PROVE StoreInv'
    BY <1>1, GetStore
  <1>2. ASSUME NEW s \in Sessions, Create(s) PROVE StoreInv'
    BY <1>2, CreateStore
  <1>3. ASSUME NEW s \in Sessions, HardDelete(s) PROVE StoreInv'
    BY <1>3, HardDeleteStore
  <1>4. ASSUME NEW s \in Sessions, NEW kind \in Kinds, AppendMessage(s, kind) PROVE StoreInv'
    BY <1>4, AppendStore
  <1>5. ASSUME NEW s \in Sessions, NEW archived \in BOOLEAN, Update(s, archived) PROVE StoreInv'
    BY <1>5, UpdateStore
  <1>6. CASE ListSummaries
    BY <1>6, ListSummariesStore
  <1>7. CASE WriteFile
    BY <1>7, WriteFileStore
  <1>8. CASE EnsureIndex
    BY <1>8, EnsureIndexStore
  <1>9. CASE SaveReturns
    BY <1>9, SaveReturnsStore
  <1>10. CASE DeleteReturns
    BY <1>10, DeleteReturnsStore
  <1>11. CASE ListReturns
    BY <1>11, ListReturnsStore
  <1>12. CASE OpFails
    BY <1>12, OpFailsStore
  <1>13. CASE Crash
    BY <1>13, CrashStore
  <1>14. CASE UNCHANGED vars
    BY <1>14, StillStore
  <1> QED
    BY <1>1, <1>2, <1>3, <1>4, <1>5, <1>6, <1>7, <1>8, <1>9, <1>10, <1>11, <1>12, <1>13, <1>14
    DEF Next

LEMMA StoreAlways == Spec => []StoreInv
  BY InitStore, NextStore, PTL DEF Spec

(* What a caller was told is stored is in the file until the session is    *)
(* hard-deleted, through every failed write and every restart.             *)
THEOREM AcknowledgedStays == Spec => []AckedDurable
  <1>1. StoreInv => AckedDurable
    <2> SUFFICES ASSUME StoreInv, NEW s \in Sessions \ deleted, acked[s] >= 0
                 PROVE  file[s] # None /\ acked[s] <= saved[s]
      BY DEF AckedDurable
    <2>1. acked[s] # -1
      OBVIOUS
    <2> QED  BY <2>1 DEF StoreInv, NoTrace, Counted
  <1> QED  BY <1>1, StoreAlways, PTL

(* Between operations the cache that is never invalidated and the files    *)
(* differ in no session but one whose last write failed; and every         *)
(* variable keeps its type.                                                *)
THEOREM CacheAlwaysClean == Spec => []CacheClean
  <1>1. StoreInv => CacheClean
    BY IdleIs DEF StoreInv, CacheClean, Agrees
  <1> QED  BY <1>1, StoreAlways, PTL

(* hard_delete is final: neither the cache, nor an operation, nor a        *)
(* restart brings the session back.                                        *)
THEOREM DeletedForGood == Spec => []NoResurrection
  <1>1. StoreInv => NoResurrection
    <2> SUFFICES ASSUME StoreInv, NEW s \in deleted
                 PROVE  file[s] = None /\ cache[s] = None /\ (op.sid = s => op.name = "delete")
      BY DEF NoResurrection
    <2>1. s \in Sessions /\ s # None
      BY StoreAssumption DEF StoreInv, TypeOK
    <2>2. file[s] = None /\ cache[s] = None
      BY <2>1 DEF StoreInv, NoTrace
    <2>3. op.sid = s => op.name = "delete"
      BY <2>1, IdleIs DEF StoreInv, OpOK
    <2> QED  BY <2>2, <2>3
  <1> QED  BY <1>1, StoreAlways, PTL

(* list_summaries shows the stored sessions that are not archived, no more *)
(* and no fewer, whatever write was interrupted before it.                 *)
THEOREM ListingAlwaysComplete == Spec => []ListingComplete
  <1>1. StoreInv => ListingComplete
    <2> SUFFICES ASSUME StoreInv, op.at = "collect"
                 PROVE  Listing \ unsaved = {s \in OnDisk \ unsaved : ~file[s].archived}
      BY DEF ListingComplete
    <2>1. index = OnDisk /\ op.name = "list"
      BY IdleIs DEF StoreInv, Indexed, OpOK
    <2>2. \A s \in Sessions \ unsaved :
            file[s] # None => Current(s) = file[s]
      BY <2>1 DEF StoreInv, Agrees, Current
    <2> QED  BY <2>1, <2>2 DEF Listing, OnDisk
  <1> QED  BY <1>1, StoreAlways, PTL

-----------------------------------------------------------------------------
(* What the cap leaves of a whole history, and how it is read.             *)
System(h) == {i \in DOMAIN h : h[i] = "system"}

Newer(h, i) == {j \in DOMAIN h \ System(h) : j > i}

KeptDialog(h) == {i \in Retained(h) : h[i] = "dialog"}

Marked(h, i) ==
  Retained(h) # DOMAIN h /\ i \in KeptDialog(h) /\ \A j \in KeptDialog(h) : i <= j

Reading(h) ==
  [k \in 1..Cardinality(Retained(h)) |->
     [n |-> InOrder(Retained(h))[k], kind |-> h[InOrder(Retained(h))[k]],
      truncated |-> Marked(h, InOrder(Retained(h))[k])]]

LEMMA RetainedIs ==
  ASSUME NEW h \in Seq(Kinds)
  PROVE  /\ Retained(h) \in SUBSET (1..Len(h)) /\ System(h) \in SUBSET Retained(h)
         /\ \A i \in 1..Len(h) :
              i \in Retained(h) <=>
                \/ h[i] = "system"
                \/ Cardinality(Newer(h, i)) < MaxMessages - Cardinality(System(h))
  <1>1. Retained(h) = {i \in DOMAIN h : i \in System(h)
                          \/ Cardinality(Newer(h, i)) < MaxMessages - Cardinality(System(h))}
    BY DEF Retained, Newer, System
  <1> QED  BY <1>1 DEF System

LEMMA ReadsIs ==
  ASSUME NEW h \in Seq(Kinds), NEW doc
  PROVE  Reads(doc, h) <=> doc.messages = Reading(h)
  <1>1. Len(h) \in Nat /\ Retained(h) \in SUBSET (1..Len(h))
    BY RetainedIs
  <1>2. /\ InOrder(Retained(h)) \in [1..Cardinality(Retained(h)) -> Retained(h)]
        /\ Cardinality(Retained(h)) \in Nat
    BY <1>1, InOrderIs, PartFinite
  <1>3. Len(InOrder(Retained(h))) = Cardinality(Retained(h))
    BY <1>2
  <1> QED  BY <1>3 DEF Reads, Reading, Marked, KeptDialog

LEMMA ReadingIs ==
  ASSUME NEW h \in Seq(Kinds)
  PROVE  /\ Reading(h) \in Seq(Messages) /\ Len(Reading(h)) = Cardinality(Retained(h))
         /\ Cardinality(Retained(h)) \in Nat
         /\ \A k \in 1..Cardinality(Retained(h)) :
              /\ InOrder(Retained(h))[k] \in Retained(h)
              /\ Reading(h)[k].n = InOrder(Retained(h))[k]
              /\ Reading(h)[k].kind = h[InOrder(Retained(h))[k]]
              /\ Reading(h)[k].truncated = Marked(h, InOrder(Retained(h))[k])
  <1> DEFINE R == Retained(h)
  <1>1. Len(h) \in Nat /\ R \in SUBSET (1..Len(h))
    BY RetainedIs
  <1>2. R \in SUBSET (1..Len(h)) /\ Cardinality(R) \in Nat
    BY <1>1, PartFinite
  <1>3. \A k \in 1..Cardinality(R) : InOrder(R)[k] \in R
    <2>1. InOrder(R) \in [1..Cardinality(R) -> R]
      BY <1>1, InOrderIs
    <2> QED  BY <2>1
  <1>4. \A i \in R : i \in Nat /\ h[i] \in Kinds /\ Marked(h, i) \in BOOLEAN
    <2>1. \A i : Marked(h, i) \in BOOLEAN
      BY DEF Marked
    <2> QED  BY <1>2, <2>1
  <1>5. \A i \in R : [n |-> i, kind |-> h[i], truncated |-> Marked(h, i)] \in Messages
    BY <1>4 DEF Messages
  <1>6. \A k \in 1..Cardinality(R) :
          Reading(h)[k] = [n |-> InOrder(R)[k], kind |-> h[InOrder(R)[k]],
                           truncated |-> Marked(h, InOrder(R)[k])]
    BY DEF Reading
  <1>7. Reading(h) \in [1..Cardinality(R) -> Messages]
    BY <1>3, <1>5 DEF Reading
  <1>8. Reading(h) \in Seq(Messages) /\ Len(Reading(h)) = Cardinality(R)
    BY <1>2, <1>7
  <1> QED  BY <1>2, <1>3, <1>6, <1>8

LEMMA MessageIs ==
  ASSUME NEW m \in Messages, NEW l \in Messages,
         m.n = l.n, m.kind = l.kind, m.truncated = l.truncated
  PROVE  m = l
  BY DEF Messages

(* Of a set of numbers, how many follow one of its members.                *)
LEMMA RankSplits ==
  ASSUME NEW n \in Nat, NEW S \in SUBSET (1..n), NEW i \in S
  PROVE  Cardinality(S) = Rank(S, i) + Cardinality({j \in S : j > i})
  <1> DEFINE T == {j \in S : j <= i}
             U == {j \in S : j > i}
  <1>1. \A j \in S : j \in Int
    OBVIOUS
  <1>2. \A j \in S : (j > i) <=> ~(j <= i)
    BY <1>1
  <1>3. S = T \cup U
    BY <1>2
  <1>4. T \cap U = {}
    BY <1>2
  <1>5. IsFiniteSet(T) /\ IsFiniteSet(U) /\ Cardinality(T) \in Nat /\ Cardinality(U) \in Nat
    <2>1. T \in SUBSET (1..n) /\ U \in SUBSET (1..n)
      OBVIOUS
    <2> QED  BY <2>1, PartFinite
  <1>6. Rank(S, i) = Cardinality(T)
    BY DEF Rank
  <1> HIDE DEF T
  <1>7. Cardinality(T \cap U) = 0
    BY <1>4, FS_EmptySet
  <1>8. Cardinality(T \cup U) = Cardinality(T) + Cardinality(U) - Cardinality(T \cap U)
    BY <1>5, FS_Union
  <1> QED  BY <1>3, <1>5, <1>6, <1>7, <1>8

-----------------------------------------------------------------------------
(* One more message: of what was kept and the new one, the cap keeps what  *)
(* it keeps of the longer history.                                         *)

With(h) == Retained(h) \cup {Len(h) + 1}

LEMMA HistoryGrows ==
  ASSUME NEW h \in Seq(Kinds), NEW kind \in Kinds
  PROVE  LET longer == Append(h, kind) IN
         /\ longer \in Seq(Kinds) /\ Len(longer) = Len(h) + 1
         /\ DOMAIN longer = DOMAIN h \cup {Len(h) + 1}
         /\ \A i \in 1..Len(h) : longer[i] = h[i]
         /\ longer[Len(h) + 1] = kind
         /\ System(longer) = System(h) \cup (IF kind = "system" THEN {Len(h) + 1} ELSE {})
         /\ With(h) \in SUBSET (1..(Len(h) + 1))
         /\ System(longer) \in SUBSET With(h)
  <1> DEFINE longer == Append(h, kind)
             n == Len(h)
  <1>1. /\ longer \in Seq(Kinds) /\ Len(longer) = n + 1 /\ n \in Nat
        /\ \A i \in 1..n : longer[i] = h[i]
        /\ longer[n + 1] = kind
    OBVIOUS
  <1>2. DOMAIN longer = DOMAIN h \cup {n + 1} /\ DOMAIN h = 1..n
    BY <1>1
  <1> HIDE DEF longer
  <1>3. System(longer) = System(h) \cup (IF kind = "system" THEN {n + 1} ELSE {})
    BY <1>1, <1>2 DEF System
  <1>4. With(h) \in SUBSET (1..(n + 1))
    BY <1>1, RetainedIs DEF With
  <1>5. System(longer) \in SUBSET With(h)
    BY <1>3, RetainedIs DEF With
  <1> QED  BY <1>1, <1>2, <1>3, <1>4, <1>5 DEF longer

(* The dialog messages among those that were kept and the new one.         *)
DialogWith(h, kind) == {i \in With(h) : Append(h, kind)[i] = "dialog"}

LEMMA NewerFinite ==
  ASSUME NEW h \in Seq(Kinds), NEW i \in Nat
  PROVE  Newer(h, i) \in SUBSET (1..Len(h)) /\ Cardinality(Newer(h, i)) \in Nat
  <1>1. Len(h) \in Nat /\ Newer(h, i) \in SUBSET (1..Len(h))
    BY DEF Newer
  <1> QED  BY <1>1, PartFinite

LEMMA SubsetCounts ==
  ASSUME NEW n \in Nat, NEW S \in SUBSET (1..n), NEW T \in SUBSET S
  PROVE  Cardinality(T) <= Cardinality(S) /\ (Cardinality(T) = Cardinality(S) => T = S)
  BY PartFinite, FS_Subset

(* What is newer than a message that is kept is kept.                      *)
LEMMA NewerKept ==
  ASSUME NEW h \in Seq(Kinds), NEW i \in KeptDialog(h)
  PROVE  Newer(h, i) \in SUBSET Retained(h)
  <1> SUFFICES ASSUME NEW j \in Newer(h, i) PROVE j \in Retained(h)
    OBVIOUS
  <1>1. Len(h) \in Nat /\ i \in 1..Len(h) /\ j \in 1..Len(h) /\ j > i /\ h[i] = "dialog"
    BY RetainedIs DEF KeptDialog, Newer
  <1>2. Cardinality(Newer(h, i)) < MaxMessages - Cardinality(System(h))
    BY <1>1, RetainedIs DEF KeptDialog
  <1>3. Newer(h, j) \in SUBSET Newer(h, i)
    <2> SUFFICES ASSUME NEW k \in Newer(h, j) PROVE k \in Newer(h, i)
      OBVIOUS
    <2>1. k \in DOMAIN h \ System(h) /\ k > j /\ k \in Int
      BY DEF Newer
    <2>2. k > i
      BY <1>1, <2>1
    <2> QED  BY <2>1, <2>2 DEF Newer
  <1>4. /\ Newer(h, i) \in SUBSET (1..Len(h))
        /\ Cardinality(Newer(h, i)) \in Nat /\ Cardinality(Newer(h, j)) \in Nat
    BY <1>1, NewerFinite
  <1>5. Cardinality(Newer(h, j)) <= Cardinality(Newer(h, i))
    BY <1>1, <1>3, <1>4, SubsetCounts
  <1>6. System(h) \in SUBSET (1..Len(h)) /\ Cardinality(System(h)) \in Nat
    <2>1. System(h) \in SUBSET (1..Len(h))
      BY DEF System
    <2> QED  BY <1>1, <2>1, PartFinite
  <1>7. Cardinality(Newer(h, j)) < MaxMessages - Cardinality(System(h))
    BY <1>2, <1>4, <1>5, <1>6, StoreAssumption
  <1> QED  BY <1>1, <1>7, RetainedIs

LEMMA NewerGrows ==
  ASSUME NEW h \in Seq(Kinds), NEW kind \in Kinds, NEW i \in 1..(Len(h) + 1)
  PROVE  /\ Newer(Append(h, kind), i) =
              Newer(h, i) \cup (IF kind = "dialog" /\ i <= Len(h) THEN {Len(h) + 1} ELSE {})
         /\ i = Len(h) + 1 => Newer(h, i) = {}
  <1> DEFINE longer == Append(h, kind)
             n == Len(h)
  <1>1. /\ n \in Nat /\ DOMAIN h = 1..n /\ DOMAIN longer = DOMAIN h \cup {n + 1}
        /\ System(longer) = System(h) \cup (IF kind = "system" THEN {n + 1} ELSE {})
    BY HistoryGrows
  <1>2. System(h) \in SUBSET (1..n) /\ n + 1 \notin 1..n
    BY <1>1 DEF System
  <1>3. kind = "dialog" <=> kind # "system"
    BY DEF Kinds
  <1>4. DOMAIN longer \ System(longer) =
          (DOMAIN h \ System(h)) \cup (IF kind = "dialog" THEN {n + 1} ELSE {})
    BY <1>1, <1>2, <1>3
  <1>5. n + 1 > i <=> i <= n
    OBVIOUS
  <1> HIDE DEF longer
  <1>6. Newer(longer, i) = Newer(h, i) \cup (IF kind = "dialog" /\ i <= n THEN {n + 1} ELSE {})
    BY <1>4, <1>5 DEF Newer
  <1>7. i = n + 1 => Newer(h, i) = {}
    <2>1. \A j \in 1..n : ~(j > n + 1)
      BY <1>1
    <2> QED  BY <1>1, <2>1 DEF Newer
  <1> QED  BY <1>6, <1>7 DEF longer

LEMMA NewerWith ==
  ASSUME NEW h \in Seq(Kinds), NEW kind \in Kinds, NEW i \in DialogWith(h, kind)
  PROVE  {j \in DialogWith(h, kind) : j > i} = Newer(Append(h, kind), i)
  <1> DEFINE longer == Append(h, kind)
             n == Len(h)
             D == DialogWith(h, kind)
  <1>1. /\ n \in Nat /\ DOMAIN h = 1..n /\ DOMAIN longer = DOMAIN h \cup {n + 1}
        /\ \A j \in 1..n : longer[j] = h[j]
        /\ longer[n + 1] = kind
        /\ With(h) \in SUBSET (1..(n + 1)) /\ longer \in Seq(Kinds)
    BY HistoryGrows
  <1>2. D \in SUBSET (1..(n + 1)) /\ \A j \in D : longer[j] = "dialog" /\ j \in With(h)
    BY <1>1 DEF DialogWith
  <1>3. Newer(longer, i) = Newer(h, i) \cup (IF kind = "dialog" /\ i <= n THEN {n + 1} ELSE {})
    BY <1>2, NewerGrows
  <1> HIDE DEF longer
  <1>4. ASSUME NEW j \in D, j > i PROVE j \in Newer(longer, i)
    <2>1. j \in DOMAIN longer /\ j \notin System(longer)
      BY <1>1, <1>2 DEF System
    <2> QED  BY <1>4, <2>1 DEF Newer
  <1>5. ASSUME NEW j \in Newer(longer, i) PROVE j \in D /\ j > i
    <2>1. j > i /\ j \in DOMAIN longer /\ longer[j] # "system"
      BY DEF Newer, System
    <2>2. longer[j] = "dialog"
      BY <1>1, <2>1 DEF Kinds
    <2>3. CASE j = n + 1
      BY <2>1, <2>2, <2>3 DEF DialogWith, With, longer
    <2>4. CASE j # n + 1
      <3>1. j \in Newer(h, i) /\ j \in 1..n
        BY <1>1, <1>3, <1>5, <2>1, <2>4
      <3>2. i \in 1..n
        BY <1>1, <1>2, <2>1, <3>1
      <3>3. i \in Retained(h) /\ h[i] = "dialog"
        <4>1. i \in With(h) /\ longer[i] = "dialog"
          BY <1>2
        <4> QED  BY <1>1, <3>2, <4>1 DEF With
      <3>4. j \in Retained(h)
        BY <3>1, <3>3, NewerKept DEF KeptDialog
      <3> QED  BY <2>1, <2>2, <3>4 DEF DialogWith, With, longer
    <2> QED  BY <2>3, <2>4
  <1> HIDE DEF D
  <1>6. \A j \in Newer(longer, i) : j \in D /\ j > i
    BY <1>5
  <1>7. \A j \in D : j > i => j \in Newer(longer, i)
    BY <1>4
  <1> QED  BY <1>6, <1>7 DEF D, longer

(* The messages with the new one are the system messages and the others.   *)
LEMMA WithSplits ==
  ASSUME NEW h \in Seq(Kinds), NEW kind \in Kinds
  PROVE  /\ DialogWith(h, kind) \in SUBSET (1..(Len(h) + 1))
         /\ Cardinality(With(h)) \in Nat /\ Cardinality(System(Append(h, kind))) \in Nat
         /\ Cardinality(DialogWith(h, kind)) \in Nat
         /\ Cardinality(With(h)) =
              Cardinality(System(Append(h, kind))) + Cardinality(DialogWith(h, kind))
  <1> DEFINE longer == Append(h, kind)
             n == Len(h)
             D == DialogWith(h, kind)
             S == System(longer)
  <1>1. /\ n \in Nat /\ n + 1 \in Nat /\ longer \in Seq(Kinds)
        /\ DOMAIN longer = 1..(n + 1)
        /\ With(h) \in SUBSET (1..(n + 1)) /\ S \in SUBSET With(h)
    BY HistoryGrows
  <1>2. D \in SUBSET (1..(n + 1)) /\ S \in SUBSET (1..(n + 1))
    BY <1>1 DEF DialogWith
  <1>3. IsFiniteSet(D) /\ IsFiniteSet(S) /\ Cardinality(D) \in Nat /\ Cardinality(S) \in Nat
        /\ Cardinality(With(h)) \in Nat
    BY <1>1, <1>2, PartFinite
  <1>4. \A i \in With(h) : longer[i] = "system" \/ longer[i] = "dialog"
    BY <1>1 DEF Kinds
  <1>5. With(h) = S \cup D
    BY <1>1, <1>4 DEF DialogWith, System
  <1>6. S \cap D = {}
    BY DEF DialogWith, System
  <1> HIDE DEF S, D
  <1>7. Cardinality(S \cup D) = Cardinality(S) + Cardinality(D) - Cardinality(S \cap D)
    BY <1>3, FS_Union
  <1>8. Cardinality(S \cap D) = 0
    BY <1>6, FS_EmptySet
  <1>9. Cardinality(With(h)) = Cardinality(S) + Cardinality(D)
    BY <1>3, <1>5, <1>7, <1>8
  <1> QED  BY <1>2, <1>3, <1>9 DEF S, D, longer

(* How many messages are too many, the new one counted.                    *)
Over(h) ==
  IF Cardinality(With(h)) > MaxMessages THEN Cardinality(With(h)) - MaxMessages ELSE 0

LEMMA KeptOfLonger ==
  ASSUME NEW h \in Seq(Kinds), NEW kind \in Kinds
  PROVE  /\ Retained(Append(h, kind)) \in SUBSET With(h)
         /\ \A i \in With(h) :
              i \in Retained(Append(h, kind)) <=>
                \/ Append(h, kind)[i] = "system"
                \/ Append(h, kind)[i] = "dialog" /\ Rank(DialogWith(h, kind), i) > Over(h)
  <1> DEFINE longer == Append(h, kind)
             n == Len(h)
             D == DialogWith(h, kind)
             S == System(longer)
  <1>1. /\ n \in Nat /\ n + 1 \in Nat /\ longer \in Seq(Kinds) /\ Len(longer) = n + 1
        /\ DOMAIN longer = DOMAIN h \cup {n + 1} /\ DOMAIN h = 1..n
        /\ \A i \in 1..n : longer[i] = h[i]
        /\ With(h) \in SUBSET (1..(n + 1)) /\ System(h) \in SUBSET S
    BY HistoryGrows
  <1>2. /\ D \in SUBSET (1..(n + 1)) /\ Cardinality(With(h)) \in Nat
        /\ Cardinality(S) \in Nat /\ Cardinality(D) \in Nat
        /\ Cardinality(With(h)) = Cardinality(S) + Cardinality(D)
    BY WithSplits
  <1> HIDE DEF longer
  <1>3. \A i \in 1..(n + 1) :
          i \in Retained(longer) <=>
            longer[i] = "system" \/ Cardinality(Newer(longer, i)) < MaxMessages - Cardinality(S)
    BY <1>1, RetainedIs
  <1>4. ASSUME NEW i \in Retained(longer), i # n + 1 PROVE i \in Retained(h)
    <2>1. i \in 1..n /\ longer[i] = h[i]
      <3>1. Retained(longer) \in SUBSET (1..(n + 1))
        BY <1>1, RetainedIs
      <3>2. i \in 1..n
        BY <1>1, <1>4, <3>1
      <3> QED  BY <1>1, <3>2
    <2>2. CASE longer[i] = "system"
      BY <2>1, <2>2, RetainedIs
    <2>3. CASE Cardinality(Newer(longer, i)) < MaxMessages - Cardinality(S)
      <3>1. i \in Nat /\ i \in 1..(n + 1)
        BY <1>1, <2>1
      <3>2. Newer(h, i) \in SUBSET Newer(longer, i)
        BY <3>1, NewerGrows DEF longer
      <3>3. /\ Newer(longer, i) \in SUBSET (1..(n + 1)) /\ Cardinality(Newer(longer, i)) \in Nat
            /\ Cardinality(Newer(h, i)) \in Nat
        BY <1>1, <3>1, NewerFinite
      <3>4. Cardinality(Newer(h, i)) <= Cardinality(Newer(longer, i))
        BY <1>1, <3>2, <3>3, SubsetCounts
      <3>5. S \in SUBSET (1..(n + 1))
        BY <1>1 DEF System
      <3>6. Cardinality(System(h)) <= Cardinality(S) /\ Cardinality(System(h)) \in Nat
        <4>1. System(h) \in SUBSET (1..n)
          BY <1>1 DEF System
        <4> QED  BY <1>1, <3>5, <4>1, SubsetCounts, PartFinite
      <3>7. Cardinality(Newer(h, i)) < MaxMessages - Cardinality(System(h))
        BY <1>2, <2>3, <3>3, <3>4, <3>6, StoreAssumption
      <3> QED  BY <2>1, <3>7, RetainedIs
    <2>4. i \in 1..(n + 1)
      BY <1>1, <2>1
    <2> QED  BY <1>3, <2>2, <2>3, <2>4
  <1>5. Retained(longer) \in SUBSET With(h)
    BY <1>4 DEF With
  <1>6. ASSUME NEW i \in D
        PROVE  i \in Retained(longer) <=> Rank(D, i) > Over(h)
    <2>1. i \in 1..(n + 1) /\ i \in Nat
      BY <1>1, <1>2
    <2>2. Cardinality(D) = Rank(D, i) + Cardinality(Newer(longer, i))
      BY <1>1, <1>2, RankSplits, NewerWith DEF longer
    <2>3. Cardinality(Newer(longer, i)) \in Nat
      BY <1>1, <2>1, NewerFinite
    <2>4. Rank(D, i) \in 0..Cardinality(D) /\ Rank(D, i) > 0
      <3>1. \A k \in Int : Rank(D, k) \in 0..Cardinality(D) /\ (k \in D => Rank(D, k) > 0)
        BY <1>1, <1>2, RankType
      <3> QED  BY <2>1, <3>1
    <2>5. i \in Retained(longer) <=> Cardinality(Newer(longer, i)) < MaxMessages - Cardinality(S)
      <3>1. longer[i] = "dialog"
        BY DEF DialogWith, longer
      <3> QED  BY <1>3, <2>1, <3>1
    <2> HIDE DEF D, S
    <2> QED  BY <1>2, <2>2, <2>3, <2>4, <2>5, StoreAssumption DEF Over
  <1>7. ASSUME NEW i \in With(h)
        PROVE  i \in Retained(longer) <=>
                 longer[i] = "system" \/ (longer[i] = "dialog" /\ Rank(D, i) > Over(h))
    <2>1. i \in 1..(n + 1) /\ longer[i] \in Kinds
      BY <1>1
    <2>2. CASE longer[i] = "system"
      BY <1>3, <2>1, <2>2
    <2>3. CASE longer[i] = "dialog"
      <3>1. i \in D
        BY <2>3 DEF DialogWith, longer
      <3> QED  BY <1>6, <2>3, <3>1
    <2> QED  BY <2>1, <2>2, <2>3 DEF Kinds
  <1> QED  BY <1>5, <1>7 DEF longer

-----------------------------------------------------------------------------
(* Truncating what was read of the history and the new message.            *)

NewMessage(h, kind) == [n |-> Len(h) + 1, kind |-> kind, truncated |-> FALSE]

Fuller(h, kind) == Append(Reading(h), NewMessage(h, kind))

LEMMA FullerIs ==
  ASSUME NEW h \in Seq(Kinds), NEW kind \in Kinds
  PROVE  LET c == Cardinality(With(h))
             o == InOrder(With(h))
             ms == Fuller(h, kind)
         IN /\ ms \in Seq(Messages) /\ Len(ms) = c /\ c \in Nat
            /\ \A p \in 1..c :
                 /\ o[p] \in With(h) /\ ms[p].n = o[p] /\ ms[p].kind = Append(h, kind)[o[p]]
                 /\ ms[p].truncated <=> o[p] # Len(h) + 1 /\ Marked(h, o[p])
  <1> DEFINE n == Len(h)
             R == Retained(h)
             r == Cardinality(R)
             q == Append(InOrder(R), n + 1)
             ms == Fuller(h, kind)
             new == NewMessage(h, kind)
             longer == Append(h, kind)
  <1>1. /\ n \in Nat /\ n + 1 \in Nat /\ R \in SUBSET (1..n) /\ With(h) \in SUBSET (1..(n + 1))
        /\ r \in Nat
    BY RetainedIs, HistoryGrows, ReadingIs
  <1>2. /\ InOrder(R) \in [1..r -> R]
        /\ \A i \in R : Rank(R, i) \in 1..r /\ InOrder(R)[Rank(R, i)] = i
        /\ \A k, l \in 1..r : k < l => InOrder(R)[k] < InOrder(R)[l]
    BY <1>1, InOrderIs
  <1>3. /\ q \in [1..(r + 1) -> With(h)]
        /\ \A k \in 1..r : q[k] = InOrder(R)[k] /\ q[k] \in R
        /\ q[r + 1] = n + 1
    <2>1. InOrder(R) \in Seq(With(h)) /\ Len(InOrder(R)) = r
      BY <1>1, <1>2 DEF With
    <2>2. n + 1 \in With(h)
      BY DEF With
    <2>3. q \in Seq(With(h)) /\ Len(q) = r + 1
      BY <2>1, <2>2
    <2>4. \A k \in 1..r : q[k] = InOrder(R)[k] /\ InOrder(R)[k] \in R
      BY <1>1, <1>2, <2>1
    <2>5. q[r + 1] = n + 1
      BY <1>1, <2>1
    <2>6. \A k \in 1..r : q[k] = InOrder(R)[k] /\ q[k] \in R
      BY <2>4
    <2>7. q \in [1..(r + 1) -> With(h)]
      <3> HIDE DEF q
      <3> QED  BY <2>3
    <2> QED  BY <2>5, <2>6, <2>7
  <1> HIDE DEF q
  <1>4. \A i \in With(h) : \E k \in 1..(r + 1) : q[k] = i
    <2> SUFFICES ASSUME NEW i \in With(h) PROVE \E k \in 1..(r + 1) : q[k] = i
      OBVIOUS
    <2>1. CASE i = n + 1
      BY <1>1, <1>3, <2>1
    <2>2. CASE i \in R
      <3>1. Rank(R, i) \in 1..r /\ q[Rank(R, i)] = i
        BY <1>2, <1>3, <2>2
      <3> QED  BY <1>1, <3>1
    <2> QED  BY <2>1, <2>2 DEF With
  <1>5. \A k, l \in 1..(r + 1) : k < l => q[k] < q[l]
    <2> SUFFICES ASSUME NEW k \in 1..(r + 1), NEW l \in 1..(r + 1), k < l PROVE q[k] < q[l]
      OBVIOUS
    <2>1. k \in 1..r
      BY <1>1
    <2>2. CASE l \in 1..r
      BY <1>2, <1>3, <2>1, <2>2
    <2>3. CASE l = r + 1
      <3>1. q[k] \in 1..n
        BY <1>1, <1>3, <2>1
      <3> QED  BY <1>1, <1>3, <2>3, <3>1
    <2> QED  BY <1>1, <2>2, <2>3
  <1>6. r + 1 = Cardinality(With(h)) /\ q = InOrder(With(h))
    <2>1. r + 1 \in Nat
      BY <1>1
    <2> QED  BY <1>1, <1>3, <1>4, <1>5, <2>1, InOrderOnly
  <1>7. /\ Reading(h) \in Seq(Messages) /\ Len(Reading(h)) = r
        /\ \A k \in 1..r : /\ Reading(h)[k].n = InOrder(R)[k]
                           /\ Reading(h)[k].kind = h[InOrder(R)[k]]
                           /\ Reading(h)[k].truncated = Marked(h, InOrder(R)[k])
    BY ReadingIs
  <1>8. new \in Messages /\ new.n = n + 1 /\ new.kind = kind /\ new.truncated = FALSE
    BY <1>1 DEF NewMessage, Messages
  <1>9. /\ ms \in Seq(Messages) /\ Len(ms) = r + 1
        /\ \A k \in 1..r : ms[k] = Reading(h)[k]
        /\ ms[r + 1] = new
    <2> HIDE DEF new
    <2> QED  BY <1>1, <1>7, <1>8 DEF Fuller, new
  <1>10. longer[n + 1] = kind /\ \A i \in 1..n : longer[i] = h[i]
    BY HistoryGrows
  <1>11. \A i : Marked(h, i) \in BOOLEAN
    BY DEF Marked
  <1> HIDE DEF longer, ms, new
  <1>12. ASSUME NEW p \in 1..(r + 1)
         PROVE  /\ q[p] \in With(h) /\ ms[p].n = q[p] /\ ms[p].kind = longer[q[p]]
                /\ ms[p].truncated <=> q[p] # n + 1 /\ Marked(h, q[p])
    <2>1. q[p] \in With(h)
      BY <1>3
    <2>2. CASE p = r + 1
      BY <1>3, <1>8, <1>9, <1>10, <2>1, <2>2
    <2>3. CASE p \in 1..r
      <3>1. q[p] \in 1..n /\ q[p] # n + 1 /\ q[p] = InOrder(R)[p]
        BY <1>1, <1>3, <2>3
      <3>2. ms[p].n = q[p] /\ ms[p].kind = longer[q[p]] /\ ms[p].truncated = Marked(h, q[p])
        BY <1>7, <1>9, <1>10, <2>3, <3>1
      <3>3. ms[p].truncated <=> q[p] # n + 1 /\ Marked(h, q[p])
        BY <1>11, <3>1, <3>2, Zenon
      <3> QED  BY <2>1, <3>2, <3>3
    <2> QED  BY <1>1, <2>2, <2>3
  <1> QED  BY <1>1, <1>6, <1>9, <1>12 DEF ms, longer

(* Truncation chooses by place what the cap keeps by number.               *)
LEMMA ChosenIs ==
  ASSUME NEW h \in Seq(Kinds), NEW kind \in Kinds
  PROVE  LET c == Cardinality(With(h))
             o == InOrder(With(h))
         IN Chosen(Fuller(h, kind)) = {p \in 1..c : o[p] \in Retained(Append(h, kind))}
  <1> DEFINE n == Len(h)
             c == Cardinality(With(h))
             o == InOrder(With(h))
             ms == Fuller(h, kind)
             longer == Append(h, kind)
             D == DialogWith(h, kind)
             P == OfKind(ms, "dialog")
  <1>1. /\ ms \in Seq(Messages) /\ Len(ms) = c /\ c \in Nat
        /\ \A p \in 1..c : o[p] \in With(h) /\ ms[p].kind = longer[o[p]]
    BY FullerIs
  <1>2. /\ n + 1 \in Nat /\ With(h) \in SUBSET (1..(n + 1)) /\ longer \in Seq(Kinds)
        /\ DOMAIN longer = 1..(n + 1)
    BY HistoryGrows
  <1>3. /\ o \in [1..c -> With(h)]
        /\ \A i \in With(h) : Rank(With(h), i) \in 1..c /\ o[Rank(With(h), i)] = i
        /\ \A k, l \in 1..c : k < l => o[k] < o[l]
    BY <1>2, InOrderIs
  <1>4. D \in SUBSET (1..(n + 1)) /\ D \in SUBSET With(h)
    BY <1>2 DEF DialogWith
  <1>5. \A i \in With(h) : i \in Retained(longer) <=>
          longer[i] = "system" \/ (longer[i] = "dialog" /\ Rank(D, i) > Over(h))
    BY KeptOfLonger
  <1>6. Excess(ms) = Over(h)
    BY <1>1 DEF Excess, Over
  <1>7. P \in SUBSET (1..c)
    BY <1>1 DEF OfKind
  <1>8. \A i \in With(h) : longer[i] = "system" \/ longer[i] = "dialog"
    BY <1>2 DEF Kinds
  <1>9. DOMAIN ms = 1..c
    BY <1>1
  <1>10. \A p \in 1..c : o[p] \in D => longer[o[p]] = "dialog"
    BY DEF DialogWith
  <1>11. \A p \in 1..c : longer[o[p]] = "dialog" => o[p] \in D
    BY <1>3 DEF DialogWith
  <1> HIDE DEF ms, longer, D, P, o, c
  <1>12. \A p \in 1..c : ms[p].kind = "dialog" <=> p \in P
    BY <1>9 DEF P, OfKind
  <1>13. \A p \in 1..c : p \in P <=> o[p] \in D
    BY <1>1, <1>10, <1>11, <1>12
  <1>14. ASSUME NEW p \in 1..c, p \in P
         PROVE  Rank(P, p) = Rank(D, o[p])
    <2> DEFINE A == {j \in P : j <= p}
               B == {i \in D : i <= o[p]}
               f == [j \in A |-> o[j]]
    <2>1. p \in Nat /\ \A j \in 1..c : j \in Nat /\ o[j] \in Int
      BY <1>1, <1>2, <1>3
    <2>2. \A j \in 1..c : j <= p <=> o[j] <= o[p]
      <3> TAKE j \in 1..c
      <3>1. CASE j < p
        BY <1>3, <2>1, <3>1
      <3>2. CASE j = p
        BY <2>1, <3>2
      <3>3. CASE j > p
        <4>1. o[p] < o[j]
          BY <1>3, <2>1, <3>3
        <4> QED  BY <2>1, <3>3, <4>1
      <3> QED  BY <2>1, <3>1, <3>2, <3>3
    <2>3. f \in [A -> B]
      BY <1>7, <1>13, <2>2
    <2>4. \A j, k \in A : f[j] = f[k] => j = k
      <3> SUFFICES ASSUME NEW j \in A, NEW k \in A, f[j] = f[k], j # k PROVE FALSE
        OBVIOUS
      <3>1. j \in 1..c /\ k \in 1..c /\ o[j] = o[k]
        BY <1>7
      <3>2. ~(j < k) /\ ~(k < j)
        <4>1. ~(o[j] < o[k]) /\ ~(o[k] < o[j])
          BY <2>1, <3>1
        <4> QED  BY <1>3, <3>1, <4>1
      <3> QED  BY <2>1, <3>1, <3>2
    <2>5. \A i \in B : \E j \in A : f[j] = i
      <3> SUFFICES ASSUME NEW i \in B PROVE \E j \in A : f[j] = i
        OBVIOUS
      <3>1. PICK j \in 1..c : o[j] = i
        BY <1>3, <1>4
      <3>2. j \in A
        BY <1>13, <2>2, <3>1
      <3> QED  BY <3>1, <3>2
    <2>6. IsFiniteSet(A) /\ IsFiniteSet(B)
      <3>1. A \in SUBSET (1..c) /\ B \in SUBSET (1..(n + 1))
        BY <1>4, <1>7
      <3> QED  BY <1>1, <1>2, <3>1, PartFinite
    <2> HIDE DEF f, A, B
    <2>7. f \in Bijection(A, B)
      BY <2>3, <2>4, <2>5 DEF Bijection, Injection, Surjection, IsInjective
    <2>8. Cardinality(A) = Cardinality(B)
      <3>1. ExistsBijection(A, B)
        BY <2>7 DEF ExistsBijection
      <3> QED  BY <2>6, <3>1, FS_Bijection
    <2> QED  BY <2>8 DEF A, B, Rank
  <1>15. ASSUME NEW p \in 1..c
         PROVE  p \in Chosen(ms) <=> o[p] \in Retained(longer)
    <2>1. CASE longer[o[p]] = "system"
      <3>1. p \in Chosen(ms)
        BY <1>1, <1>9, <2>1 DEF Chosen
      <3> QED  BY <1>3, <1>5, <2>1, <3>1
    <2>2. CASE longer[o[p]] = "dialog"
      <3>1. p \in P /\ ms[p].kind # "system"
        BY <1>1, <1>11, <1>13, <2>2
      <3>2. p \in Chosen(ms) <=> Rank(P, p) > Excess(ms)
        BY <1>9, <3>1 DEF Chosen, P
      <3>3. Rank(P, p) = Rank(D, o[p])
        BY <1>14, <3>1
      <3>4. o[p] \in Retained(longer) <=> Rank(D, o[p]) > Over(h)
        BY <1>3, <1>5, <2>2
      <3> QED  BY <1>6, <3>2, <3>3, <3>4
    <2> QED  BY <1>3, <1>8, <2>1, <2>2
  <1>16. Chosen(ms) \in SUBSET (1..c)
    BY <1>9 DEF Chosen
  <1>17. Chosen(ms) = {p \in 1..c : o[p] \in Retained(longer)}
    BY <1>15, <1>16
  <1> QED  BY <1>17 DEF ms, longer, o, c

(* What truncation leaves is what the cap leaves, with the old marks.      *)
LEMMA LeftIs ==
  ASSUME NEW h \in Seq(Kinds), NEW kind \in Kinds
  PROVE  LET longer == Append(h, kind)
             kept == Retained(longer)
             left == Left(Fuller(h, kind))
         IN /\ left \in Seq(Messages) /\ Len(left) = Cardinality(kept)
            /\ \A k \in 1..Cardinality(kept) :
                 LET i == InOrder(kept)[k] IN
                 /\ left[k].n = i /\ left[k].kind = longer[i]
                 /\ left[k].truncated <=> i # Len(h) + 1 /\ Marked(h, i)
  <1> DEFINE n == Len(h)
             c == Cardinality(With(h))
             o == InOrder(With(h))
             ms == Fuller(h, kind)
             longer == Append(h, kind)
             kept == Retained(longer)
             C == Chosen(ms)
             m == Cardinality(C)
             q == [k \in 1..m |-> o[InOrder(C)[k]]]
  <1>1. /\ ms \in Seq(Messages) /\ Len(ms) = c /\ c \in Nat
        /\ \A p \in 1..c :
             /\ o[p] \in With(h) /\ ms[p].n = o[p] /\ ms[p].kind = longer[o[p]]
             /\ ms[p].truncated <=> o[p] # n + 1 /\ Marked(h, o[p])
    BY FullerIs
  <1>2. n + 1 \in Nat /\ With(h) \in SUBSET (1..(n + 1))
    BY HistoryGrows
  <1>3. /\ o \in [1..c -> With(h)]
        /\ \A i \in With(h) : Rank(With(h), i) \in 1..c /\ o[Rank(With(h), i)] = i
        /\ \A k, l \in 1..c : k < l => o[k] < o[l]
    BY <1>2, InOrderIs
  <1>4. kept \in SUBSET With(h) /\ kept \in SUBSET (1..(n + 1))
    BY <1>2, KeptOfLonger
  <1>5. C = {p \in 1..c : o[p] \in kept}
    BY ChosenIs
  <1> HIDE DEF ms, longer, kept, o, c, C
  <1>6. C \in SUBSET (1..c) /\ C \in SUBSET DOMAIN ms
    BY <1>1, <1>5
  <1>7. /\ Left(ms) \in Seq(Messages) /\ Len(Left(ms)) = m /\ m \in Nat
        /\ \A k \in 1..m : InOrder(C)[k] \in C /\ Left(ms)[k] = ms[InOrder(C)[k]]
    BY <1>1, <1>6, PickIs DEF Left, C
  <1>8. /\ \A p \in C : Rank(C, p) \in 1..m /\ InOrder(C)[Rank(C, p)] = p
        /\ \A k, l \in 1..m : k < l => InOrder(C)[k] < InOrder(C)[l]
    <2>1. c \in Nat /\ C \in SUBSET (1..c)
      BY <1>1, <1>6
    <2> HIDE DEF q
    <2> QED  BY <2>1, InOrderIs
  <1>9. \A k \in 1..m : InOrder(C)[k] \in 1..c /\ q[k] = o[InOrder(C)[k]] /\ q[k] \in kept
    BY <1>5, <1>7
  <1>10. q \in [1..m -> kept]
    BY <1>9
  <1>11. \A i \in kept : \E k \in 1..m : q[k] = i
    <2> SUFFICES ASSUME NEW i \in kept PROVE \E k \in 1..m : q[k] = i
      OBVIOUS
    <2>1. PICK p \in 1..c : o[p] = i
      BY <1>3, <1>4
    <2>2. p \in C
      BY <1>5, <2>1
    <2>3. Rank(C, p) \in 1..m /\ q[Rank(C, p)] = i
      BY <1>8, <2>1, <2>2
    <2> QED  BY <2>3
  <1>12. \A k, l \in 1..m : k < l => q[k] < q[l]
    <2> SUFFICES ASSUME NEW k \in 1..m, NEW l \in 1..m, k < l PROVE q[k] < q[l]
      OBVIOUS
    <2>1. InOrder(C)[k] < InOrder(C)[l] /\ InOrder(C)[k] \in 1..c /\ InOrder(C)[l] \in 1..c
      BY <1>8, <1>9
    <2>2. o[InOrder(C)[k]] < o[InOrder(C)[l]]
      BY <1>3, <2>1
    <2> QED  BY <1>9, <2>2
  <1> HIDE DEF q, m
  <1>13. m = Cardinality(kept) /\ q = InOrder(kept)
    <2>1. n + 1 \in Nat /\ kept \in SUBSET (1..(n + 1)) /\ m \in Nat
      BY <1>2, <1>4, <1>7
    <2> HIDE DEF n
    <2> QED  BY <1>10, <1>11, <1>12, <2>1, InOrderOnly
  <1>14. ASSUME NEW k \in 1..m
         PROVE  /\ Left(ms)[k].n = q[k] /\ Left(ms)[k].kind = longer[q[k]]
                /\ Left(ms)[k].truncated <=> q[k] # n + 1 /\ Marked(h, q[k])
    <2> DEFINE p == InOrder(C)[k]
    <2>1. p \in 1..c /\ q[k] = o[p] /\ Left(ms)[k] = ms[p]
      BY <1>7, <1>9
    <2> HIDE DEF p
    <2>2. ms[p].n = o[p] /\ ms[p].kind = longer[o[p]]
      BY <1>1, <2>1
    <2>3. ms[p].truncated <=> o[p] # n + 1 /\ Marked(h, o[p])
      BY <1>1, <2>1, Zenon
    <2> QED  BY <2>1, <2>2, <2>3, Zenon
  <1> QED  BY <1>7, <1>13, <1>14 DEF ms, longer, kept

(* Dialog messages were dropped and one more is kept: one of them was kept *)
(* before, so the new one is not the first.                                *)
LEMMA NewIsNotFirst ==
  ASSUME NEW h \in Seq(Kinds), Retained(h) # DOMAIN h,
         Len(h) + 1 \in Retained(Append(h, "dialog"))
  PROVE  KeptDialog(h) # {}
  <1> DEFINE n == Len(h)
             longer == Append(h, "dialog")
             D == DOMAIN h \ System(h)
  <1>1. /\ n \in Nat /\ longer \in Seq(Kinds) /\ Len(longer) = n + 1 /\ DOMAIN h = 1..n
        /\ longer[n + 1] = "dialog" /\ System(longer) = System(h)
    BY HistoryGrows DEF Kinds
  <1>2. Cardinality(Newer(longer, n + 1)) < MaxMessages - Cardinality(System(h))
    <2>1. n + 1 \in 1..Len(longer) /\ longer[n + 1] # "system"
      BY <1>1
    <2> QED  BY <1>1, <2>1, RetainedIs
  <1>3. 0 < MaxMessages - Cardinality(System(h))
    <2>1. n + 1 \in Nat
      BY <1>1
    <2>2. Cardinality(Newer(longer, n + 1)) \in Nat
      BY <1>1, <2>1, NewerFinite
    <2>3. Cardinality(System(h)) \in Nat
      <3>1. System(h) \in SUBSET (1..n)
        BY <1>1 DEF System
      <3> QED  BY <1>1, <3>1, PartFinite
    <2> QED  BY <1>2, <2>2, <2>3, StoreAssumption
  <1>4. D # {} /\ D \in SUBSET (1..n)
    <2>1. PICK i \in 1..n : i \notin Retained(h)
      BY <1>1, RetainedIs
    <2>2. i \notin System(h)
      BY <2>1, RetainedIs
    <2> QED  BY <1>1, <2>1, <2>2
  <1>5. PICK i \in D : \A j \in D : j <= i
    BY <1>1, <1>4, Greatest
  <1>6. Newer(h, i) = {}
    <2>1. \A j \in D : ~(j > i)
      <3>1. i \in Int /\ \A j \in D : j \in Int
        BY <1>4
      <3> QED  BY <1>5, <3>1
    <2> QED  BY <2>1 DEF Newer
  <1>7. Cardinality(Newer(h, i)) = 0
    BY <1>6, FS_EmptySet
  <1>8. i \in Retained(h) /\ h[i] = "dialog"
    <2>1. i \in 1..Len(h) /\ h[i] \in Kinds /\ h[i] # "system"
      BY <1>1 DEF System
    <2> QED  BY <1>3, <1>7, <2>1, RetainedIs DEF Kinds
  <1> QED  BY <1>8 DEF KeptDialog

(* Nothing more is dropped: the marks stay as they were.                   *)
LEMMA MarksStay ==
  ASSUME NEW h \in Seq(Kinds), NEW kind \in Kinds, Retained(Append(h, kind)) = With(h),
         NEW i \in With(h)
  PROVE  Marked(Append(h, kind), i) <=> i # Len(h) + 1 /\ Marked(h, i)
  <1> DEFINE n == Len(h)
             longer == Append(h, kind)
  <1>1. /\ n \in Nat /\ DOMAIN longer = DOMAIN h \cup {n + 1} /\ DOMAIN h = 1..n
        /\ \A j \in 1..n : longer[j] = h[j]
        /\ longer[n + 1] = kind
    BY HistoryGrows
  <1>2. Retained(h) \in SUBSET (1..n) /\ n + 1 \notin 1..n
    BY <1>1, RetainedIs
  <1>3. Retained(longer) = DOMAIN longer <=> Retained(h) = DOMAIN h
    BY <1>1, <1>2 DEF With
  <1>4. kind = "dialog" /\ Retained(h) # DOMAIN h => KeptDialog(h) # {}
    <2>1. n + 1 \in Retained(longer)
      BY DEF With
    <2> QED  BY <2>1, NewIsNotFirst
  <1> HIDE DEF longer
  <1>5. KeptDialog(longer) = KeptDialog(h) \cup (IF kind = "dialog" THEN {n + 1} ELSE {})
    <2>1. \A j \in Retained(h) : longer[j] = h[j]
      BY <1>1, <1>2
    <2>2. Retained(longer) = Retained(h) \cup {n + 1}
      BY DEF longer, With
    <2> QED  BY <1>1, <2>1, <2>2 DEF KeptDialog
  <1>6. \A j \in KeptDialog(h) : j \in 1..n /\ j < n + 1 /\ ~(n + 1 <= j)
    <2>1. \A j \in 1..n : j < n + 1 /\ ~(n + 1 <= j)
      BY <1>1
    <2> QED  BY <1>2, <2>1 DEF KeptDialog
  <1>7. CASE Retained(h) = DOMAIN h
    BY <1>3, <1>7 DEF Marked, longer
  <1>8. CASE Retained(h) # DOMAIN h /\ i = n + 1
    <2>1. ~Marked(longer, i)
      <3> SUFFICES ASSUME Marked(longer, i) PROVE FALSE
        OBVIOUS
      <3>1. i \in KeptDialog(longer) /\ \A j \in KeptDialog(longer) : i <= j
        BY DEF Marked
      <3>2. kind = "dialog"
        BY <1>5, <1>6, <1>8, <3>1
      <3>3. PICK j \in KeptDialog(h) : TRUE
        BY <1>4, <1>8, <3>2
      <3> QED  BY <1>5, <1>6, <1>8, <3>1, <3>3
    <2> QED  BY <1>8, <2>1 DEF longer
  <1>9. CASE Retained(h) # DOMAIN h /\ i # n + 1
    <2>1. i \in 1..n
      BY <1>2, <1>9 DEF With
    <2>2. i \in KeptDialog(longer) <=> i \in KeptDialog(h)
      BY <1>5, <1>9
    <2>3. i <= n + 1
      BY <1>1, <2>1
    <2>4. (\A j \in KeptDialog(longer) : i <= j) <=> (\A j \in KeptDialog(h) : i <= j)
      BY <1>5, <2>3
    <2>5. Marked(longer, i) <=> Marked(h, i)
      BY <1>3, <1>9, <2>2, <2>4 DEF Marked
    <2> QED  BY <1>9, <2>5 DEF longer
  <1> QED  BY <1>7, <1>8, <1>9

(* Something is dropped: a message that carried the mark and is still      *)
(* there is the first dialog message still.                                *)
LEMMA MarksMove ==
  ASSUME NEW h \in Seq(Kinds), NEW kind \in Kinds, Retained(Append(h, kind)) # With(h)
  PROVE  /\ \A i \in Retained(Append(h, kind)) :
              Marked(Append(h, kind), i) <=>
                /\ i \in KeptDialog(Append(h, kind))
                /\ \A j \in KeptDialog(Append(h, kind)) : i <= j
         /\ \A i \in Retained(Append(h, kind)) :
              i # Len(h) + 1 /\ Marked(h, i) => Marked(Append(h, kind), i)
  <1> DEFINE n == Len(h)
             longer == Append(h, kind)
  <1>1. /\ n \in Nat /\ DOMAIN longer = DOMAIN h \cup {n + 1} /\ DOMAIN h = 1..n
        /\ \A j \in 1..n : longer[j] = h[j]
        /\ With(h) \in SUBSET (1..(n + 1))
    BY HistoryGrows
  <1>2. Retained(longer) \in SUBSET With(h)
    BY KeptOfLonger
  <1> HIDE DEF longer
  <1>3. Retained(longer) # DOMAIN longer
    <2>1. With(h) \in SUBSET DOMAIN longer
      BY <1>1
    <2> QED  BY <1>2, <2>1 DEF longer
  <1>4. ASSUME NEW i \in Retained(longer)
        PROVE  Marked(longer, i) <=>
                 i \in KeptDialog(longer) /\ \A j \in KeptDialog(longer) : i <= j
    BY <1>3 DEF Marked
  <1>5. ASSUME NEW i \in Retained(longer), i # n + 1, Marked(h, i)
        PROVE  Marked(longer, i)
    <2>1. i \in KeptDialog(h) /\ \A j \in KeptDialog(h) : i <= j
      BY <1>5 DEF Marked
    <2>2. i \in 1..n /\ h[i] = "dialog"
      BY <1>1, <2>1, RetainedIs DEF KeptDialog
    <2>3. i \in KeptDialog(longer)
      BY <1>1, <2>2 DEF KeptDialog
    <2>4. ASSUME NEW j \in KeptDialog(longer) PROVE i <= j
      <3>1. CASE j = n + 1
        BY <1>1, <2>2, <3>1
      <3>2. CASE j # n + 1
        <4>1. j \in Retained(h) /\ longer[j] = "dialog"
          BY <1>2, <3>2 DEF KeptDialog, With
        <4>2. j \in 1..n
          BY <1>1, <4>1, RetainedIs
        <4>3. j \in KeptDialog(h)
          BY <1>1, <4>1, <4>2 DEF KeptDialog
        <4> QED  BY <2>1, <4>3
      <3> QED  BY <3>1, <3>2
    <2> QED  BY <1>4, <2>3, <2>4
  <1> QED  BY <1>4, <1>5 DEF longer

(* Appending a message to what is read of a history and truncating gives   *)
(* what is read of the longer history.                                     *)
LEMMA ReadingGrows ==
  ASSUME NEW h \in Seq(Kinds), NEW kind \in Kinds
  PROVE  Truncate(Append(Reading(h), [n |-> Len(h) + 1, kind |-> kind, truncated |-> FALSE]))
           = Reading(Append(h, kind))
  <1> DEFINE n == Len(h)
             longer == Append(h, kind)
             kept == Retained(longer)
             m == Cardinality(kept)
             q == InOrder(kept)
             ms == Fuller(h, kind)
             left == Left(ms)
             read == Reading(longer)
  <1>1. longer \in Seq(Kinds) /\ n \in Nat /\ n + 1 \in Nat /\ With(h) \in SUBSET (1..(n + 1))
    BY HistoryGrows
  <1>2. /\ left \in Seq(Messages) /\ Len(left) = m
        /\ \A k \in 1..m : /\ left[k].n = q[k] /\ left[k].kind = longer[q[k]]
                           /\ left[k].truncated <=> q[k] # n + 1 /\ Marked(h, q[k])
    BY LeftIs
  <1>3. /\ read \in Seq(Messages) /\ Len(read) = m /\ m \in Nat
        /\ \A k \in 1..m : /\ q[k] \in kept /\ read[k].n = q[k] /\ read[k].kind = longer[q[k]]
                           /\ read[k].truncated = Marked(longer, q[k])
    BY <1>1, ReadingIs
  <1>4. Len(ms) = Cardinality(With(h))
    BY FullerIs
  <1>5. kept \in SUBSET With(h) /\ kept \in SUBSET (1..(n + 1))
    BY <1>1, KeptOfLonger
  <1>6. /\ \A i \in kept : Rank(kept, i) \in 1..m /\ q[Rank(kept, i)] = i
        /\ \A k, l \in 1..m : k < l => q[k] < q[l]
    BY <1>1, <1>5, InOrderIs
  <1>7. Truncate(ms) = IF Len(left) = Len(ms) \/ OfKind(left, "dialog") = {}
                         THEN left
                         ELSE [left EXCEPT ![FirstDialog(left)].truncated = TRUE]
    BY TruncateIs
  <1>8. \A k \in 1..m : left[k] \in Messages /\ read[k] \in Messages
    BY <1>2, <1>3
  <1>9. \A k \in 1..m : left[k].truncated \in BOOLEAN /\ read[k].truncated \in BOOLEAN
    BY <1>8 DEF Messages
  <1>10. \A i : Marked(longer, i) \in BOOLEAN
    BY DEF Marked
  <1>11. kept = With(h) \/ Len(left) # Len(ms)
    <2>1. n + 1 \in Nat /\ With(h) \in SUBSET (1..(n + 1)) /\ kept \in SUBSET With(h)
      BY <1>1, <1>5
    <2>2. Len(left) = Cardinality(kept) /\ Len(ms) = Cardinality(With(h))
      BY <1>2, <1>4
    <2> HIDE DEF n, kept, left, ms
    <2> QED  BY <2>1, <2>2, SubsetCounts
  <1>12. Truncate(ms) =
           Truncate(Append(Reading(h), [n |-> Len(h) + 1, kind |-> kind, truncated |-> FALSE]))
    BY DEF Fuller, NewMessage
  <1>13. kept # With(h) \/ Len(left) = Len(ms)
    BY <1>2, <1>4
  <1> HIDE DEF ms, left, read, longer, kept, q, m, n
  <1>14. CASE kept = With(h)
    <2>1. \A k \in 1..m : Marked(longer, q[k]) <=> q[k] # n + 1 /\ Marked(h, q[k])
      BY <1>3, <1>14, MarksStay DEF kept, longer, n
    <2>2. \A k \in 1..m : left[k].truncated = read[k].truncated
      BY <1>2, <1>3, <1>9, <2>1
    <2>3. \A k \in 1..m : left[k] = read[k]
      BY <1>2, <1>3, <1>8, <2>2, MessageIs
    <2>4. left = read
      BY <1>2, <1>3, <2>3
    <2>5. Truncate(ms) = left
      BY <1>7, <1>13, <1>14
    <2> QED  BY <1>12, <2>4, <2>5 DEF read, longer
  <1>15. CASE kept # With(h)
    <2>1. /\ \A i \in kept : Marked(longer, i) <=>
               i \in KeptDialog(longer) /\ \A j \in KeptDialog(longer) : i <= j
          /\ \A i \in kept : i # n + 1 /\ Marked(h, i) => Marked(longer, i)
      BY <1>15, MarksMove DEF kept, longer, n
    <2>2. \A k \in 1..m : left[k].truncated => Marked(longer, q[k])
      BY <1>2, <1>3, <2>1
    <2>3. \A i : i \in KeptDialog(longer) <=> i \in kept /\ longer[i] = "dialog"
      BY DEF KeptDialog, kept
    <2>4. OfKind(left, "dialog") = {k \in 1..m : q[k] \in KeptDialog(longer)}
      <3>1. DOMAIN left = 1..m
        BY <1>2
      <3> QED  BY <1>2, <1>3, <2>3, <3>1 DEF OfKind
    <2>5. CASE OfKind(left, "dialog") = {}
      <3>1. \A k \in 1..m : ~Marked(longer, q[k])
        BY <1>3, <2>1, <2>4, <2>5
      <3>2. \A k \in 1..m : left[k].truncated = read[k].truncated
        BY <1>3, <1>9, <1>10, <2>2, <3>1
      <3>3. \A k \in 1..m : left[k] = read[k]
        BY <1>2, <1>3, <1>8, <3>2, MessageIs
      <3>4. left = read
        BY <1>2, <1>3, <3>3
      <3>5. Truncate(ms) = left
        BY <1>7, <2>5
      <3> QED  BY <1>12, <3>4, <3>5 DEF read, longer
    <2>6. CASE OfKind(left, "dialog") # {}
      <3> DEFINE f == FirstDialog(left)
                 marked == [left EXCEPT ![f].truncated = TRUE]
      <3>1. /\ f \in 1..m /\ left[f].kind = "dialog"
            /\ \A j \in 1..m : left[j].kind = "dialog" => f <= j
        BY <1>2, <2>6, FirstDialogIs
      <3> HIDE DEF f
      <3>2. /\ marked \in Seq(Messages) /\ Len(marked) = m
            /\ \A k \in 1..m :
                 /\ marked[k].n = left[k].n /\ marked[k].kind = left[k].kind
                 /\ marked[k].truncated = IF k = f THEN TRUE ELSE left[k].truncated
        BY <1>2, <3>1, MarkIs
      <3>3. Truncate(ms) = marked
        BY <1>7, <1>11, <1>15, <2>6 DEF f
      <3> HIDE DEF marked
      <3>4. q[f] \in KeptDialog(longer)
        BY <1>2, <1>3, <2>3, <3>1
      <3>5. \A i \in kept : i \in Int
        BY <1>5
      <3>6. ASSUME NEW j \in KeptDialog(longer) PROVE q[f] <= j
        <4>1. PICK k \in 1..m : q[k] = j
          BY <1>6, <2>3
        <4>2. f <= k
          BY <1>2, <2>3, <3>1, <4>1
        <4>3. f = k \/ q[f] < q[k]
          BY <1>3, <1>6, <3>1, <4>2
        <4> QED  BY <1>3, <3>1, <3>5, <4>1, <4>3
      <3>7. ASSUME NEW k \in 1..m PROVE marked[k].truncated = read[k].truncated
        <4>1. CASE k = f
          <5>1. Marked(longer, q[k])
            BY <1>3, <2>1, <3>4, <3>6, <4>1
          <5> QED  BY <1>3, <1>10, <3>2, <4>1, <5>1
        <4>2. CASE k # f
          <5>1. ~Marked(longer, q[k])
            <6> SUFFICES ASSUME Marked(longer, q[k]) PROVE FALSE
              OBVIOUS
            <6>1. q[k] \in KeptDialog(longer) /\ q[k] <= q[f]
              BY <1>3, <2>1, <3>4
            <6>2. q[f] <= q[k]
              BY <3>6, <6>1
            <6>3. q[f] \in Int /\ q[k] \in Int
              BY <1>3, <3>1, <3>5
            <6>4. ~(q[f] < q[k]) /\ ~(q[k] < q[f])
              BY <6>1, <6>2, <6>3
            <6>5. f \in Int /\ k \in Int
              BY <1>3, <3>1
            <6> QED  BY <1>6, <3>1, <4>2, <6>4, <6>5
          <5>2. ~left[k].truncated
            BY <2>2, <5>1
          <5>3. marked[k].truncated = left[k].truncated
            BY <3>2, <4>2
          <5>4. left[k].truncated = FALSE
            BY <1>9, <5>2
          <5>5. read[k].truncated = Marked(longer, q[k])
            BY <1>3
          <5>6. Marked(longer, q[k]) = FALSE
            BY <1>10, <5>1
          <5> QED  BY <5>3, <5>4, <5>5, <5>6
        <4> QED  BY <4>1, <4>2
      <3>8. \A k \in 1..m : marked[k] = read[k]
        <4> TAKE k \in 1..m
        <4>1. marked[k] \in Messages /\ read[k] \in Messages
          BY <1>8, <3>2
        <4>2. marked[k].n = read[k].n /\ marked[k].kind = read[k].kind
          <5>1. marked[k].n = left[k].n /\ marked[k].kind = left[k].kind
            BY <3>2
          <5>2. left[k].n = q[k] /\ left[k].kind = longer[q[k]]
            BY <1>2
          <5>3. read[k].n = q[k] /\ read[k].kind = longer[q[k]]
            BY <1>3
          <5> QED  BY <5>1, <5>2, <5>3
        <4>3. marked[k].truncated = read[k].truncated
          BY <3>7
        <4>4. \A a, b \in Messages :
                a.n = b.n /\ a.kind = b.kind /\ a.truncated = b.truncated => a = b
          BY MessageIs
        <4> QED  BY <4>1, <4>2, <4>3, <4>4, Zenon
      <3>9. marked = read
        BY <1>3, <3>2, <3>8
      <3> QED  BY <1>12, <3>3, <3>9 DEF read, longer
    <2> QED  BY <2>5, <2>6
  <1> QED  BY <1>14, <1>15

-----------------------------------------------------------------------------
(* What is read and what is stored of each session, step by step.          *)

LEMMA Prefix ==
  ASSUME NEW h \in Seq(Kinds), NEW k \in 0..Len(h)
  PROVE  /\ SubSeq(h, 1, k) \in Seq(Kinds) /\ Len(SubSeq(h, 1, k)) = k
         /\ SubSeq(SubSeq(h, 1, k), 1, k) = SubSeq(h, 1, k)
         /\ k = Len(h) => SubSeq(h, 1, k) = h
         /\ \A kind \in Kinds : SubSeq(Append(h, kind), 1, k) = SubSeq(h, 1, k)
  <1>1. SubSeq(h, 1, k) \in Seq(Kinds) /\ Len(SubSeq(h, 1, k)) = k
    OBVIOUS
  <1>2. SubSeq(SubSeq(h, 1, k), 1, k) = SubSeq(h, 1, k)
    OBVIOUS
  <1>3. k = Len(h) => SubSeq(h, 1, k) = h
    OBVIOUS
  <1>4. \A kind \in Kinds : SubSeq(Append(h, kind), 1, k) = SubSeq(h, 1, k)
    OBVIOUS
  <1> QED  BY <1>1, <1>2, <1>3, <1>4

LEMMA ReadingOfNothing == <<>> \in Seq(Kinds) /\ Reading(<<>>) = <<>>
  <1>1. <<>> \in Seq(Kinds) /\ Len(<<>>) = 0 /\ DOMAIN <<>> = {}
    OBVIOUS
  <1>2. Retained(<<>>) = {}
    BY <1>1 DEF Retained
  <1>3. Cardinality(Retained(<<>>)) = 0
    BY <1>2, FS_EmptySet
  <1>4. Reading(<<>>) \in Seq(Messages) /\ Len(Reading(<<>>)) = 0
    BY <1>1, <1>3, ReadingIs
  <1> QED  BY <1>1, <1>4

LEMMA InitRetained == Init => HistoryRetained
  BY DEF Init, HistoryRetained, Current

(* A step that changes neither what is read nor what is stored.            *)
LEMMA SameRetained ==
  ASSUME HistoryRetained, UNCHANGED <<file, history, saved>>,
         \A s \in Sessions : Current(s)' = Current(s)
  PROVE  HistoryRetained'
  BY DEF HistoryRetained

LEMMA GetRetained ==
  ASSUME StoreInv, HistoryRetained, NEW s \in Sessions, Get(s)
  PROVE  HistoryRetained'
  <1>1. cache' = [cache EXCEPT ![s] = Current(s)] /\ UNCHANGED <<file, history, saved>>
    BY DEF Get, fileVars, ghostVars
  <1>2. Current(s) # None
    BY DEF Get, Found
  <1>3. \A t \in Sessions : Current(t)' = Current(t)
    BY <1>1, <1>2 DEF Current, StoreInv, TypeOK
  <1> QED  BY <1>1, <1>3, SameRetained

LEMMA AppendRetained ==
  ASSUME StoreInv, HistoryRetained, NEW s \in Sessions, NEW kind \in Kinds,
         AppendMessage(s, kind)
  PROVE  HistoryRetained'
  <1> DEFINE h == history[s]
             new == [n |-> Len(h) + 1, kind |-> kind, truncated |-> FALSE]
             doc == Appended(s, kind)
  <1>1. Found(s) /\ Current(s) \in Docs /\ Current(s) # None /\ TypeOK
    BY FoundIs, DocsAreNotNone DEF AppendMessage, StoreInv
  <1>2. h \in Seq(Kinds) /\ saved[s] \in 0..Len(h)
    BY <1>1 DEF TypeOK, StoreInv, Counted
  <1>3. doc \in Docs /\ doc.messages = Truncate(Append(Current(s).messages, new))
    BY <1>1, AppendedIs
  <1>4. cache' = [cache EXCEPT ![s] = doc]
    BY DEF AppendMessage, Appended
  <1>5. history' = [history EXCEPT ![s] = Append(h, kind)] /\ UNCHANGED <<file, saved>>
    BY DEF AppendMessage, fileVars
  <1>6. Current(s).messages = Reading(h)
    BY <1>1, <1>2, ReadsIs DEF HistoryRetained
  <1>7. doc.messages = Reading(Append(h, kind))
    BY <1>2, <1>3, <1>6, ReadingGrows
  <1> HIDE DEF doc, h
  <1>8. Append(h, kind) \in Seq(Kinds)
    BY <1>2
  <1>9. Reads(doc, Append(h, kind))
    BY <1>7, <1>8, ReadsIs
  <1>10. /\ history'[s] = Append(h, kind) /\ \A t \in Sessions : t # s => history'[t] = history[t]
         /\ Current(s)' = doc /\ \A t \in Sessions : t # s => Current(t)' = Current(t)
    <2>1. cache'[s] = doc /\ \A t \in Sessions : t # s => cache'[t] = cache[t]
      BY <1>1, <1>4 DEF TypeOK
    <2>2. doc # None
      BY <1>3, DocsAreNotNone
    <2>3. history'[s] = Append(h, kind) /\ \A t \in Sessions : t # s => history'[t] = history[t]
      BY <1>1, <1>5 DEF TypeOK
    <2>4. \A t \in Sessions : Current(t)' = IF cache'[t] # None THEN cache'[t] ELSE file'[t]
      BY DEF Current
    <2> QED  BY <1>5, <2>1, <2>2, <2>3, <2>4 DEF Current
  <1>11. SubSeq(Append(h, kind), 1, saved[s]) = SubSeq(history[s], 1, saved[s])
    BY <1>2, Prefix DEF h
  <1>12. ASSUME NEW t \in Sessions
         PROVE  /\ Current(t)' # None => Reads(Current(t)', history'[t])
                /\ file'[t] # None => Reads(file'[t], SubSeq(history'[t], 1, saved'[t]))
    <2>1. CASE t = s
      BY <1>5, <1>9, <1>10, <1>11, <2>1 DEF HistoryRetained
    <2>2. CASE t # s
      BY <1>5, <1>10, <2>2 DEF HistoryRetained
    <2> QED  BY <2>1, <2>2
  <1> QED  BY <1>12 DEF HistoryRetained

LEMMA UpdateRetained ==
  ASSUME StoreInv, HistoryRetained, NEW s \in Sessions, NEW archived \in BOOLEAN,
         Update(s, archived)
  PROVE  HistoryRetained'
  <1> DEFINE doc == [Current(s) EXCEPT !.archived = archived]
  <1>1. Found(s) /\ Current(s) \in Docs /\ Current(s) # None /\ TypeOK
    BY FoundIs, DocsAreNotNone DEF Update, StoreInv
  <1>2. doc \in Docs /\ doc.messages = Current(s).messages
    BY <1>1 DEF Docs
  <1>3. cache' = [cache EXCEPT ![s] = doc] /\ UNCHANGED <<file, history, saved>>
    BY DEF Update, fileVars, ghostVars
  <1>4. doc # None
    BY <1>2, DocsAreNotNone
  <1> HIDE DEF doc
  <1>5. Current(s)' = doc /\ \A t \in Sessions : t # s => Current(t)' = Current(t)
    <2>1. cache'[s] = doc /\ \A t \in Sessions : t # s => cache'[t] = cache[t]
      BY <1>1, <1>3 DEF TypeOK
    <2> QED  BY <1>3, <1>4, <2>1 DEF Current
  <1>6. Reads(doc, history[s])
    BY <1>1, <1>2 DEF HistoryRetained, Reads
  <1>7. ASSUME NEW t \in Sessions
        PROVE  /\ Current(t)' # None => Reads(Current(t)', history'[t])
               /\ file'[t] # None => Reads(file'[t], SubSeq(history'[t], 1, saved'[t]))
    <2>1. CASE t = s
      BY <1>3, <1>5, <1>6, <2>1 DEF HistoryRetained
    <2>2. CASE t # s
      BY <1>3, <1>5, <2>2 DEF HistoryRetained
    <2> QED  BY <2>1, <2>2
  <1> QED  BY <1>7 DEF HistoryRetained

LEMMA HardDeleteRetained ==
  ASSUME StoreInv, HistoryRetained, NEW s \in Sessions, HardDelete(s)
  PROVE  HistoryRetained'
  <1>1. /\ cache' = [cache EXCEPT ![s] = None] /\ file' = [file EXCEPT ![s] = None]
        /\ history' = [history EXCEPT ![s] = <<>>] /\ saved' = [saved EXCEPT ![s] = 0]
    BY DEF HardDelete, Bury
  <1>2. \A t \in Sessions :
          /\ cache'[t] = IF t = s THEN None ELSE cache[t]
          /\ file'[t] = IF t = s THEN None ELSE file[t]
          /\ t # s => history'[t] = history[t] /\ saved'[t] = saved[t]
    BY <1>1 DEF StoreInv, TypeOK
  <1>3. Current(s)' = None /\ \A t \in Sessions : t # s => Current(t)' = Current(t)
    BY <1>2 DEF Current
  <1>4. ASSUME NEW t \in Sessions
        PROVE  /\ Current(t)' # None => Reads(Current(t)', history'[t])
               /\ file'[t] # None => Reads(file'[t], SubSeq(history'[t], 1, saved'[t]))
    <2>1. CASE t = s
      BY <1>2, <1>3, <2>1
    <2>2. CASE t # s
      BY <1>2, <1>3, <2>2 DEF HistoryRetained
    <2> QED  BY <2>1, <2>2
  <1> QED  BY <1>4 DEF HistoryRetained

LEMMA WriteFileRetained ==
  ASSUME StoreInv, HistoryRetained, WriteFile
  PROVE  HistoryRetained'
  <1>1. op.at = "write" /\ op # Idle
    BY AtWork DEF WriteFile
  <1>2. op.name # "delete"
    BY <1>1 DEF StoreInv, OpOK
  <1>3. PICK s \in Sessions : s = op.sid
    BY <1>1, <1>2, SavedIs
  <1> DEFINE h == history[s]
  <1>4. /\ Saved # None /\ op.name \in {"create", "change"}
        /\ op.name = "change" => Saved = cache[s]
        /\ op.name = "create" => Saved = EmptyDoc
    BY <1>1, <1>2, <1>3, SavedIs
  <1>5. /\ op.name = "create" => cache[s] = None /\ file[s] = None
        /\ op.name = "change" => cache[s] # None
    BY <1>1, <1>3, <1>4 DEF StoreInv, OpOK
  <1>6. /\ file' = [file EXCEPT ![s] = Saved] /\ saved' = [saved EXCEPT ![s] = Len(h)]
        /\ UNCHANGED <<cache, history>>
    BY <1>3 DEF WriteFile
  <1>7. h \in Seq(Kinds) /\ Len(h) \in 0..Len(h)
    BY DEF StoreInv, TypeOK
  <1>8. SubSeq(h, 1, Len(h)) = h
    BY <1>7, Prefix
  <1>9. Reads(Saved, h)
    <2>1. CASE op.name = "change"
      BY <1>4, <1>5, <2>1 DEF HistoryRetained, Current
    <2>2. CASE op.name = "create"
      <3>1. h = <<>> /\ Saved.messages = <<>>
        BY <1>4, <1>5, <2>2 DEF StoreInv, NoTrace, EmptyDoc
      <3> QED  BY <3>1, ReadsIs, ReadingOfNothing
    <2> QED  BY <1>4, <2>1, <2>2
  <1> HIDE DEF h
  <1>10. /\ file'[s] = Saved /\ saved'[s] = Len(h) /\ history'[s] = h
         /\ \A t \in Sessions : t # s => file'[t] = file[t] /\ saved'[t] = saved[t]
    BY <1>4, <1>6 DEF StoreInv, TypeOK, h
  <1>11. Current(s)' = Saved /\ \A t \in Sessions : t # s => Current(t)' = Current(t)
    <2>1. cache[s] = None \/ cache[s] = Saved
      BY <1>4, <1>5
    <2> QED  BY <1>4, <1>6, <1>10, <2>1 DEF Current
  <1>12. ASSUME NEW t \in Sessions
         PROVE  /\ Current(t)' # None => Reads(Current(t)', history'[t])
                /\ file'[t] # None => Reads(file'[t], SubSeq(history'[t], 1, saved'[t]))
    <2>1. CASE t = s
      BY <1>8, <1>9, <1>10, <1>11, <2>1
    <2>2. CASE t # s
      BY <1>6, <1>10, <1>11, <2>2 DEF HistoryRetained
    <2> QED  BY <2>1, <2>2
  <1> QED  BY <1>12 DEF HistoryRetained

LEMMA SaveReturnsRetained ==
  ASSUME StoreInv, HistoryRetained, SaveReturns
  PROVE  HistoryRetained'
  <1> DEFINE s == op.sid
  <1>1. op.at = "index" /\ op.name \in {"create", "change"} /\ op # Idle
    BY IdleIs DEF SaveReturns
  <1>2. /\ s \in Sessions /\ Saved # None
        /\ op.name = "change" => Saved = cache[s]
        /\ op.name = "create" => Saved = EmptyDoc
    BY <1>1, SavedIs
  <1>3. /\ op.name = "create" => cache[s] = None /\ file[s] = EmptyDoc
        /\ op.name = "change" => cache[s] # None
    BY <1>1, <1>2 DEF StoreInv, OpOK
  <1>4. Saved = Current(s)
    BY <1>1, <1>2, <1>3 DEF Current
  <1>5. cache' = [cache EXCEPT ![s] = Saved] /\ UNCHANGED <<file, history, saved>>
    BY DEF SaveReturns
  <1>6. \A t \in Sessions : Current(t)' = Current(t)
    BY <1>2, <1>4, <1>5 DEF Current, StoreInv, TypeOK
  <1> QED  BY <1>5, <1>6, SameRetained

LEMMA ListReturnsRetained ==
  ASSUME StoreInv, HistoryRetained, ListReturns
  PROVE  HistoryRetained'
  <1>1. /\ cache' = [s \in Sessions |-> IF s \in index THEN Current(s) ELSE cache[s]]
        /\ UNCHANGED <<file, history, saved>>
    BY DEF ListReturns, fileVars, ghostVars
  <1>2. \A t \in Sessions : Current(t)' = Current(t)
    BY <1>1 DEF Current
  <1> QED  BY <1>1, <1>2, SameRetained

(* What a crash leaves of the history is what the file accounts for.       *)
LEMMA CrashRetained ==
  ASSUME StoreInv, HistoryRetained, Crash
  PROVE  HistoryRetained'
  <1>1. /\ cache' = [s \in Sessions |-> None] /\ UNCHANGED <<file, saved>>
        /\ history' = [s \in Sessions |-> SubSeq(history[s], 1, saved[s])]
    BY DEF Crash, fileVars
  <1>2. ASSUME NEW t \in Sessions
        PROVE  /\ Current(t)' # None => Reads(Current(t)', history'[t])
               /\ file'[t] # None => Reads(file'[t], SubSeq(history'[t], 1, saved'[t]))
    <2>1. history[t] \in Seq(Kinds) /\ saved[t] \in 0..Len(history[t])
      BY DEF StoreInv, TypeOK, Counted
    <2>2. SubSeq(SubSeq(history[t], 1, saved[t]), 1, saved[t]) = SubSeq(history[t], 1, saved[t])
      BY <2>1, Prefix
    <2>3. Current(t)' = file[t] /\ history'[t] = SubSeq(history[t], 1, saved[t])
      BY <1>1 DEF Current
    <2> QED  BY <1>1, <2>2, <2>3 DEF HistoryRetained
  <1> QED  BY <1>2 DEF HistoryRetained

LEMMA NextRetained ==
  ASSUME StoreInv, HistoryRetained, [Next]_vars
  PROVE  HistoryRetained'
  <1>1. ASSUME UNCHANGED <<file, cache, history, saved>> PROVE HistoryRetained'
    BY <1>1, SameRetained DEF Current
  <1>2. ASSUME NEW s \in Sessions, Get(s) PROVE HistoryRetained'
    BY <1>2, GetRetained
  <1>3. ASSUME NEW s \in Sessions, Create(s) PROVE HistoryRetained'
    BY <1>1, <1>3 DEF Create, fileVars, ghostVars
  <1>4. ASSUME NEW s \in Sessions, HardDelete(s) PROVE HistoryRetained'
    BY <1>4, HardDeleteRetained
  <1>5. ASSUME NEW s \in Sessions, NEW kind \in Kinds, AppendMessage(s, kind)
        PROVE  HistoryRetained'
    BY <1>5, AppendRetained
  <1>6. ASSUME NEW s \in Sessions, NEW archived \in BOOLEAN, Update(s, archived)
        PROVE  HistoryRetained'
    BY <1>6, UpdateRetained
  <1>7. CASE ListSummaries
    BY <1>1, <1>7 DEF ListSummaries, fileVars, ghostVars
  <1>8. CASE WriteFile
    BY <1>8, WriteFileRetained
  <1>9. CASE EnsureIndex
    BY <1>1, <1>9 DEF EnsureIndex, ghostVars
  <1>10. CASE SaveReturns
    BY <1>10, SaveReturnsRetained
  <1>11. CASE DeleteReturns
    BY <1>1, <1>11 DEF DeleteReturns, ghostVars
  <1>12. CASE ListReturns
    BY <1>12, ListReturnsRetained
  <1>13. CASE OpFails
    BY <1>1, <1>13 DEF OpFails, fileVars
  <1>14. CASE Crash
    BY <1>14, CrashRetained
  <1>15. CASE UNCHANGED vars
    BY <1>1, <1>15 DEF vars, fileVars, ghostVars
  <1> QED
    BY <1>2, <1>3, <1>4, <1>5, <1>6, <1>7, <1>8, <1>9, <1>10, <1>11, <1>12, <1>13, <1>14, <1>15
    DEF Next

(* append_message truncates message by message, through saves that fail    *)
(* and restarts; what is read, and what is stored, is nevertheless what    *)
(* the cap applied once to the whole history leaves: every system message, *)
(* the newest others in order, and the mark on the first of those.         *)
THEOREM HistoryAlwaysRetained == Spec => []HistoryRetained
  <1>1. Init => HistoryRetained
    BY InitRetained
  <1>2. StoreInv /\ HistoryRetained /\ [Next]_vars => HistoryRetained'
    BY NextRetained
  <1> QED  BY <1>1, <1>2, StoreAlways, PTL DEF Spec
=============================================================================

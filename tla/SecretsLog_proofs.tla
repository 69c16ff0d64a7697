-------------------------- MODULE SecretsLog_proofs --------------------------
(***************************************************************************)
(* Type correctness, LogTruthful, TombstonesNeeded and CacheFresh, for any *)
(* services, names and values and logs of any length.                      *)
(***************************************************************************)
EXTENDS SecretsLog, WellFoundedInduction, TLAPS

-----------------------------------------------------------------------------
(* The inductive invariant                                                 *)

(* The last line about a name is one that may be read of it.               *)
NameInv(n) ==
  \/ "none" \in MayBe(n) /\ \A k \in DOMAIN log : log[k].name # n
  \/ \E k \in DOMAIN log :
       /\ log[k].name = n /\ log[k].value \in MayBe(n)
       /\ \A j \in DOMAIN log : j > k => log[j].name # n

LogInv ==
  /\ ~failed => ~Raises /\ ~unfinished
  /\ ~Raises => \A n \in Names : NameInv(n)

(* While the log can be read, so is what a service has cached of a name    *)
(* that nobody else changed.                                               *)
CacheInv ==
  ~Raises => \A s \in Services : \A n \in Names \ behind[s] :
    cache[s][n] \in {"unknown"} \union MayBe(n)

IInv == TypeOK /\ LogInv /\ TombstonesNeeded /\ CacheInv

-----------------------------------------------------------------------------
(* Lemmas about the log                                                    *)

(* A record is not garbage and has a value of its own.                     *)
LEMMA RecordsParse == \A r \in Records : r # Garbage /\ r.value # "unknown"
  BY SecretsAssumption DEF Records, Garbage

(* The log has as many lines as it is long, and a last one if unfinished.  *)
LEMMA Lengths ==
  ASSUME TypeOK
  PROVE  /\ Len(log) \in Nat /\ DOMAIN log = 1..Len(log)
         /\ unfinished => Len(log) \in DOMAIN log
         /\ \A k \in DOMAIN log : log[k] \in Lines
  BY DEF TypeOK

Less == OpToRel(<, Nat)

(* A set of naturals that is not empty has a smallest member.              *)
LEMMA SmallestExists ==
  ASSUME NEW S \in SUBSET Nat, S # {}
  PROVE  \E k \in S : \A j \in S : k <= j
  <1>1. IsWellFoundedOn(Less, Nat)
    BY NatLessThanWellFounded DEF Less
  <1>2. PICK k \in S : \A j \in S : <<j, k>> \notin Less
    BY <1>1, WFMin
  <1>3. ASSUME NEW j \in S PROVE k <= j
    <2>1. ~(j < k)
      BY <1>2 DEF Less, OpToRel
    <2> QED  BY <2>1
  <1> QED  BY <1>3

(* A set of lines that is not empty has a latest one.                      *)
LEMMA LatestExists ==
  ASSUME NEW n \in Nat, NEW S \in SUBSET (1..n), S # {}
  PROVE  Latest(S) \in S /\ \A j \in S : j <= Latest(S)
  <1> DEFINE Bounds == {k \in Nat : \A j \in S : j <= k}
  <1>1. n \in Bounds /\ Bounds \in SUBSET Nat
    OBVIOUS
  <1>2. \E k \in Bounds : \A m \in Bounds : k <= m
    <2> HIDE DEF Bounds
    <2> QED  BY <1>1, SmallestExists
  <1> PICK k \in Bounds : \A m \in Bounds : k <= m
    BY <1>2
  <1>3. k \in S
    <2> SUFFICES ASSUME k \notin S PROVE FALSE
      OBVIOUS
    <2>1. k \in Nat /\ \A j \in S : j \in 1..k /\ j # k
      OBVIOUS
    <2>2. PICK j \in S : TRUE
      OBVIOUS
    <2>3. k - 1 \in Nat
      BY <2>1, <2>2
    <2>4. \A i \in S : i <= k - 1
      BY <2>1
    <2>5. k - 1 \in Bounds
      BY <2>3, <2>4
    <2> QED  BY <2>1, <2>5
  <1>4. \E m \in S : \A j \in S : j <= m
    BY <1>3
  <1> QED  BY <1>4 DEF Latest

(* Replay returns what may be read.                                        *)
LEMMA ReplayedTruth ==
  ASSUME TypeOK, LogInv, ~Raises, NEW n \in Names
  PROVE  Shown(Replayed(n)) \in MayBe(n)
  <1>1. Read = DOMAIN log /\ DOMAIN log = 1..Len(log) /\ Len(log) \in Nat
    BY Lengths DEF Read, Raises
  <1>2. CASE "none" \in MayBe(n) /\ \A k \in DOMAIN log : log[k].name # n
    <2>1. About(n, Read) = {}
      BY <1>1, <1>2 DEF About
    <2> QED  BY <1>2, <2>1 DEF Replayed, Shown
  <1>3. ASSUME NEW k \in DOMAIN log, log[k].name = n, log[k].value \in MayBe(n),
               \A j \in DOMAIN log : j > k => log[j].name # n
        PROVE  Shown(Replayed(n)) \in MayBe(n)
    <2>1. k \in About(n, Read) /\ \A j \in About(n, Read) : j <= k
      BY <1>1, <1>3 DEF About
    <2>2. About(n, Read) \subseteq Nat
      BY <1>1 DEF About
    <2>3. Latest(About(n, Read)) = k
      BY <2>1, <2>2 DEF Latest
    <2>4. Replayed(n) = log[k].value
      BY <2>1, <2>3 DEF Replayed
    <2>5. log[k].value # "unknown"
      BY <1>3, SecretsAssumption DEF MayBe, TypeOK
    <2> QED  BY <1>3, <2>4, <2>5 DEF Shown
  <1> QED  BY <1>2, <1>3 DEF LogInv, NameInv

(* An append either adds the record at the end or leaves garbage, and an   *)
(* unfinished line always becomes garbage.                                 *)
LEMMA Appends ==
  ASSUME TypeOK, NEW r \in Records, Write(r) \/ WriteFails(r)
  PROVE  \/ ~unfinished /\ log' = Append(log, r)
         \/ ~unfinished /\ log' = Append(log, Garbage)
         \/ unfinished /\ log' = [log EXCEPT ![Len(log)] = Garbage]
  BY DEF Write, WriteFails, Extend, Line

(* While the log can still be read, an append was of the record alone.     *)
LEMMA ReadableAppends ==
  ASSUME TypeOK, NEW r \in Records, Write(r) \/ WriteFails(r), ~Raises'
  PROVE  ~unfinished /\ log' = Append(log, r) /\ ~Raises
  <1>1. Len(log) \in Nat /\ (unfinished => Len(log) \in DOMAIN log)
    BY Lengths
  <1>2. log' # Append(log, Garbage)
    <2> SUFFICES ASSUME log' = Append(log, Garbage) PROVE FALSE
      OBVIOUS
    <2>1. Len(log) + 1 \in DOMAIN log' /\ log'[Len(log) + 1] = Garbage
      BY DEF TypeOK, Records
    <2> QED  BY <2>1 DEF Raises
  <1>3. ~unfinished
    BY <1>1, Appends DEF Raises
  <1>4. log' = Append(log, r)
    BY <1>2, <1>3, Appends
  <1>5. ~Raises
    <2>1. \A k \in DOMAIN log : k \in DOMAIN log' /\ log'[k] = log[k]
      BY <1>4 DEF TypeOK
    <2> QED  BY <2>1 DEF Raises
  <1> QED  BY <1>3, <1>4, <1>5
-----------------------------------------------------------------------------
(* The steps                                                               *)

(* The initial states satisfy the invariant.                               *)
LEMMA InitInv == Init => IInv
  <1> SUFFICES ASSUME Init PROVE IInv
    OBVIOUS
  <1>1. TypeOK
    <2>1. log \in Seq(Lines) /\ Len(log) = 0
      BY DEF Init
    <2>2. Len(log) <= MaxLines
      BY <2>1, SecretsAssumption
    <2>3. cache \in [Services -> [Names -> Values \union {"none", "unknown"}]]
      BY DEF Init
    <2> QED  BY <2>1, <2>2, <2>3 DEF Init, TypeOK
  <1>2. ~Raises /\ DOMAIN log = {}
    BY DEF Init, Raises
  <1>3. LogInv
    BY <1>2 DEF Init, LogInv, NameInv, MayBe
  <1>4. TombstonesNeeded
    BY <1>2 DEF TombstonesNeeded
  <1>5. CacheInv
    BY DEF Init, CacheInv
  <1> QED  BY <1>1, <1>3, <1>4, <1>5 DEF IInv

(* Appends keep the log's lines and length in bounds.                      *)
LEMMA AppendTyped ==
  ASSUME TypeOK, NEW r \in Records, Write(r) \/ WriteFails(r)
  PROVE  /\ log' \in Seq(Lines) /\ Len(log') <= MaxLines
         /\ log' # <<>> /\ unfinished' \in BOOLEAN
  <1>1. r \in Lines /\ Garbage \in Lines
    BY DEF Lines
  <1>2. log \in Seq(Lines) /\ Len(log) \in Nat /\ Len(log) < MaxLines /\ MaxLines \in Nat
    BY SecretsAssumption DEF TypeOK, Write, WriteFails, Room
  <1>3. \A line \in Lines : /\ Append(log, line) \in Seq(Lines)
                            /\ Len(Append(log, line)) = Len(log) + 1
    BY <1>2
  <1>4. unfinished => /\ [log EXCEPT ![Len(log)] = Garbage] \in Seq(Lines)
                      /\ Len([log EXCEPT ![Len(log)] = Garbage]) = Len(log)
                      /\ Len(log) # 0
    BY <1>1, <1>2, Lengths
  <1>5. log' \in Seq(Lines) /\ Len(log') <= MaxLines /\ Len(log') # 0
    <2>1. CASE log' = Append(log, r) \/ log' = Append(log, Garbage)
      BY <1>1, <1>2, <1>3, <2>1
    <2>2. CASE unfinished /\ log' = [log EXCEPT ![Len(log)] = Garbage]
      BY <1>2, <1>4, <2>2
    <2> QED  BY <2>1, <2>2, Appends
  <1>6. log' # <<>>
    BY <1>5
  <1>7. unfinished' \in BOOLEAN
    BY DEF Write, WriteFails
  <1> QED  BY <1>5, <1>6, <1>7

(* What replay finds is typed.                                             *)
LEMMA ReplayTyped ==
  ASSUME TypeOK, NEW n \in Names
  PROVE  Replayed(n) \in Values \union {"none", "unknown"}
  <1> SUFFICES ASSUME About(n, Read) # {}
               PROVE  log[Latest(About(n, Read))].value \in Values \union {"none"}
    BY DEF Replayed
  <1>1. About(n, Read) \in SUBSET (1..Len(log)) /\ Len(log) \in Nat
    BY Lengths DEF About, Read
  <1>2. Latest(About(n, Read)) \in About(n, Read)
    BY <1>1, LatestExists
  <1>3. PICK k \in DOMAIN log : k = Latest(About(n, Read)) /\ log[k].name = n
    BY <1>2 DEF About, Read
  <1>4. log[k] \in Records
    BY <1>3, Lengths, SecretsAssumption DEF Lines, Garbage
  <1> QED  BY <1>3, <1>4 DEF Records

(* An append of what may be read of its name from then on keeps the log    *)
(* truthful, whether it returns or raises.                                 *)
LEMMA AppendKeepsLog ==
  ASSUME TypeOK, LogInv, NEW n \in Names, NEW value \in Values \union {"none"},
         \/ Write([name |-> n, value |-> value]) /\ UNCHANGED failed
         \/ WriteFails([name |-> n, value |-> value]),
         value \in MayBe(n)', \A m \in Names \ {n} : MayBe(m)' = MayBe(m)
  PROVE  LogInv'
  <1> DEFINE r == [name |-> n, value |-> value]
  <1>1. r \in Records /\ (Write(r) \/ WriteFails(r))
    BY DEF Records
  <1>2. ASSUME ~Raises', NEW m \in Names PROVE NameInv(m)'
    <2>1. ~unfinished /\ log' = Append(log, r) /\ ~Raises
      <3> HIDE DEF r
      <3> QED  BY <1>1, <1>2, ReadableAppends
    <2>2. Len(log) \in Nat /\ DOMAIN log = 1..Len(log) /\ DOMAIN log' = 1..(Len(log) + 1)
      BY <2>1, Lengths DEF TypeOK
    <2>3. log'[Len(log) + 1] = r /\ \A k \in DOMAIN log : log'[k] = log[k]
      BY <2>1 DEF TypeOK
    <2>4. CASE m = n
      BY <2>2, <2>3, <2>4 DEF NameInv
    <2>5. CASE m # n
      <3>1. NameInv(m) /\ MayBe(m)' = MayBe(m)
        BY <2>1, <2>5 DEF LogInv
      <3>2. \A k \in DOMAIN log' : k \in DOMAIN log \/ log'[k].name # m
        BY <2>2, <2>3, <2>5
      <3>3. \A k \in DOMAIN log : k \in DOMAIN log' /\ log'[k] = log[k]
        BY <2>2, <2>3
      <3>4. CASE "none" \in MayBe(m) /\ \A k \in DOMAIN log : log[k].name # m
        BY <3>1, <3>2, <3>3, <3>4 DEF NameInv
      <3>5. ASSUME NEW k \in DOMAIN log, log[k].name = m, log[k].value \in MayBe(m),
                   \A j \in DOMAIN log : j > k => log[j].name # m
            PROVE  NameInv(m)'
        BY <3>1, <3>2, <3>3, <3>5 DEF NameInv
      <3> QED  BY <3>1, <3>4, <3>5 DEF NameInv
    <2> QED  BY <2>4, <2>5
  <1>3. ASSUME ~failed' PROVE ~Raises' /\ ~unfinished'
    <2>1. ~failed /\ unfinished' = FALSE /\ Extend(Line(r))
      BY <1>1, <1>3 DEF Write, WriteFails
    <2>2. ~Raises /\ ~unfinished
      BY <2>1 DEF LogInv
    <2>3. log' = Append(log, r)
      BY <2>1, <2>2 DEF Extend, Line
    <2> QED  BY <1>1, <2>1, <2>2, <2>3, RecordsParse DEF Raises, TypeOK
  <1> QED  BY <1>2, <1>3 DEF LogInv

(* A name that replay finds alive has a last line with a value.            *)
LEMMA LiveLine ==
  ASSUME TypeOK, NEW n \in Names, ~Raises, Shown(Replayed(n)) # "none"
  PROVE  \E j \in 1..Len(log) :
           /\ log[j].name = n /\ log[j].value # "none"
           /\ \A i \in (j + 1)..Len(log) : log[i].name # n
  <1>1. Read = 1..Len(log) /\ Len(log) \in Nat
    BY Lengths DEF Read, Raises
  <1>2. About(n, Read) # {}
    BY DEF Replayed, Shown
  <1>3. About(n, Read) \in SUBSET (1..Len(log))
    BY <1>1 DEF About
  <1>4. PICK j \in About(n, Read) : j = Latest(About(n, Read)) /\ \A i \in About(n, Read) : i <= j
    BY <1>1, <1>2, <1>3, LatestExists
  <1>5. j \in 1..Len(log) /\ log[j].name = n
    BY <1>1, <1>4 DEF About
  <1>6. log[j].value # "none"
    BY <1>2, <1>4 DEF Replayed, Shown
  <1>7. \A i \in (j + 1)..Len(log) : log[i].name # n
    <2> SUFFICES ASSUME NEW i \in (j + 1)..Len(log), log[i].name = n PROVE FALSE
      OBVIOUS
    <2>1. i \in 1..Len(log) /\ i > j
      BY <1>5, <1>1
    <2>2. i \in About(n, Read)
      BY <1>1, <2>1 DEF About
    <2> QED  BY <1>1, <1>4, <1>5, <2>1, <2>2
  <1> QED  BY <1>5, <1>6, <1>7

(* Appending anything but a tombstone of a name that is not alive keeps    *)
(* tombstones needed.                                                      *)
LEMMA AppendKeepsTombstones ==
  ASSUME TypeOK, TombstonesNeeded, NEW r \in Records, Write(r) \/ WriteFails(r),
         r.value = "none" =>
           \E j \in 1..Len(log) : /\ log[j].name = r.name /\ log[j].value # "none"
                                  /\ \A i \in (j + 1)..Len(log) : log[i].name # r.name
  PROVE  TombstonesNeeded'
  <1>1. Len(log) \in Nat /\ DOMAIN log = 1..Len(log)
    BY Lengths
  <1>2. Garbage.value # "none"
    BY DEF Garbage
  <1>3. ASSUME NEW line \in {r, Garbage}, log' = Append(log, line) PROVE TombstonesNeeded'
    <2>1. /\ DOMAIN log' = 1..(Len(log) + 1) /\ log'[Len(log) + 1] = line
          /\ \A k \in 1..Len(log) : log'[k] = log[k]
      BY <1>3 DEF TypeOK
    <2> SUFFICES ASSUME NEW k \in DOMAIN log', log'[k].value = "none"
                 PROVE  \E j \in 1..(k - 1) :
                          /\ log'[j].name = log'[k].name /\ log'[j].value # "none"
                          /\ \A i \in (j + 1)..(k - 1) : log'[i].name # log'[k].name
      BY DEF TombstonesNeeded
    <2>2. CASE k \in 1..Len(log)
      BY <1>1, <2>1, <2>2 DEF TombstonesNeeded
    <2>3. CASE k = Len(log) + 1
      BY <1>1, <1>2, <2>1, <2>3
    <2> QED  BY <1>1, <2>1, <2>2, <2>3
  <1>4. CASE unfinished /\ log' = [log EXCEPT ![Len(log)] = Garbage]
    <2>0. Len(log) \in DOMAIN log
      BY <1>4, Lengths
    <2>1. /\ DOMAIN log' = 1..Len(log) /\ log'[Len(log)] = Garbage
          /\ \A k \in 1..(Len(log) - 1) : log'[k] = log[k]
      <3>1. DOMAIN log' = DOMAIN log
        BY <1>4
      <3>2. log'[Len(log)] = Garbage
        BY <1>4, <2>0
      <3>3. \A m \in Nat : \A k \in 1..(m - 1) : k \in 1..m /\ k # m
        OBVIOUS
      <3> QED  BY <1>1, <1>4, <3>1, <3>2, <3>3
    <2> SUFFICES ASSUME NEW k \in DOMAIN log', log'[k].value = "none"
                 PROVE  \E j \in 1..(k - 1) :
                          /\ log'[j].name = log'[k].name /\ log'[j].value # "none"
                          /\ \A i \in (j + 1)..(k - 1) : log'[i].name # log'[k].name
      BY DEF TombstonesNeeded
    <2>2. k \in 1..(Len(log) - 1)
      BY <1>1, <1>2, <2>1
    <2>3. PICK j \in 1..(k - 1) :
                 /\ log[j].name = log[k].name /\ log[j].value # "none"
                 /\ \A i \in (j + 1)..(k - 1) : log[i].name # log[k].name
      BY <1>1, <2>1, <2>2 DEF TombstonesNeeded
    <2> QED  BY <1>1, <2>1, <2>2, <2>3
  <1> QED  BY <1>3, <1>4, Appends

(* Every step keeps the types.                                             *)
LEMMA TypesKept ==
  ASSUME TypeOK, [Next]_vars
  PROVE  TypeOK'
  <1> DEFINE Caches == [Services -> [Names -> Values \union {"none", "unknown"}]]
  <1>1. \A n \in Names : Replayed(n) \in Values \union {"none", "unknown"}
    BY ReplayTyped
  <1>2. [m \in Names |-> Replayed(m)] \in [Names -> Values \union {"none", "unknown"}]
    BY <1>1
  <1>3. ASSUME NEW r \in Records, Write(r) \/ WriteFails(r)
        PROVE  /\ log' \in Seq(Lines) /\ Len(log') <= MaxLines
               /\ unfinished' \in BOOLEAN /\ (unfinished' => log' # <<>>)
    BY <1>3, AppendTyped
  <1>4. ASSUME NEW s \in Services, NEW n \in Names, NEW value \in Values, Put(s, n, value)
        PROVE  TypeOK'
    <2>1. [name |-> n, value |-> value] \in Records
      BY DEF Records
    <2>2. cache' \in Caches
      BY <1>4 DEF Put, TypeOK
    <2> QED  BY <1>3, <1>4, <2>1, <2>2 DEF Put, Acknowledge, TypeOK
  <1>5. ASSUME NEW s \in Services, NEW n \in Names, NEW value \in Values, PutFails(s, n, value)
        PROVE  TypeOK'
    <2>1. [name |-> n, value |-> value] \in Records
      BY DEF Records
    <2>2. failed' \in BOOLEAN
      BY <1>5 DEF PutFails, WriteFails, TypeOK
    <2> QED  BY <1>3, <1>5, <2>1, <2>2 DEF PutFails, Unacknowledged, TypeOK
  <1>6. ASSUME NEW s \in Services, Replay(s) PROVE TypeOK'
    <2>1. cache' \in Caches
      BY <1>2, <1>6 DEF Replay, TypeOK
    <2> QED  BY <1>6, <2>1 DEF Replay, TypeOK
  <1>7. ASSUME NEW s \in Services, NEW n \in Names, Delete(s, n) PROVE TypeOK'
    <2>1. [name |-> n, value |-> "none"] \in Records
      BY DEF Records
    <2>2. cache' \in Caches
      BY <1>2, <1>7 DEF Delete, TypeOK
    <2> QED  BY <1>3, <1>7, <2>1, <2>2 DEF Delete, TypeOK
  <1>8. ASSUME NEW s \in Services, NEW n \in Names, DeleteFails(s, n) PROVE TypeOK'
    <2>1. [name |-> n, value |-> "none"] \in Records
      BY DEF Records
    <2>2. cache' \in Caches
      BY <1>2, <1>8 DEF DeleteFails, TypeOK
    <2>3. failed' \in BOOLEAN
      BY <1>8 DEF DeleteFails, WriteFails, TypeOK
    <2> QED  BY <1>3, <1>8, <2>1, <2>2, <2>3 DEF DeleteFails, Unacknowledged, TypeOK
  <1>9. CASE Restart
    BY <1>9 DEF Restart, TypeOK
  <1>10. CASE UNCHANGED vars
    BY <1>10 DEF vars, ghostVars, TypeOK
  <1> QED
    BY <1>4, <1>5, <1>6, <1>7, <1>8, <1>9, <1>10 DEF Next, Get, List, DeleteNothing

(* What a step makes of what may be read: it is the value acknowledged, or *)
(* the value tried is one more.                                            *)
LEMMA Acknowledged ==
  ASSUME TypeOK, NEW n \in Names, NEW value \in Values \union {"none"},
         truth' = [truth EXCEPT ![n] = value], tried' = [tried EXCEPT ![n] = {}]
  PROVE  MayBe(n)' = {value} /\ \A m \in Names \ {n} : MayBe(m)' = MayBe(m)
  BY DEF MayBe, TypeOK

LEMMA Tried ==
  ASSUME TypeOK, NEW n \in Names, NEW value \in Values \union {"none"},
         Unacknowledged(n, value)
  PROVE  /\ MayBe(n)' = MayBe(n) \union {value}
         /\ \A m \in Names \ {n} : MayBe(m)' = MayBe(m)
  BY DEF MayBe, Unacknowledged, TypeOK

(* Every step keeps the log truthful.                                      *)
LEMMA LogKept ==
  ASSUME TypeOK, LogInv, [Next]_vars
  PROVE  LogInv'
  <1>1. ASSUME NEW s \in Services, NEW n \in Names, NEW value \in Values, Put(s, n, value)
        PROVE  LogInv'
    BY <1>1, Acknowledged, AppendKeepsLog DEF Put, Acknowledge
  <1>2. ASSUME NEW s \in Services, NEW n \in Names, NEW value \in Values, PutFails(s, n, value)
        PROVE  LogInv'
    BY <1>2, Tried, AppendKeepsLog DEF PutFails
  <1>3. ASSUME NEW s \in Services, NEW n \in Names, Delete(s, n)
        PROVE  LogInv'
    BY <1>3, Acknowledged, AppendKeepsLog DEF Delete
  <1>4. ASSUME NEW s \in Services, NEW n \in Names, DeleteFails(s, n)
        PROVE  LogInv'
    BY <1>4, Tried, AppendKeepsLog DEF DeleteFails
  <1>5. CASE UNCHANGED <<log, unfinished, truth, tried, failed>>
    BY <1>5 DEF LogInv, NameInv, MayBe, Raises
  <1> QED
    BY <1>1, <1>2, <1>3, <1>4, <1>5
    DEF Next, Get, List, DeleteNothing, Replay, Restart, vars, ghostVars

(* Every step keeps tombstones needed.                                     *)
LEMMA TombstonesKept ==
  ASSUME TypeOK, TombstonesNeeded, [Next]_vars
  PROVE  TombstonesNeeded'
  <1>1. ASSUME NEW s \in Services, NEW n \in Names, NEW value \in Values,
               Put(s, n, value) \/ PutFails(s, n, value)
        PROVE  TombstonesNeeded'
    <2> DEFINE r == [name |-> n, value |-> value]
    <2>1. r \in Records /\ r.value # "none"
      BY SecretsAssumption DEF Records
    <2>2. Write(r) \/ WriteFails(r)
      BY <1>1 DEF Put, PutFails
    <2> QED  BY <2>1, <2>2, AppendKeepsTombstones
  <1>2. ASSUME NEW s \in Services, NEW n \in Names, Delete(s, n) \/ DeleteFails(s, n)
        PROVE  TombstonesNeeded'
    <2> DEFINE r == [name |-> n, value |-> "none"]
    <2>1. r \in Records /\ r.name = n
      BY DEF Records
    <2>2. Write(r) \/ WriteFails(r)
      BY <1>2 DEF Delete, DeleteFails
    <2>3. \E j \in 1..Len(log) : /\ log[j].name = n /\ log[j].value # "none"
                                 /\ \A i \in (j + 1)..Len(log) : log[i].name # n
      BY <1>2, LiveLine DEF Delete, DeleteFails
    <2> HIDE DEF r
    <2> QED  BY <2>1, <2>2, <2>3, AppendKeepsTombstones
  <1>3. CASE UNCHANGED log
    BY <1>3 DEF TombstonesNeeded
  <1> QED
    BY <1>1, <1>2, <1>3
    DEF Next, Get, List, DeleteNothing, Replay, Restart, vars, ghostVars

(* Every step keeps caches fresh.                                          *)
LEMMA CachesKept ==
  ASSUME TypeOK, LogInv, CacheInv, [Next]_vars
  PROVE  CacheInv'
  <1> SUFFICES ASSUME ~Raises', NEW r \in Services, NEW m \in Names, m \notin behind'[r]
               PROVE  cache'[r][m] \in {"unknown"} \union MayBe(m)'
    BY DEF CacheInv
  <1>1. ~Raises /\ m \notin behind[r] => cache[r][m] \in {"unknown"} \union MayBe(m)
    BY DEF CacheInv
  <1>2. ~Raises => Replayed(m) \in {"unknown"} \union MayBe(m)
    BY ReplayedTruth DEF Shown
  <1>3. ASSUME NEW s \in Services, NEW n \in Names, NEW value \in Values, Put(s, n, value)
        PROVE  cache'[r][m] \in {"unknown"} \union MayBe(m)'
    <2>1. [name |-> n, value |-> value] \in Records
      BY DEF Records
    <2>2. ~Raises
      BY <1>3, <2>1, ReadableAppends DEF Put
    <2>3. MayBe(n)' = {value} /\ (m # n => MayBe(m)' = MayBe(m))
      BY <1>3, Acknowledged DEF Put, Acknowledge
    <2>4. CASE m # n
      BY <1>1, <1>3, <2>2, <2>3, <2>4 DEF Put, Acknowledge, TypeOK
    <2>5. CASE m = n /\ r = s
      BY <1>3, <2>3, <2>5 DEF Put, TypeOK
    <2>6. CASE m = n /\ r # s
      BY <1>3, <2>6 DEF Put, Acknowledge, TypeOK
    <2> QED  BY <2>4, <2>5, <2>6
  <1>4. ASSUME NEW s \in Services, NEW n \in Names, NEW value \in Values, PutFails(s, n, value)
        PROVE  cache'[r][m] \in {"unknown"} \union MayBe(m)'
    <2>1. [name |-> n, value |-> value] \in Records
      BY DEF Records
    <2>2. ~Raises
      BY <1>4, <2>1, ReadableAppends DEF PutFails
    <2>3. MayBe(m) \subseteq MayBe(m)'
      BY <1>4, Tried DEF PutFails
    <2> QED  BY <1>1, <1>4, <2>2, <2>3 DEF PutFails
  <1>5. ASSUME NEW s \in Services, Replay(s)
        PROVE  cache'[r][m] \in {"unknown"} \union MayBe(m)'
    <2>1. ~Raises /\ MayBe(m)' = MayBe(m)
      BY <1>5 DEF Replay, Raises, MayBe
    <2>2. CASE r = s
      BY <1>2, <1>5, <2>1, <2>2 DEF Replay, TypeOK
    <2>3. CASE r # s
      BY <1>1, <1>5, <2>1, <2>3 DEF Replay, TypeOK
    <2> QED  BY <2>2, <2>3
  <1>6. ASSUME NEW s \in Services, NEW n \in Names, Delete(s, n)
        PROVE  cache'[r][m] \in {"unknown"} \union MayBe(m)'
    <2>1. [name |-> n, value |-> "none"] \in Records
      BY DEF Records
    <2>2. ~Raises
      BY <1>6, <2>1, ReadableAppends DEF Delete
    <2>3. MayBe(n)' = {"none"} /\ (m # n => MayBe(m)' = MayBe(m))
      BY <1>6, Acknowledged DEF Delete
    <2>4. CASE r = s /\ m = n
      BY <1>6, <2>3, <2>4 DEF Delete, TypeOK
    <2>5. CASE r = s /\ m # n
      BY <1>2, <1>6, <2>2, <2>3, <2>5 DEF Delete, TypeOK
    <2>6. CASE r # s
      BY <1>1, <1>6, <2>2, <2>3, <2>6 DEF Delete, TypeOK
    <2> QED  BY <2>4, <2>5, <2>6
  <1>7. ASSUME NEW s \in Services, NEW n \in Names, DeleteFails(s, n)
        PROVE  cache'[r][m] \in {"unknown"} \union MayBe(m)'
    <2>1. [name |-> n, value |-> "none"] \in Records
      BY DEF Records
    <2>2. ~Raises
      BY <1>7, <2>1, ReadableAppends DEF DeleteFails
    <2>3. MayBe(m) \subseteq MayBe(m)'
      BY <1>7, Tried DEF DeleteFails
    <2>4. CASE r = s
      BY <1>2, <1>7, <2>2, <2>3, <2>4 DEF DeleteFails, TypeOK
    <2>5. CASE r # s
      BY <1>1, <1>7, <2>2, <2>3, <2>5 DEF DeleteFails, TypeOK
    <2> QED  BY <2>4, <2>5
  <1>8. CASE Restart
    BY <1>8 DEF Restart
  <1>9. CASE UNCHANGED vars
    <2>1. ~Raises /\ MayBe(m)' = MayBe(m)
      BY <1>9 DEF vars, ghostVars, Raises, MayBe
    <2> QED  BY <1>1, <1>9, <2>1 DEF vars, ghostVars
  <1> QED
    BY <1>3, <1>4, <1>5, <1>6, <1>7, <1>8, <1>9 DEF Next, Get, List, DeleteNothing

-----------------------------------------------------------------------------
(* The theorems                                                            *)

(* The invariant is inductive.                                             *)
LEMMA Invariance == Spec => []IInv
  <1>1. IInv /\ [Next]_vars => IInv'
    BY TypesKept, LogKept, TombstonesKept, CachesKept DEF IInv
  <1> QED  BY InitInv, <1>1, PTL DEF Spec

(* Types hold.                                                             *)
THEOREM TypeCorrect == Spec => []TypeOK
  <1>1. IInv => TypeOK
    BY DEF IInv
  <1> QED  BY Invariance, <1>1, PTL

(* However the services' calls interleave, raise, are killed and are       *)
(* followed by restarts, the log is readable unless an append was cut      *)
(* short, and a readable log says of a name what was last acknowledged or  *)
(* what a call that raised since then tried to make of it.                 *)
THEOREM LogTruthfulHolds == Spec => []LogTruthful
  <1>1. IInv => LogTruthful
    BY ReplayedTruth DEF IInv, LogInv, LogTruthful
  <1> QED  BY Invariance, <1>1, PTL

(* Tombstones are written for live names only.                             *)
THEOREM TombstonesNeededHolds == Spec => []TombstonesNeeded
  <1>1. IInv => TombstonesNeeded
    BY DEF IInv
  <1> QED  BY Invariance, <1>1, PTL

(* A service answers so too, but for names that another has changed.       *)
THEOREM CacheFreshHolds == Spec => []CacheFresh
  <1>1. ASSUME IInv PROVE CacheFresh
    <2> SUFFICES ASSUME ~Raises, NEW s \in Services, NEW n \in Names \ behind[s]
                 PROVE  Answer(s, n) \in MayBe(n)
      BY DEF CacheFresh
    <2>1. Shown(Replayed(n)) \in MayBe(n)
      BY <1>1, ReplayedTruth DEF IInv
    <2>2. cache[s][n] \in {"unknown"} \union MayBe(n)
      BY <1>1 DEF IInv, CacheInv
    <2> QED  BY <2>1, <2>2 DEF Answer
  <1> QED  BY Invariance, <1>1, PTL

(* No step makes a service answer with anything older than what was last   *)
(* acknowledged or what the log says last, or said before the step.        *)
THEOREM AnswersMoveForwardHolds == Spec => AnswersMoveForward
  <1>1. ASSUME IInv, [Next]_vars, ~Raises', NEW r \in Services, NEW m \in Names,
               Answer(r, m)' # Answer(r, m)
        PROVE  Answer(r, m)' \in {truth'[m], Shown(Replayed(m))', Shown(Replayed(m))}
    <2> DEFINE Goal == Answer(r, m)' \in {truth'[m], Shown(Replayed(m))', Shown(Replayed(m))}
    <2> USE DEF IInv
    <2>1. ASSUME cache'[r][m] \in {"unknown", cache[r][m], truth'[m], Replayed(m)} PROVE Goal
      BY <1>1, <2>1 DEF Answer, Shown
    <2>2. ASSUME NEW s \in Services, NEW n \in Names, NEW value \in Values, Put(s, n, value)
          PROVE  Goal
      <3>1. cache'[r][m] = cache[r][m] \/ cache'[r][m] = truth'[m]
        BY <1>1, <2>2 DEF Put, Acknowledge, TypeOK
      <3> QED  BY <2>1, <3>1
    <2>3. ASSUME NEW s \in Services, NEW n \in Names, NEW value \in Values, PutFails(s, n, value)
          PROVE  Goal
      BY <2>1, <2>3 DEF PutFails
    <2>4. ASSUME NEW s \in Services, Replay(s) PROVE Goal
      <3>1. cache'[r][m] = Replayed(m) \/ cache'[r][m] = cache[r][m]
        BY <1>1, <2>4 DEF Replay, TypeOK
      <3> QED  BY <2>1, <3>1
    <2>5. ASSUME NEW s \in Services, NEW n \in Names, Delete(s, n) PROVE Goal
      <3>1. cache'[r][m] \in {cache[r][m], truth'[m], Replayed(m)}
        BY <1>1, <2>5 DEF Delete, TypeOK
      <3> QED  BY <2>1, <3>1
    <2>6. ASSUME NEW s \in Services, NEW n \in Names, DeleteFails(s, n) PROVE Goal
      <3>1. cache'[r][m] = Replayed(m) \/ cache'[r][m] = cache[r][m]
        BY <1>1, <2>6 DEF DeleteFails, TypeOK
      <3> QED  BY <2>1, <3>1
    <2>7. CASE Restart
      BY <1>1, <2>1, <2>7 DEF Restart
    <2>8. CASE UNCHANGED vars
      BY <2>1, <2>8 DEF vars
    <2> HIDE DEF IInv
    <2> QED
      BY <1>1, <2>2, <2>3, <2>4, <2>5, <2>6, <2>7, <2>8 DEF Next, Get, List, DeleteNothing
  <1>2. IInv /\ [Next]_vars =>
          (~Raises' => \A s \in Services, n \in Names :
             Answer(s, n)' # Answer(s, n) =>
               Answer(s, n)' \in {truth'[n], Shown(Replayed(n))', Shown(Replayed(n))})
    BY <1>1
  <1> QED  BY Invariance, <1>2, PTL DEF Spec, AnswersMoveForward
=============================================================================

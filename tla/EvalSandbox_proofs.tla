-------------------------- MODULE EvalSandbox_proofs --------------------------
(***************************************************************************)
(* Type correctness, ReferenceRestored and ScoreIsolated, for any modules, *)
(* any number of evaluations and any imports between them.                 *)
(***************************************************************************)
EXTENDS EvalSandbox, TLAPS

-----------------------------------------------------------------------------
(* The inductive invariant                                                 *)

On(m) == {e \in Active : ModuleOf[e] = m}

(* An undamaged module is held by one evaluation at most, which has the    *)
(* reference to write back; the file is the reference while nobody holds   *)
(* it or its holder has not come to it, and the holder's code in the test. *)
ModuleInv(m) ==
  /\ \A e, f \in On(m) : e = f
  /\ On(m) = {} => source[m] = "reference"
  /\ \A e \in On(m) :
       /\ snapshot[e] = "reference"
       /\ stage[e] \in {"generate", "write"} => source[m] = "reference"
       /\ stage[e] = "run" => source[m] = e

FileInv == \A m \in Modules \ damaged : ModuleInv(m)

(* What an undisturbed evaluation's tests import is neither damaged nor    *)
(* held by another.                                                        *)
MeetInv ==
  \A e \in Active \ disturbed :
    /\ NeededBy(e) \cap damaged = {}
    /\ \A f \in Active \ {e} : ModuleOf[f] \notin NeededBy(e)

(* An evaluation under way has something to write back.                    *)
TakenInv == \A e \in Active : snapshot[e] # "none"

IInv == TypeOK /\ TakenInv /\ FileInv /\ MeetInv /\ ScoreIsolated

-----------------------------------------------------------------------------
(* The initial states have their types.                                    *)
LEMMA InitTyped == Init => TypeOK
  BY EvalAssumption DEF Init, TypeOK, Contents, Running, Over

(* Every step keeps the state typed: a snapshot is taken before it is      *)
(* written back.                                                           *)
LEMMA StepTyped == TypeOK /\ TakenInv /\ [Next]_vars => TypeOK' /\ TakenInv'
  <1> SUFFICES ASSUME TypeOK, TakenInv, [Next]_vars PROVE TypeOK' /\ TakenInv'
    OBVIOUS
  <1> USE EvalAssumption DEF Running, Over, Contents, ghostVars
  <1>1. CASE \E e \in Evals : Snapshot(e)
    <2> PICK e \in Evals : Snapshot(e)
      BY <1>1
    <2>1. Meeting(e) \subseteq Evals
      BY DEF Meeting, Active
    <2>2. source[ModuleOf[e]] \in Contents /\ source[ModuleOf[e]] # "none"
      BY DEF TypeOK
    <2>3. TypeOK'
      BY <2>1, <2>2 DEF TypeOK, Snapshot, Move
    <2>4. TakenInv'
      BY <2>2 DEF TypeOK, Snapshot, Move, TakenInv, Active
    <2> QED  BY <2>3, <2>4
  <1>2. CASE \E e \in Evals : RunTests(e)
    <2> PICK e \in Evals : RunTests(e)
      BY <1>2
    <2>1. {<<m, source[m]>> : m \in NeededBy(e)} \in SUBSET (Modules \X Contents)
      BY DEF TypeOK, NeededBy
    <2>2. TypeOK'
      BY <2>1 DEF TypeOK, RunTests, Move
    <2>3. TakenInv'
      BY DEF TypeOK, RunTests, Move, TakenInv, Active
    <2> QED  BY <2>2, <2>3
  <1>3. CASE \E e \in Evals : Generate(e) \/ WriteFails(e) \/ RestoreFails(e)
    BY <1>3 DEF TypeOK, TakenInv, Active, Generate, WriteFails, RestoreFails, Move
  <1>4. CASE \E e \in Evals : OpenToWrite(e) \/ Write(e) \/ OpenToRestore(e)
    BY <1>4 DEF TypeOK, TakenInv, Active, OpenToWrite, Write, OpenToRestore, Move, Put
  <1>5. CASE \E e \in Evals : Restore(e)
    BY <1>5 DEF TypeOK, TakenInv, Active, Restore, Move, Put
  <1>6. CASE \E evals \in {Offline, Evals \ Offline} : Die(evals)
    BY <1>6 DEF TypeOK, TakenInv, Active, Die
  <1>7. CASE UNCHANGED vars
    BY <1>7 DEF TypeOK, TakenInv, Active, vars
  <1> QED  BY <1>1, <1>2, <1>3, <1>4, <1>5, <1>6, <1>7 DEF Next, Step

-----------------------------------------------------------------------------
(* The effect of a step of e on who is running: e goes on or ends.         *)
LEMMA OthersRun ==
  ASSUME TypeOK, NEW e \in Evals, Step(e)
  PROVE  /\ e \in Active
         /\ Active' \subseteq Active
         /\ Active \ {e} \subseteq Active'
         /\ \A f \in Evals \ {e} : stage'[f] = stage[f]
  BY DEF TypeOK, Step, Generate, OpenToWrite, Write, WriteFails, RunTests, OpenToRestore,
         Restore, RestoreFails, Move, Active, Running, Over

(* A step of an evaluation touches no other module's file.                 *)
LEMMA OtherFiles ==
  ASSUME TypeOK, NEW e \in Evals, Step(e)
  PROVE  /\ \A m \in Modules \ {ModuleOf[e]} : source'[m] = source[m]
         /\ snapshot' = snapshot /\ disturbed' = disturbed
         /\ damaged \subseteq damaged' /\ damaged' \subseteq damaged \union {ModuleOf[e]}
  BY EvalAssumption DEF TypeOK, Step, Generate, OpenToWrite, Write, WriteFails, RunTests,
         OpenToRestore, Restore, RestoreFails, Move, Put, ghostVars

(* A step of an evaluation keeps what holds of the modules' files.         *)
LEMMA StepFiles ==
  ASSUME TypeOK, FileInv, NEW e \in Evals, Step(e)
  PROVE  FileInv'
  <1> SUFFICES ASSUME NEW m \in Modules, m \notin damaged' PROVE ModuleInv(m)'
    BY DEF FileInv
  <1>1. m \notin damaged /\ ModuleInv(m)
    BY OtherFiles DEF FileInv
  <1>2. CASE ModuleOf[e] # m
    <2>1. On(m)' = On(m)
      BY <1>2, OthersRun DEF On
    <2>2. source'[m] = source[m] /\ snapshot' = snapshot
      BY <1>2, OtherFiles
    <2>3. \A f \in On(m) : stage'[f] = stage[f]
      BY <1>2, OthersRun DEF On, Active
    <2> QED  BY <1>1, <2>1, <2>2, <2>3 DEF ModuleInv
  <1>3. CASE ModuleOf[e] = m
    <2>1. On(m) = {e}
      BY <1>1, <1>3, OthersRun DEF ModuleInv, On
    <2>2. On(m)' \subseteq {e}
      BY <2>1, OthersRun DEF On
    <2>3. snapshot[e] = "reference" /\ snapshot' = snapshot
      BY <1>1, <2>1, OtherFiles DEF ModuleInv
    <2>4. On(m)' = {} => source'[m] = "reference"
      <3>1. ~RestoreFails(e)
        BY <1>3 DEF RestoreFails
      <3>2. CASE Restore(e)
        BY <3>2, <1>3, <2>3 DEF Restore, Put, TypeOK
      <3>3. CASE ~Restore(e)
        <4>1. stage'[e] \in Running
          BY <3>1, <3>3 DEF TypeOK, Step, Generate, OpenToWrite, Write, WriteFails, RunTests,
             OpenToRestore, Move, Running
        <4> QED  BY <4>1, <1>3 DEF On, Active
      <3> QED  BY <3>2, <3>3
    <2>5. /\ stage'[e] \in {"generate", "write"} => source'[m] = "reference"
          /\ stage'[e] = "run" => source'[m] = e
      BY <1>1, <1>3, <2>1 DEF ModuleInv, TypeOK, Step, Generate, OpenToWrite, Write, WriteFails,
         RunTests, OpenToRestore, Restore, RestoreFails, Move, Put, ghostVars
    <2> QED  BY <2>2, <2>3, <2>4, <2>5 DEF ModuleInv
  <1> QED  BY <1>2, <1>3

(* A step of an evaluation brings nobody together.                         *)
LEMMA StepMeets ==
  ASSUME TypeOK, MeetInv, NEW e \in Evals, Step(e)
  PROVE  MeetInv'
  <1> SUFFICES ASSUME NEW f \in Evals, f \in Active', f \notin disturbed'
               PROVE  /\ NeededBy(f) \cap damaged' = {}
                      /\ \A g \in Active' \ {f} : ModuleOf[g] \notin NeededBy(f)
    BY DEF MeetInv, Active, NeededBy
  <1>1. f \in Active \ disturbed
    BY OthersRun, OtherFiles
  <1>2. \A g \in Active' \ {f} : ModuleOf[g] \notin NeededBy(f)
    BY <1>1, OthersRun DEF MeetInv
  <1>3. NeededBy(f) \cap damaged' = {}
    <2>1. CASE f # e
      BY <2>1, <1>1, OthersRun, OtherFiles DEF MeetInv
    <2>2. CASE f = e
      <3>1. ~RestoreFails(e)
        BY <2>2 DEF RestoreFails, Move, Active, Running, TypeOK
      <3>2. damaged' = damaged
        BY <3>1 DEF Step, Generate, OpenToWrite, Write, WriteFails, RunTests, OpenToRestore,
           Restore, ghostVars
      <3> QED  BY <1>1, <3>2 DEF MeetInv
    <2> QED  BY <2>1, <2>2
  <1> QED  BY <1>2, <1>3

(* A step of an evaluation leaves undisturbed scores isolated: what its    *)
(* tests import when they run is its own code and the reference.           *)
LEMMA StepIsolated ==
  ASSUME TypeOK, FileInv, MeetInv, ScoreIsolated, NEW e \in Evals, Step(e)
  PROVE  ScoreIsolated'
  <1>1. disturbed' = disturbed
    BY OtherFiles
  <1>2. CASE imported' = imported
    BY <1>1, <1>2 DEF ScoreIsolated
  <1>3. CASE RunTests(e) /\ imported' = [imported EXCEPT ![e] =
                              {<<m, source[m]>> : m \in NeededBy(e)}]
    <2> SUFFICES ASSUME e \notin disturbed, NEW m \in NeededBy(e)
                 PROVE  source[m] = IF m = ModuleOf[e] THEN e ELSE "reference"
      BY <1>1, <1>3 DEF ScoreIsolated, TypeOK
    <2>1. e \in Active /\ stage[e] = "run"
      BY <1>3 DEF RunTests, Move, Active, Running
    <2>2. m \in Modules /\ m \notin damaged
      BY <2>1, EvalAssumption DEF MeetInv, NeededBy
    <2>3. ModuleInv(m)
      BY <2>2 DEF FileInv
    <2>4. CASE m = ModuleOf[e]
      BY <2>1, <2>3, <2>4 DEF ModuleInv, On
    <2>5. CASE m # ModuleOf[e]
      <3>1. On(m) = {}
        BY <2>1, <2>5 DEF MeetInv, On
      <3> QED  BY <3>1, <2>3, <2>5 DEF ModuleInv
    <2> QED  BY <2>4, <2>5
  <1>4. \/ imported' = imported
        \/ /\ RunTests(e)
           /\ imported' = [imported EXCEPT ![e] = {<<m, source[m]>> : m \in NeededBy(e)}]
    BY DEF Step, Generate, OpenToWrite, Write, WriteFails, RunTests, OpenToRestore,
       Restore, RestoreFails, ghostVars, Move
  <1> QED  BY <1>2, <1>3, <1>4

-----------------------------------------------------------------------------
(* A new evaluation takes the reference from an undamaged module, and is   *)
(* counted as disturbed with whom it meets.                                *)
LEMMA SnapshotKeeps ==
  ASSUME TypeOK, FileInv, MeetInv, ScoreIsolated, NEW e \in Evals, Snapshot(e)
  PROVE  FileInv' /\ MeetInv' /\ ScoreIsolated'
  <1> USE EvalAssumption
  <1>1. /\ e \notin Active /\ Active' = Active \union {e}
        /\ \A f \in Evals \ {e} : stage'[f] = stage[f] /\ snapshot'[f] = snapshot[f]
        /\ stage'[e] \in {"generate", "write"} /\ snapshot'[e] = source[ModuleOf[e]]
        /\ source' = source /\ imported' = imported
    BY DEF TypeOK, Snapshot, Move, Active, Running, Over
  <1>2. /\ disturbed' = disturbed \union Meeting(e)
        /\ damaged' = damaged \union {m \in {ModuleOf[e]} : \E f \in Active : ModuleOf[f] = m}
    BY DEF Snapshot
  <1>3. FileInv'
    <2> SUFFICES ASSUME NEW m \in Modules, m \notin damaged' PROVE ModuleInv(m)'
      BY DEF FileInv
    <2>1. m \notin damaged /\ ModuleInv(m)
      BY <1>2 DEF FileInv
    <2>2. CASE ModuleOf[e] # m
      <3>1. On(m)' = On(m) /\ \A f \in On(m) : f \in Evals \ {e}
        BY <1>1, <2>2 DEF On, Active
      <3> QED  BY <1>1, <2>1, <3>1 DEF ModuleInv
    <2>3. CASE ModuleOf[e] = m
      <3>1. On(m) = {}
        BY <1>2, <2>3 DEF On
      <3>2. On(m)' = {e}
        BY <1>1, <2>3, <3>1 DEF On
      <3> QED  BY <1>1, <2>1, <2>3, <3>1, <3>2 DEF ModuleInv
    <2> QED  BY <2>2, <2>3
  <1>4. MeetInv'
    <2> SUFFICES ASSUME NEW f \in Active', f \notin disturbed'
                 PROVE  /\ NeededBy(f) \cap damaged' = {}
                        /\ \A g \in Active' \ {f} : ModuleOf[g] \notin NeededBy(f)
      BY DEF MeetInv, NeededBy
    <2>1. f \notin disturbed /\ f \notin Meeting(e)
      BY <1>2
    <2>2. CASE f = e
      <3>1. NeededBy(e) \cap damaged = {} /\ \A g \in Active : ModuleOf[g] \notin NeededBy(e)
        BY <2>1, <2>2 DEF Meeting
      <3>2. ModuleOf[e] \in NeededBy(e)
        BY DEF NeededBy
      <3> QED  BY <1>1, <1>2, <2>2, <3>1, <3>2
    <2>3. CASE f # e
      <3>1. f \in Active \ disturbed
        BY <1>1, <2>1, <2>3
      <3>2. ModuleOf[e] \notin NeededBy(f)
        BY <2>1, <3>1 DEF Meeting
      <3> QED  BY <1>1, <1>2, <3>1, <3>2 DEF MeetInv
    <2> QED  BY <2>2, <2>3
  <1>5. ScoreIsolated'
    BY <1>1, <1>2 DEF ScoreIsolated
  <1> QED  BY <1>3, <1>4, <1>5

(* A process that is killed damages the modules it was at, and no other.   *)
LEMMA DieKeeps ==
  ASSUME TypeOK, FileInv, MeetInv, ScoreIsolated, NEW evals \in SUBSET Evals, Die(evals)
  PROVE  FileInv' /\ MeetInv' /\ ScoreIsolated'
  <1>1. /\ Active' = Active \ evals
        /\ \A f \in Active \ evals : stage'[f] = stage[f]
        /\ damaged' = damaged \union {ModuleOf[e] : e \in Active \cap evals}
        /\ source' = source /\ snapshot' = snapshot
        /\ imported' = imported /\ disturbed' = disturbed
    BY DEF TypeOK, Die, Active, Running, Over
  <1>2. FileInv'
    <2> SUFFICES ASSUME NEW m \in Modules, m \notin damaged' PROVE ModuleInv(m)'
      BY DEF FileInv
    <2>1. ModuleInv(m)
      BY <1>1 DEF FileInv
    <2>2. On(m)' = On(m) /\ \A f \in On(m) : stage'[f] = stage[f]
      BY <1>1 DEF On
    <2> QED  BY <1>1, <2>1, <2>2 DEF ModuleInv
  <1>3. MeetInv'
    <2> SUFFICES ASSUME NEW f \in Active', f \notin disturbed'
                 PROVE  /\ NeededBy(f) \cap damaged' = {}
                        /\ \A g \in Active' \ {f} : ModuleOf[g] \notin NeededBy(f)
      BY DEF MeetInv, NeededBy
    <2>1. f \in Active \ disturbed /\ f \notin evals
      BY <1>1
    <2>2. \A g \in Active \ {f} : ModuleOf[g] \notin NeededBy(f)
      BY <2>1 DEF MeetInv
    <2> QED  BY <1>1, <2>1, <2>2 DEF MeetInv
  <1>4. ScoreIsolated'
    BY <1>1 DEF ScoreIsolated
  <1> QED  BY <1>2, <1>3, <1>4

-----------------------------------------------------------------------------
(* Theorems                                                                *)

(* The inductive invariant holds in every reachable state of evaluations   *)
(* under any interleaving, failure and crash.                              *)
THEOREM Invariance == Spec => []IInv
  <1>1. Init => IInv
    BY InitTyped DEF Init, IInv, TakenInv, FileInv, ModuleInv, On, MeetInv, Active, Running,
       ScoreIsolated
  <1>2. IInv /\ [Next]_vars => IInv'
    <2> SUFFICES ASSUME IInv, [Next]_vars PROVE IInv'
      OBVIOUS
    <2>1. TypeOK /\ FileInv /\ MeetInv /\ ScoreIsolated /\ TypeOK' /\ TakenInv'
      BY StepTyped DEF IInv
    <2>2. CASE \E e \in Evals : Snapshot(e)
      BY <2>1, <2>2, SnapshotKeeps DEF IInv
    <2>3. CASE \E e \in Evals : Step(e)
      BY <2>1, <2>3, StepFiles, StepMeets, StepIsolated DEF IInv
    <2>4. CASE Die(Offline) \/ Die(Evals \ Offline)
      BY <2>1, <2>4, DieKeeps, EvalAssumption DEF IInv
    <2>5. CASE UNCHANGED vars
      BY <2>1, <2>5 DEF IInv, vars, ghostVars, FileInv, ModuleInv, On, MeetInv, Active,
         NeededBy, ScoreIsolated
    <2> QED  BY <2>2, <2>3, <2>4, <2>5 DEF Next
  <1> QED  BY <1>1, <1>2, PTL DEF Spec

(* Type correctness of the evaluations.                                    *)
THEOREM TypeCorrect == Spec => []TypeOK
  <1>1. IInv => TypeOK
    BY DEF IInv
  <1> QED  BY <1>1, Invariance, PTL

(* The reference comes back to every module that was not damaged, however  *)
(* many evaluations of however many modules run.                           *)
THEOREM ReferenceRestoredHolds == Spec => []ReferenceRestored
  <1>1. IInv => ReferenceRestored
    BY DEF IInv, FileInv, ModuleInv, On, ReferenceRestored
  <1> QED  BY <1>1, Invariance, PTL

(* The tests of an undisturbed evaluation meet its own code and otherwise  *)
(* the reference.                                                          *)
THEOREM ScoreIsolatedHolds == Spec => []ScoreIsolated
  <1>1. IInv => ScoreIsolated
    BY DEF IInv
  <1> QED  BY <1>1, Invariance, PTL
=============================================================================

------------------------------ MODULE EvalSandbox ------------------------------
(***************************************************************************)
(* Evaluations of submitted code: a module's service.py is read            *)
(* (ReferenceBackup), overwritten, tested in a subprocess and written      *)
(* back.  POST /api/eval runs eval_pasted_code in a thread of its own for  *)
(* every request; the wrapper run_llm_eval, a process of its own, takes    *)
(* its modules one after another and asks an LLM for the code after the    *)
(* snapshot.  Nothing keeps evaluations apart.                             *)
(*                                                                         *)
(* A file is written by opening it, which empties it, and then filling it. *)
(* The byte-code caches are left out: each file's are removed with it.     *)
(***************************************************************************)
CONSTANTS Modules,
          Evals,      \* the evaluations, each known by the code it submits
          ModuleOf,   \* the module each is for
          Offline,    \* of these, the ones the wrapper makes
          Needs       \* the modules that a module's tests import

ASSUME EvalAssumption ==
  /\ ModuleOf \in [Evals -> Modules]
  /\ Offline \subseteq Evals
  /\ Needs \in [Modules -> SUBSET Modules]
  /\ \A m \in Modules : m \in Needs[m]
  /\ {"reference", "torn", "none"} \cap Evals = {}

VARIABLES
  source,      \* what each module's service.py holds
  stage,       \* where each evaluation is
  snapshot,    \* what it will write back
  imported,    \* what its tests found in each module they import
  disturbed,   \* evaluations whose tests may have met others' code
  damaged      \* modules whose file an overlap, a crash or an error may spoil

ghostVars == <<disturbed, damaged>>
vars == <<source, stage, snapshot, imported, ghostVars>>

Contents == {"reference", "torn"} \union Evals

Running == {"generate", "write", "writing", "run", "restore", "restoring"}

Over == {"done", "failed", "dead"}

TypeOK ==
  /\ source \in [Modules -> Contents]
  /\ stage \in [Evals -> {"new"} \union Running \union Over]
  /\ snapshot \in [Evals -> Contents \union {"none"}]
  /\ imported \in [Evals -> SUBSET (Modules \X Contents)]
  /\ disturbed \subseteq Evals
  /\ damaged \subseteq Modules

Init ==
  /\ source = [m \in Modules |-> "reference"]
  /\ stage = [e \in Evals |-> "new"]
  /\ snapshot = [e \in Evals |-> "none"]
  /\ imported = [e \in Evals |-> {}]
  /\ disturbed = {}
  /\ damaged = {}

-----------------------------------------------------------------------------
Active == {e \in Evals : stage[e] \in Running}

Move(e, from, to) == stage[e] = from /\ stage' = [stage EXCEPT ![e] = to]

Put(e, content) == source' = [source EXCEPT ![ModuleOf[e]] = content]

NeededBy(e) == Needs[ModuleOf[e]]

(* Who is disturbed when e begins: evaluations disturb each other where    *)
(* one replaces a module the other's tests import.                         *)
Meeting(e) ==
  {f \in Active : ModuleOf[e] \in NeededBy(f)}
    \union {f \in {e} : \/ NeededBy(e) \cap damaged # {}
                        \/ \E g \in Active : ModuleOf[g] \in NeededBy(e)}

(* ReferenceBackup's constructor reads the file.                           *)
Snapshot(e) ==
  /\ Move(e, "new", IF e \in Offline THEN "generate" ELSE "write")
  /\ e \in Offline => Active \cap Offline = {}
  /\ snapshot' = [snapshot EXCEPT ![e] = source[ModuleOf[e]]]
  /\ disturbed' = disturbed \union Meeting(e)
  /\ damaged' = damaged \union {m \in {ModuleOf[e]} : \E f \in Active : ModuleOf[f] = m}
  /\ UNCHANGED <<source, imported>>

(* The wrapper's call of the LLM, which may fail.                          *)
Generate(e) ==
  /\ Move(e, "generate", "write") \/ Move(e, "generate", "restore")
  /\ UNCHANGED <<source, snapshot, imported, ghostVars>>

OpenToWrite(e) ==
  /\ Move(e, "write", "writing")
  /\ Put(e, "torn")
  /\ UNCHANGED <<snapshot, imported, ghostVars>>

Write(e) ==
  /\ Move(e, "writing", "run")
  /\ Put(e, e)
  /\ UNCHANGED <<snapshot, imported, ghostVars>>

(* Faulty variant: there is no finally.                                    *)
WriteFailsForGood(e) ==
  /\ Move(e, "write", "done") \/ Move(e, "writing", "done")
  /\ UNCHANGED <<source, snapshot, imported, ghostVars>>

WriteFails(e) ==
  /\ Move(e, "write", "restore") \/ Move(e, "writing", "restore")
  /\ UNCHANGED <<source, snapshot, imported, ghostVars>>

(* Faulty variants: the tests are started and not waited for; they run     *)
(* without a timeout, and hang.                                            *)
RunDetached(e) ==
  /\ stage[e] \in {"run", "restore", "restoring", "done"} /\ imported[e] = {}
  /\ imported' = [imported EXCEPT ![e] = {<<m, source[m]>> : m \in NeededBy(e)}]
  /\ stage' = [stage EXCEPT ![e] = IF @ = "run" THEN "restore" ELSE @]
  /\ UNCHANGED <<source, snapshot, ghostVars>>

RunHangs(e) ==
  /\ stage[e] = "run" /\ imported[e] = {}
  /\ imported' = [imported EXCEPT ![e] = {<<m, source[m]>> : m \in NeededBy(e)}]
  /\ UNCHANGED <<source, stage, snapshot, ghostVars>>

(* pytest imports the modules, or is stopped by the timeout before it did. *)
RunTests(e) ==
  /\ Move(e, "run", "restore")
  /\ \/ imported' = [imported EXCEPT ![e] = {<<m, source[m]>> : m \in NeededBy(e)}]
     \/ UNCHANGED imported
  /\ UNCHANGED <<source, snapshot, ghostVars>>

OpenToRestore(e) ==
  /\ Move(e, "restore", "restoring")
  /\ Put(e, "torn")
  /\ UNCHANGED <<snapshot, imported, ghostVars>>

Restore(e) ==
  /\ Move(e, "restoring", "done")
  /\ Put(e, snapshot[e])
  /\ UNCHANGED <<snapshot, imported, ghostVars>>

(* An OSError while restoring leaves the evaluation.                       *)
RestoreFails(e) ==
  /\ Move(e, "restore", "failed") \/ Move(e, "restoring", "failed")
  /\ damaged' = damaged \union {ModuleOf[e]}
  /\ UNCHANGED <<source, snapshot, imported, disturbed>>

Step(e) ==
  \/ Generate(e) \/ OpenToWrite(e) \/ Write(e) \/ WriteFails(e) \/ RunTests(e)
  \/ OpenToRestore(e) \/ Restore(e) \/ RestoreFails(e)

(* A process is killed with all its evaluations.                           *)
Die(evals) ==
  /\ Active \cap evals # {}
  /\ stage' = [e \in Evals |-> IF e \in Active \cap evals THEN "dead" ELSE stage[e]]
  /\ damaged' = damaged \union {ModuleOf[e] : e \in Active \cap evals}
  /\ UNCHANGED <<source, snapshot, imported, disturbed>>

Next ==
  \/ \E e \in Evals : Snapshot(e) \/ Step(e)
  \/ Die(Offline) \/ Die(Evals \ Offline)

(* Threads are scheduled, the LLM client and the test run have timeouts.   *)
Fairness == \A e \in Evals : WF_vars(Step(e))

Spec == Init /\ [][Next]_vars

FairSpec == Spec /\ Fairness

-----------------------------------------------------------------------------
(* Correctness                                                             *)

(* The reference comes back: whatever fails during an evaluation, once no  *)
(* evaluation of a module is running its file is the reference, unless two *)
(* of them overlapped, a process was killed or the restore itself failed.  *)
ReferenceRestored ==
  \A m \in Modules \ damaged :
    (\A e \in Active : ModuleOf[e] # m) => source[m] = "reference"

(* A score is about the submitted code and nothing else: the tests of an   *)
(* evaluation import its own code and, of the other modules they need, the *)
(* reference, unless another evaluation of one of these overlapped or left *)
(* damage behind.                                                          *)
ScoreIsolated ==
  \A e \in Evals \ disturbed : \A pair \in imported[e] :
    pair[2] = IF pair[1] = ModuleOf[e] THEN e ELSE "reference"

(* Every evaluation that took its snapshot ends.                           *)
EvalEnds == \A e \in Evals : stage[e] \in Running ~> stage[e] \in Over
=============================================================================

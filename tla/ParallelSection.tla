--------------------------- MODULE ParallelSection ---------------------------
(***************************************************************************)
(* Errors in code that every processor executes.  A loop over the points of *)
(* a processor, or work done by processor 0 alone, is enclosed in           *)
(*                                                                          *)
(*   ParallelSection loop(com);                                             *)
(*   try { ... } catch (...) { loop.failed(); }                             *)
(*   loop.check();                                                          *)
(*                                                                          *)
(* and check() is a collective operation that throws on every processor if  *)
(* the section failed on one of them.  Here the processors execute a fixed  *)
(* sequence of sections and of plain reductions, each at its own pace, and  *)
(* whatever they throw ends in PetscFinalize(), a collective operation too. *)
(***************************************************************************)
EXTENDS Naturals

CONSTANTS Processors, Processor0,
          Last,          \* number of sections and reductions
          Kind,          \* of each: "loop", "rank0" or "reduce"
          Guarded        \* those inside of stress_balance->update()

ASSUME SectionAssumption ==
  /\ Processor0 \in Processors
  /\ Last \in Nat \ {0}
  /\ Kind \in [1..Last -> {"loop", "rank0", "reduce"}]
  /\ Guarded \subseteq 1..Last

VARIABLES section,   \* the section a processor is in
          stage,     \* where in it, or after it
          vote       \* what a processor told to the Allreduce of a section

sectionVars == <<section, stage, vote>>

SectionInit ==
  /\ section = [r \in Processors |-> 1]
  /\ stage = [r \in Processors |-> "work"]
  /\ vote = [k \in 1..Last |-> [r \in Processors |-> "none"]]

-----------------------------------------------------------------------------
(* The processors on which the body of a section may throw.                 *)
MayFail(r, k) ==
  \/ Kind[k] = "loop"
  \/ Kind[k] = "rank0" /\ r = Processor0

WorkUncounted(r) ==              \* mutant: a body without the catch clause
  LET k == section[r]
  IN  /\ stage[r] = "work"
      /\ \E v \in {"ok", "failed"} :
           /\ v = "failed" => MayFail(r, k)
           /\ vote' = [vote EXCEPT ![k][r] = IF v = "failed" THEN "none" ELSE v]
           /\ stage' = [stage EXCEPT ![r] = IF v = "failed" THEN "finalize" ELSE "check"]
      /\ UNCHANGED section

(* The result of the Allreduce.                                             *)
SuccessHere(r, k) == vote[k][r] = "ok"   \* mutant: no Allreduce

Success(r, k) == \A s \in Processors : vote[k][s] = "ok"

(* The body of a section, the catch clause that calls failed(), and the     *)
(* call of check() up to the Allreduce.                                     *)
Work(r) ==
  LET k == section[r]
  IN  /\ stage[r] = "work"
      /\ stage' = [stage EXCEPT ![r] = "check"]
      /\ \E v \in {"ok", "failed"} :
           /\ v = "failed" => MayFail(r, k)
           /\ vote' = [vote EXCEPT ![k][r] = v]
      /\ UNCHANGED section

(* An Allreduce returns when everybody contributed to it.                   *)
EverybodyVoted(k) == \A s \in Processors : vote[k][s] # "none"

(* The end of the program.                                                  *)
IsLast(k) == k = Last

(* The Allreduce returns; check() throws or the section ends.  An exception *)
(* from the stress balance is caught in IceModel::step().                   *)
AfterThrow(k) == IF k \in Guarded THEN "caught" ELSE "finalize"

Check(r) ==
  LET k == section[r]
  IN  /\ stage[r] = "check"
      /\ EverybodyVoted(k)
      /\ IF ~Success(r, k)
           THEN /\ stage' = [stage EXCEPT ![r] = AfterThrow(k)]
                /\ UNCHANGED section
           ELSE IF IsLast(k)
             THEN /\ stage' = [stage EXCEPT ![r] = "finalize"]
                  /\ UNCHANGED section
             ELSE /\ stage' = [stage EXCEPT ![r] = "work"]
                  /\ section' = [section EXCEPT ![r] = k + 1]
      /\ UNCHANGED vote

(* IceModel::step() saves the state of the model, which takes every         *)
(* processor, and throws again.                                             *)
DumpToFile ==
  /\ \A r \in Processors : stage[r] = "caught"
  /\ stage' = [r \in Processors |-> "finalize"]
  /\ UNCHANGED <<section, vote>>

(* main() prints what it caught; PetscFinalize() waits for every processor. *)
Finalize ==
  /\ \A r \in Processors : stage[r] = "finalize"
  /\ stage' = [r \in Processors |-> "ended"]
  /\ UNCHANGED <<section, vote>>

SectionNext ==
  \/ \E r \in Processors : Work(r) \/ Check(r)
  \/ DumpToFile
  \/ Finalize

Fairness ==
  /\ \A r \in Processors : WF_sectionVars(Work(r)) /\ WF_sectionVars(Check(r))
  /\ WF_sectionVars(DumpToFile) /\ WF_sectionVars(Finalize)

SectionSpec == SectionInit /\ [][SectionNext]_sectionVars /\ Fairness

-----------------------------------------------------------------------------
SectionTypeOK ==
  /\ section \in [Processors -> 1..Last]
  /\ stage \in [Processors -> {"work", "check", "caught", "finalize", "ended"}]
  /\ vote \in [1..Last -> [Processors -> {"none", "ok", "failed"}]]

(* A failure on one processor stops all of them: nobody leaves the section  *)
(* in which somebody failed for the next one (ParallelSection::check()).    *)
FailureHeard ==
  \A k \in 1..Last, r, s \in Processors : vote[k][r] = "failed" => section[s] =< k

(* The processor left check() by throwing.                                  *)
Thrown(r) ==
  /\ stage[r] \in {"caught", "finalize", "ended"}
  /\ \E s \in Processors : vote[section[r]][s] = "failed"

(* If one processor threw, every other one is in the same section, has told *)
(* its own result and can only throw: nobody is left behind in a collective *)
(* call that processor will not make (ParallelSection::check() and what     *)
(* IceModel::step() does with the exception).                               *)
ThrowTogether ==
  \A r, s \in Processors :
    Thrown(r) =>
      /\ section[s] = section[r]
      /\ stage[s] # "work"
      /\ Thrown(s) => (stage[s] = "caught" <=> stage[r] = "caught")

(* A processor is at most one section ahead of another, and only of one     *)
(* that already contributed to that section (the object is local to a       *)
(* section, and every section ends in a collective call).                   *)
NobodyOvertaken ==
  \A r, s \in Processors :
    section[r] > section[s] => /\ section[r] = section[s] + 1
                               /\ stage[s] = "check"

(* ParallelSection: the processors agree about every section, whether they  *)
(* pass it or throw.                                                        *)
ProcessorsAgree == SectionTypeOK /\ FailureHeard /\ ThrowTogether /\ NobodyOvertaken

(* Every processor gets to the end of PetscFinalize(), whoever fails        *)
(* wherever: the program does not hang.                                     *)
Terminates == <>(\A r \in Processors : stage[r] = "ended")
=============================================================================

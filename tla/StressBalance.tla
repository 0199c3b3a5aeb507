----------------------------- MODULE StressBalance -----------------------------
(***************************************************************************)
(* The stress balance of a run: the solvers of the shallow shelf            *)
(* approximation, SSAFD with its retries and SSAFEM without, the fields     *)
(* derived from the velocity they find, and the velocity as the initial     *)
(* guess of the next update and of the next run.                            *)
(*                                                                          *)
(* A linear solve (KSPSolve) may diverge and an outer iteration may not     *)
(* converge; which of them do is an input.  A velocity field is the update  *)
(* it was computed in, what is known of it, and how often it was scaled.    *)
(***************************************************************************)
EXTENDS Naturals

CONSTANTS Setups,         \* [solver, regularized (epsilon_ssa > 0), brutal]
          MaxFailures,    \* m_default_pc_failure_max_count
          MaxTries,       \* max_tries of the over-regularization
          MaxIterations,  \* max_iterations_ssafd
          MaxUpdates,     \* bound: number of updates in all runs
          MaxRuns         \* bound: number of runs

SetupType == [solver : {"fd", "fem"}, regularized : BOOLEAN, brutal : BOOLEAN]

ASSUME StressBalanceAssumption ==
  /\ Setups \subseteq SetupType
  /\ {MaxFailures, MaxTries, MaxIterations, MaxRuns} \subseteq Nat \ {0}
  /\ MaxUpdates \in Nat

VARIABLES
  setup,
  velocity,      \* m_velocity
  global,        \* m_velocity_global, the vector PETSc works on
  old,           \* m_velocity_old
  heating,       \* the velocity m_basal_frictional_heating belongs to
  column,        \* the velocity the 3D fields belong to
  strategy,      \* "idle" between updates, "failed" when the run has ended so
  tries,         \* over-regularizations that failed
  asm,           \* the preconditioner is Additive Schwarz, not block Jacobi
  iteration,     \* outer iterations of the attempt
  failures,      \* m_default_pc_failure_count
  updates, runs,
  saved,         \* vel_ssa in the file the next run starts from
  attempted      \* history: the attempts of this update that did not converge

guess == <<velocity, global, old>>
derived == <<heating, column>>
progress == <<strategy, tries, asm, iteration, failures>>
solverVars == <<setup, velocity, global, old, heating, column, strategy, tries,
                asm, iteration, failures, updates, runs, saved, attempted>>

Velocity(u, s) == [update |-> u, state |-> s, scaled |-> 0]
Zero == Velocity(0, "zero")
Strategies == {"default", "underrelaxed", "regularized"}
Solving == strategy \in Strategies

(* picard_iteration() keeps block Jacobi as long as it did not fail too     *)
(* often, and picard_manager() starts from m_velocity.                      *)
Attempt(s, t, v) ==
  /\ strategy' = s
  /\ tries' = t
  /\ asm' = (failures >= MaxFailures)
  /\ iteration' = 0
  /\ velocity' = v
  /\ global' = v

SolverInit ==
  /\ setup \in Setups
  /\ velocity = Zero /\ global = Zero /\ old = Zero
  /\ heating = Zero /\ column = Zero
  /\ strategy = "idle" /\ tries = 0 /\ asm = FALSE /\ iteration = 0
  /\ failures = 0
  /\ updates = 0 /\ runs = 1
  /\ saved = Zero
  /\ attempted = {}

-----------------------------------------------------------------------------
(* StressBalance::update() with the full solve; an update that is "fast"    *)
(* leaves the velocity and all that is derived from it alone.               *)
Update ==
  /\ strategy = "idle"
  /\ updates < MaxUpdates
  /\ updates' = updates + 1

BeginFD ==
  /\ Update
  /\ setup.solver = "fd"
  /\ old' = velocity
  /\ Attempt("default", 0, velocity)
  /\ attempted' = {}
  /\ UNCHANGED <<setup, derived, failures, runs, saved>>

(* The rest of the update: solve() scales the solution on demand, then the  *)
(* basal heating, the 3D velocity and the strain heating follow it.         *)
Scaled(v) == IF setup.brutal THEN [v EXCEPT !.scaled = @ + 1] ELSE v

Finish(v) ==
  /\ strategy' = "idle"
  /\ velocity' = v
  /\ heating' = v
  /\ column' = v

(* step() saves the state when the stress balance throws, and gives up.     *)
Throw ==
  /\ strategy' = "failed"
  /\ saved' = velocity

(* SSAFEM starts from the vector it had and keeps m_velocity unless it      *)
(* converges.                                                               *)
SolveFEM ==
  /\ Update
  /\ setup.solver = "fem"
  /\ \/ /\ global' = Velocity(updates', "converged")
        /\ Finish(global')
        /\ UNCHANGED saved
     \/ /\ global' = Velocity(updates', "diverged")
        /\ Throw
        /\ UNCHANGED <<velocity, derived>>
  /\ UNCHANGED <<setup, old, tries, asm, iteration, failures, runs, attempted>>

-----------------------------------------------------------------------------
(* SSAFD: the linear solves of an attempt.                                  *)
Iterate ==
  /\ Solving
  /\ iteration + 1 < MaxIterations
  /\ iteration' = iteration + 1
  /\ global' = Velocity(updates, "iterate")
  /\ velocity' = global'
  /\ UNCHANGED <<setup, old, derived, strategy, tries, asm, failures, updates,
                 runs, saved, attempted>>

Converge ==
  /\ Solving
  /\ global' = Velocity(updates, "converged")
  /\ Finish(Scaled(global'))
  /\ UNCHANGED <<setup, old, tries, asm, iteration, failures, updates, runs,
                 saved, attempted>>

(* KSPFailure with block Jacobi: once more, with Additive Schwarz.          *)
RetryWithASM ==
  /\ Solving
  /\ ~asm
  /\ failures' = failures + 1
  /\ asm' = TRUE
  /\ iteration' = 0
  /\ velocity' = old
  /\ global' = old
  /\ UNCHANGED <<setup, old, derived, strategy, tries, updates, runs, saved,
                 attempted>>

(* KSPFailure with Additive Schwarz: nobody catches it before step().       *)
LinearSolveFails ==
  /\ Solving
  /\ asm
  /\ global' = Velocity(updates, "diverged")
  /\ Throw
  /\ UNCHANGED <<setup, velocity, old, derived, tries, asm, iteration,
                 failures, updates, runs, attempted>>

-----------------------------------------------------------------------------
(* PicardFailure: the last outer iteration did not converge either.         *)
Last == Velocity(updates, "iterate")

PicardFailure ==
  /\ Solving
  /\ iteration + 1 >= MaxIterations
  /\ attempted' = attempted \cup {<<strategy, tries>>}
  /\ UNCHANGED <<setup, old, failures, updates, runs, saved>>

(* The second strategy goes on from the result of the first.                *)
TryUnderrelaxed ==
  /\ PicardFailure
  /\ strategy = "default"
  /\ Attempt("underrelaxed", 0, Last)
  /\ UNCHANGED derived

FirstTry == 0                        \* mutant: k is not incremented
NextTry == IF strategy = "regularized" THEN tries + 1 ELSE 0

RegularizedFromLast ==               \* mutant: the guess is not restored
  /\ PicardFailure
  /\ strategy # "default"
  /\ setup.regularized
  /\ NextTry < MaxTries
  /\ Attempt("regularized", NextTry, Last)
  /\ UNCHANGED derived

(* Each try of the third strategy starts from the old velocity again.       *)
TryRegularized ==
  /\ PicardFailure
  /\ strategy # "default"
  /\ setup.regularized
  /\ NextTry < MaxTries
  /\ Attempt("regularized", NextTry, old)
  /\ UNCHANGED derived

(* The last PicardFailure ends the loop over strategies, which has no       *)
(* iteration left for its "all strategies failed"; solve() returns.         *)
GiveUp ==
  /\ PicardFailure
  /\ strategy # "default"
  /\ setup.regularized => NextTry >= MaxTries
  /\ global' = Last
  /\ Finish(Scaled(Last))
  /\ UNCHANGED <<tries, asm, iteration>>

-----------------------------------------------------------------------------
Write ==
  /\ strategy = "idle"
  /\ saved' = velocity
  /\ UNCHANGED <<setup, guess, derived, progress, updates, runs, attempted>>

(* SSA::init_impl() reads the guess from the input file, or begins with 0   *)
(* (-bootstrap, -dontreadSSAvels); SSAFEM copies it to its own vector.      *)
Restart ==
  /\ strategy \in {"idle", "failed"}
  /\ runs < MaxRuns
  /\ runs' = runs + 1
  /\ velocity' \in {Zero, saved}
  /\ global' = IF setup.solver = "fem" THEN velocity' ELSE Zero
  /\ old' = Zero
  /\ heating' = Zero /\ column' = Zero
  /\ strategy' = "idle" /\ tries' = 0 /\ asm' = FALSE /\ iteration' = 0
  /\ failures' = 0
  /\ attempted' = {}
  /\ UNCHANGED <<setup, updates, saved>>

Solve ==
  \/ Iterate \/ Converge \/ RetryWithASM \/ LinearSolveFails
  \/ TryUnderrelaxed \/ TryRegularized \/ GiveUp

SolverNext == BeginFD \/ SolveFEM \/ Solve \/ Write \/ Restart

SolverSpec == SolverInit /\ [][SolverNext]_solverVars

(* run() does nothing else while the stress balance is solved.              *)
FairSolverSpec == SolverSpec /\ WF_solverVars(Solve)

-----------------------------------------------------------------------------
States == {"zero", "iterate", "converged", "diverged"}
Velocities == [update : 0..MaxUpdates, state : States, scaled : Nat]

SolverTypeOK ==
  /\ setup \in SetupType
  /\ {velocity, global, old, heating, column, saved} \subseteq Velocities
  /\ strategy \in Strategies \cup {"idle", "failed"}
  /\ tries \in 0..(MaxTries - 1)
  /\ asm \in BOOLEAN
  /\ iteration \in 0..(MaxIterations - 1)
  /\ failures \in 0..MaxFailures
  /\ updates \in 0..MaxUpdates
  /\ runs \in 1..MaxRuns
  /\ attempted \subseteq Strategies \X (0..(MaxTries - 1))

(* The attempts solve() can make, in all three strategies.                  *)
AllAttempts ==
  {<<"default", 0>>, <<"underrelaxed", 0>>} \cup
    (IF setup.regularized THEN {"regularized"} \X (0..(MaxTries - 1)) ELSE {})

(* The vector of a linear solve that diverged never becomes the velocity,   *)
(* its guess, a derived field or part of a file, whichever retry follows.   *)
NeverDiverged ==
  \A v \in {velocity, old, heating, column, saved} : v.state # "diverged"

(* solve() leaves a velocity that did not converge only when each of its    *)
(* strategies, with every regularization, has failed in this very update;   *)
(* no failure ends the loop early or passes over a strategy.                *)
UnsolvedAfterAll ==
  strategy = "idle" /\ heating.state = "iterate" =>
    setup.solver = "fd" /\ attempted = AllAttempts /\ velocity.update = updates

(* A failed attempt leaves no trace: regularized attempts, and attempts     *)
(* repeated with another preconditioner, start from the velocity the update *)
(* found, however many iterations were made in between.                     *)
FreshGuess ==
  Solving /\ iteration = 0 /\ velocity # old =>
    strategy = "underrelaxed" /\ velocity = Last

(* After an update the velocity is a new one, scaled exactly once if the    *)
(* user wants it so, although the update began with a scaled guess; and the *)
(* basal heating and the 3D fields belong to it.                            *)
ScaledOnce ==
  strategy = "idle" /\ heating # Zero =>
    /\ velocity = heating
    /\ velocity = column
    /\ velocity.update = updates
    /\ velocity.scaled = IF setup.solver = "fd" /\ setup.brutal THEN 1 ELSE 0

Recovery ==
  SolverTypeOK /\ NeverDiverged /\ UnsolvedAfterAll /\ FreshGuess /\ ScaledOnce

(* Every update ends, with a velocity or with an error, whatever fails.     *)
UpdateEnds == Solving ~> ~Solving

-----------------------------------------------------------------------------
(* What the code's comments say and the code does not do.                   *)

(* "if we reached this, then all strategies above failed": the run ends     *)
(* with an error when no strategy converged.                                *)
FailureReported ==
  strategy = "idle" => velocity.state # "iterate"

(* "The same over-regularization is attempted if the KSP object reports     *)
(* that it has not converged."                                              *)
RegularizedAfterKSP ==
  strategy = "failed" /\ setup.solver = "fd" /\ setup.regularized =>
    \E t \in 0..(MaxTries - 1) : <<"regularized", t>> \in attempted

=============================================================================

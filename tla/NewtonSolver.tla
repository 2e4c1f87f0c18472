---------------------------- MODULE NewtonSolver ----------------------------
(***************************************************************************)
(* NewtonRaphsonSolver::solve(), called again and again on the same solver *)
(* object: by every coupling iteration of every time step of the heat      *)
(* operation, by the elliptic reinitialisation and by the implicit time    *)
(* integrators.  The nonlinear problem is the caller's: vectors are        *)
(* represented by integers and their norms, the residual of one call is    *)
(* any function, the linear solver returns any update.  The names of its   *)
(* specification differ from those of Reinitialization, so that one module *)
(* can extend both.                                                        *)
(***************************************************************************)
EXTENDS Integers, Sequences

CONSTANTS
  MaxIter,      (* "max nonlinear iterations"                               *)
  MaxIterAlt,   (* "max nonlinear iterations alt"                           *)
  ResTol, CorTol,       (* "residual tolerance", "field correction          *)
                        (* tolerance", in units of 1 / Scale                *)
  ResTolAlt, CorTolAlt, (* "... alt"                                        *)
  Scale,
  MaxX, MaxR,   (* bounds of the solution's and the residual's norm         *)
  MaxCalls      (* bound on the calls of solve()                            *)

ASSUME NewtonAssumption ==
  /\ {MaxIter, MaxIterAlt, MaxX, MaxR, MaxCalls} \subseteq Nat
  /\ {ResTol, CorTol, ResTolAlt, CorTolAlt, Scale} \subseteq Nat \ {0}

VARIABLES
  relative,  (* nlsolve_data.use_relative_tolerances                        *)
  problem,   (* the residual of this call, by the evaluation point          *)
  x,         (* the caller's solution vector                                *)
  rhs,       (* the right-hand side of the last iteration                   *)
  update,    (* solution_update of the last iteration                       *)
  i,         (* the iteration                                               *)
  tol,       (* residual_tolerance and field_correction_tolerance           *)
  r0,        (* initial_residual_norm                                       *)
  stage,     (* "idle" (not called or returned), "loop", "check", "thrown"  *)
  calls,
  seen       (* history: the iterations of this call, [x, rhs, update]      *)

newtonVars == <<relative, problem, x, rhs, update, i, tol, r0, stage, calls, seen>>

Points == 0 .. MaxX
Residuals == 0 .. MaxR
Updates == -MaxX .. MaxX
Tolerances == [res : Nat, cor : Nat]

Norm(v) == IF v < 0 THEN -v ELSE v

Standard == [res |-> ResTol, cor |-> CorTol]
Alternative == [res |-> ResTolAlt, cor |-> CorTolAlt]

MaxNumberOfIterations == MaxIter + MaxIterAlt

NewtonInit ==
  /\ relative \in BOOLEAN
  /\ problem = [p \in Points |-> 0]
  /\ x \in Points
  /\ rhs = 0
  /\ update = 0
  /\ i = 0
  /\ tol = Standard
  /\ r0 = 0
  /\ stage = "idle"
  /\ calls = 0
  /\ seen = <<>>

-----------------------------------------------------------------------------
(* Mutated: the tolerances of the last call are kept.                      *)
CallKeepsTolerances ==
  /\ stage = "idle"
  /\ calls < MaxCalls
  /\ calls' = calls + 1
  /\ problem' \in [Points -> Residuals]
  /\ x' \in Points
  /\ rhs' = 0
  /\ update' = 0
  /\ i' = 0
  /\ seen' = <<>>
  /\ stage' = "loop"
  /\ UNCHANGED <<relative, tol, r0>>

(* solve() up to the loop, for the problem and the initial guess of the    *)
(* caller (the predictor's, or the solution of the last call).             *)
Call ==
  /\ stage = "idle"
  /\ calls < MaxCalls
  /\ calls' = calls + 1
  /\ problem' \in [Points -> Residuals]
  /\ x' \in Points
  /\ rhs' = 0
  /\ update' = 0
  /\ tol' = Standard
  /\ i' = 0
  /\ seen' = <<>>
  /\ stage' = "loop"
  /\ UNCHANGED <<relative, r0>>

(* Mutated: the alternative tolerances come one iteration late.            *)
ToleranceLate(k) == IF k = MaxIter + 1 THEN Alternative ELSE tol

(* Iteration MaxIter continues with the alternative tolerances.            *)
Tolerance(k) == IF k = MaxIter THEN Alternative ELSE tol

(* The residual the call began with.                                       *)
InitialResidualNorm(r) == IF i = 0 THEN r ELSE r0

(* The head of the loop: residual and update at the present solution.      *)
SolveIncrement ==
  /\ stage = "loop"
  /\ i < MaxNumberOfIterations
  /\ tol' = Tolerance(i)
  /\ rhs' = problem[x]
  /\ update' \in Updates
  /\ r0' = InitialResidualNorm(rhs')
  /\ seen' = Append(seen, [x |-> x, rhs |-> rhs', update |-> update'])
  /\ stage' = "check"
  /\ UNCHANGED <<relative, problem, x, i, calls>>

(* norm < tolerance, the norm in units of a reference norm unless that is  *)
(* zero.                                                                   *)
Below(norm, reference, tolerance) ==
  norm * Scale < tolerance * (IF relative /\ reference > 0 THEN reference ELSE 1)

IsConverged ==
  Below(rhs, r0, tol.res) /\ Below(Norm(update), x, tol.cor)

(* distribute_constraints(): the solution goes back to what they allow.    *)
Distributed(v) == IF v < 0 THEN 0 ELSE IF v > MaxX THEN MaxX ELSE v

(* Mutated: the last update is added before the return.                    *)
ReturnUpdated ==
  /\ stage = "check"
  /\ IsConverged
  /\ x' = Distributed(x + update)
  /\ stage' = "idle"
  /\ UNCHANGED <<relative, problem, rhs, update, i, tol, r0, calls, seen>>

(* Converged: the solution stays the one the residual belongs to.          *)
Converge ==
  /\ stage = "check"
  /\ IsConverged
  /\ stage' = "idle"
  /\ UNCHANGED <<relative, problem, x, rhs, update, i, tol, r0, calls, seen>>

(* Mutated: the iteration is not counted.                                  *)
UpdateNotCounted ==
  /\ stage = "check"
  /\ ~IsConverged
  /\ x' = Distributed(x + update)
  /\ stage' = "loop"
  /\ seen' = <<>>
  /\ UNCHANGED <<relative, problem, rhs, update, i, tol, r0, calls>>

Update ==
  /\ stage = "check"
  /\ ~IsConverged
  /\ x' = Distributed(x + update)
  /\ i' = i + 1
  /\ stage' = "loop"
  /\ UNCHANGED <<relative, problem, rhs, update, tol, r0, calls, seen>>

(* ExcNewtonDidNotConverge                                                 *)
Throw ==
  /\ stage = "loop"
  /\ i >= MaxNumberOfIterations
  /\ stage' = "thrown"
  /\ UNCHANGED <<relative, problem, x, rhs, update, i, tol, r0, calls, seen>>

NewtonNext == Call \/ SolveIncrement \/ Converge \/ Update \/ Throw

NewtonSpec == NewtonInit /\ [][NewtonNext]_newtonVars

(* solve() runs to its end; nobody has to call it.                         *)
NewtonFairSpec == NewtonSpec /\ WF_newtonVars(SolveIncrement \/ Converge \/ Update \/ Throw)

-----------------------------------------------------------------------------
(* The criterion of newton_raphson_solver.hpp for iteration k of this      *)
(* call, from the parameters and the iterations alone.                     *)
CriterionMet(k) ==
  LET t == IF k <= MaxIter THEN Standard ELSE Alternative IN
    /\ Below(seen[k].rhs, seen[1].rhs, t.res)
    /\ Below(Norm(seen[k].update), seen[k].x, t.cor)

(* Types; the iterations are counted up to the sum of both maxima.         *)
NewtonTypeOK ==
  /\ relative \in BOOLEAN
  /\ problem \in [Points -> Residuals]
  /\ x \in Points
  /\ rhs \in Residuals
  /\ update \in Updates
  /\ i \in 0 .. MaxIter + MaxIterAlt
  /\ tol \in {Standard, Alternative}
  /\ r0 \in Residuals
  /\ stage \in {"idle", "loop", "check", "thrown"}
  /\ calls \in 0 .. MaxCalls
  /\ seen \in Seq([x : Points, rhs : Residuals, update : Updates])
  /\ Len(seen) <= MaxIter + MaxIterAlt

(* A call that returns has met the documented criterion in its last        *)
(* iteration, with the tolerances of that iteration and the initial        *)
(* residual of this call, whatever the calls before left in the solver     *)
(* ("Each call to solve() starts with the standard tolerances").           *)
ReturnsConverged == stage = "idle" /\ calls > 0 => CriterionMet(Len(seen))

(* No call goes on after the criterion was met, and a call throws only     *)
(* when it was met in none of all the iterations it is allowed.            *)
StopsAtFirst ==
  /\ stage \in {"loop", "thrown"} => \A k \in 1 .. Len(seen) : ~CriterionMet(k)
  /\ stage = "thrown" => Len(seen) = MaxIter + MaxIterAlt

(* "On convergence, the solution update of the last Newton iteration is    *)
(* not added to the solution. Thus, get_residual() corresponds to the      *)
(* returned solution" (newton_raphson_solver.hpp).                         *)
ResidualOfSolution ==
  stage = "idle" /\ calls > 0 => rhs = problem[x] /\ x = seen[Len(seen)].x

(* Every call returns or throws.                                           *)
CallEnds == stage = "loop" ~> stage \in {"idle", "thrown"}
=============================================================================

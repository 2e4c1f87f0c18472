--------------------------- MODULE TimeIntegrators ---------------------------
(***************************************************************************)
(* The time integrators of the discontinuous Galerkin operations, driven   *)
(* as the operations drive them: DG advection and DG reinitialisation of   *)
(* the level set, and the compressible flow.  perform_time_step() is       *)
(* followed stage by stage through the registers it uses.                  *)
(*                                                                         *)
(* The equations solved are y' = p t^(p-1) for p = 1 .. order, all at once *)
(* (unit_tests/time_integration does so with one p): a vector is the       *)
(* function p -> value, the field at time t is p -> t^p, and the first     *)
(* component of a stage tells the time the stage is at.  Where an operator *)
(* takes the t of its right-hand side from differs: see ReadAt.  Component *)
(* 0 is moved by the implicit diffusion of the reinitialisation only.      *)
(***************************************************************************)
EXTENDS Integers, Sequences, SequencesExt, FiniteSetsExt

CONSTANTS
  Cases,     \* records: caller, scheme (with its coefficients), where the operator reads the time,
             \* implicit diffusion of the reinitialisation
  Factors,   \* sizes a time step may have, in units of the scheme
  MaxSteps   \* bound: time steps

\* "advection" and "reinit" run on the time iterator, "flow" is handed t^n by its caller.
Callers == {"advection", "reinit", "flow"}

\* What the operator of a caller depends on: its argument alone, the velocity function of the
\* advection or its boundary values, the time it is handed.
Readings ==
  [c \in Callers |-> CASE c = "reinit" -> {"argument"}
                       [] c = "advection" -> {"velocity", "boundary"}
                       [] OTHER -> {"time"}]

ASSUME IntegratorAssumption ==
  /\ \A c \in Cases :
       /\ c.caller \in Callers /\ c.reads \in Readings[c.caller]
       /\ c.diffusion => c.caller = "reinit"
       /\ c.scheme.unit \in Nat \ {0} /\ c.scheme.order \in Nat \ {0} /\ c.scheme.rounding \in Nat
  /\ Factors \subseteq Nat \ {0}
  /\ MaxSteps \in Nat

VARIABLES
  case,    \* the operation and its scheme
  now,     \* current_time of the time iterator
  dt,      \* size of this time step
  hist,    \* solution_history
  start,   \* the solution this step began with, for the properties
  reg,     \* the registers of the integrator
  stage,   \* number of the stage to come
  count,   \* step_count of the BDF integrator: the order of its weights
  evals,   \* where this stage evaluated the right-hand side: times given, times of the arguments
  change,  \* max_change_level_set of the reinitialisation
  steps,   \* number of time steps
  pc       \* "ready", "stage", "done", "stopped"

vars == <<case, now, dt, hist, start, reg, stage, count, evals, change, steps, pc>>

Scheme == case.scheme
Degrees == 1 .. Scheme.order
Components == Degrees \cup {0}
\* The diffusion is the faster part, so that it shows in the maximum norm.
DiffusionRate == 2
Field(t) ==
  [p \in Components |->
     IF p > 0 THEN t ^ p ELSE IF case.diffusion THEN DiffusionRate * t ELSE 0]
Blank == [p \in Components |-> 0]

Registers == {"ri", "ki", "stageSolution", "oldSolution", "F0", "Fj1", "Yj1", "Yj2", "explicit"}
ClearRegisters == [x \in Registers |-> Blank]

\* q * x for a quotient q; the units of the schemes make it an integer (small factors first: TLC's
\* integers have 32 bits).
Times(q, x) == q[1] * (x \div q[2]) + (q[1] * (x % q[2])) \div q[2]

\* The time of the data an operator evaluates when it is handed t and y.  apply_operator() of the DG
\* advection hands t to its boundary values only; its velocity function has the time the
\* application set before the step (the new time), as only explicit schemes set it in between.
\* The Hamiltonian of the reinitialisation depends on the argument and not on the time.
ReadAt(t, y) ==
  CASE case.reads = "argument" -> y[1]
    [] case.reads = "velocity" -> now
    [] OTHER -> t

\* The right-hand side is added to what the destination holds.
Rhs(dst, t, y) ==
  [p \in Components |-> dst[p] + (IF p = 0 THEN 0 ELSE p * ReadAt(t, y) ^ (p - 1))]

\* y + q dt k
Advanced(y, q, k) == [p \in Components |-> y[p] + Times(q, dt * k[p])]

\* required_solution_history_size() for the flow; the level set operations keep at least two.
HistorySize ==
  IF case.caller # "flow" THEN 2
  ELSE CASE Scheme.kind = "BDF" -> Scheme.order_bdf + 1
         [] Scheme.kind = "imex" -> 2
         [] OTHER -> 1

Committed(h) == [i \in DOMAIN h |-> IF i = 0 THEN h[0] ELSE h[i - 1]]
WithRecentOld(h, v) == [i \in DOMAIN h |-> IF i = 1 THEN v ELSE h[i]]

\* set_initial_condition(): the level set operations write the recent old solution, too.
Init ==
  /\ case \in Cases
  /\ now = Scheme.unit
  /\ dt = Scheme.unit
  /\ hist = [i \in 0 .. HistorySize - 1 |->
               IF i = 0 \/ case.caller # "flow" THEN Field(now) ELSE Blank]
  /\ start = hist[0]
  /\ reg = ClearRegisters
  /\ stage = 0 /\ count = 0 /\ evals = {} /\ change = 0 /\ steps = 0
  /\ pc = "ready"

\* A BDF scheme has weights for equal steps only.
StepSizes == IF Scheme.kind = "BDF" THEN {Scheme.unit} ELSE {f * Scheme.unit : f \in Factors}

\* Mutated: the flow does not commit its history.
CommittedAtBegin_level == IF case.caller = "advection" THEN Committed(hist) ELSE hist

\* The DG advection and the flow commit before a step, the reinitialisation after it.
CommittedAtBegin == IF case.caller # "reinit" THEN Committed(hist) ELSE hist

\* apply_diffusion_implicit() makes a step from the recent old solution to the current one (e.g. the
\* implicit Euler scheme), and solve() writes the result over the recent old one.
Diffused(h, size) ==
  LET diffused == [h[1] EXCEPT ![0] = @ + DiffusionRate * size]
  IN  WithRecentOld([h EXCEPT ![0] = diffused], diffused)

BeginStep ==
  /\ pc = "ready" /\ steps < MaxSteps
  /\ dt' \in StepSizes
  /\ now' = now + dt'
  /\ hist' = IF case.diffusion THEN Diffused(CommittedAtBegin, dt') ELSE CommittedAtBegin
  /\ start' = hist[0]
  /\ stage' = 0 /\ evals' = {}
  /\ pc' = "stage"
  /\ UNCHANGED <<case, reg, count, change, steps>>

\* Mutated: the DG advection passes the old time to every integrator.
Called_old == now - dt

\* current_time as perform_time_step() receives it: the DG advection passes the new time.
Called == IF case.caller = "advection" THEN now ELSE now - dt

\* Mutated: registers are not zeroed before the right-hand side is added.
Zeroed_kept(v) == v

Zeroed(v) == Blank

\* The time a right-hand side is of, and the time of its argument.
Evaluated(t, y) == [given |-> ReadAt(t, y), of |-> y[1]]

\* One more stage, or the end of perform_time_step().
Turn(last) ==
  /\ pc = "stage"
  /\ stage' = stage + 1
  /\ pc' = IF last THEN "done" ELSE "stage"
  /\ UNCHANGED <<case, now, dt, start, change, steps>>

-----------------------------------------------------------------------------
(* LowStorageExplicitRungeKuttaIntegrator *)

\* ci, from ai and bi; counted from zero.
C(i) ==
  IF i = 0 THEN 0
  ELSE FoldLeft(LAMBDA sum, q : sum + Times(q, dt), Times(Scheme.a[i], dt), SubSeq(Scheme.b, 1, i - 1))

\* The time of a stage: with the coefficient of the stage before.
StageTime == IF stage = 0 THEN Called ELSE Called + C(stage - 1)

\* rk_register_ri.swap(rk_register_ki): the next stage's argument is in ri.
Swapped(next) == [reg EXCEPT !.ri = next, !.ki = reg.ri]

\* The current solution collects the increments, the registers hold the stage to come.
LowStorageStage ==
  LET last == stage = Len(Scheme.b) - 1
      y    == IF stage = 0 THEN hist[0] ELSE reg.ri
      k    == Rhs(Zeroed(IF stage = 0 THEN reg.ri ELSE reg.ki), StageTime, y)
      next == IF last THEN k ELSE Advanced(hist[0], Scheme.a[stage + 1], k)
  IN
  /\ Scheme.kind = "LSRK"
  /\ Turn(last)
  /\ hist' = [hist EXCEPT ![0] = Advanced(@, Scheme.b[stage + 1], k)]
  /\ reg' = IF stage = 0 THEN [reg EXCEPT !.ri = next] ELSE Swapped(next)
  /\ evals' = {Evaluated(StageTime, y)}
  /\ UNCHANGED count

-----------------------------------------------------------------------------
(* ExplicitSSPRungeKuttaIntegrator *)

\* Mutated: the current solution is overwritten in every stage.
Kept_stage(last, v) == v

\* The current solution is u^n until the last stage is done.
Kept(last, v) == IF last THEN v ELSE hist[0]

SSPStage ==
  LET s    == stage + 1
      last == s = Len(Scheme.old)
      time == Called + Times(Scheme.time[s], dt)
      y    == IF stage = 0 THEN hist[0] ELSE reg.stageSolution
      k    == Rhs(Zeroed(reg.oldSolution), time, y)
      mix  == [p \in Components |-> Times(Scheme.old[s], hist[0][p])
                                  + Times(Scheme.stage[s], reg.stageSolution[p])]
      next == Advanced(mix, Scheme.step[s], k)
  IN
  /\ Scheme.kind = "SSP"
  /\ Turn(last)
  /\ reg' = [reg EXCEPT !.oldSolution = mix, !.stageSolution = next]
  /\ hist' = [hist EXCEPT ![0] = Kept(last, next)]
  /\ evals' = {Evaluated(time, y)}
  /\ UNCHANGED count

-----------------------------------------------------------------------------
(* ExplicitRungeKuttaChebyshevIntegrator, with the damping parameter epsilon = 0 (w0 = 1) *)

Abs(x) == IF x < 0 THEN -x ELSE x
Quotient(n, d) ==
  IF n = 0 THEN <<0, 1>>
  ELSE LET g == Max({k \in 1 .. Abs(n) : n % k = 0 /\ d % k = 0}) IN <<n \div g, d \div g>>
Product(q, r) == Quotient(q[1] * r[1], q[2] * r[2])
Ratio(q, r) == Quotient(q[1] * r[2], q[2] * r[1])
Minus(q, r) == Quotient(q[1] * r[2] - r[1] * q[2], q[2] * r[2])
One == <<1, 1>>
Two == <<2, 1>>

Stages == 2 .. 5

\* Derivatives of the Chebyshev polynomials at w0 = 1, where the polynomials themselves are 1.
dChebyshev[i \in 0 .. 5] ==
  IF i < 2 THEN i ELSE 2 * (1 + dChebyshev[i - 1]) - dChebyshev[i - 2]
d2Chebyshev[i \in 0 .. 5] ==
  IF i < 2 THEN 0 ELSE 4 * dChebyshev[i - 1] + 2 * d2Chebyshev[i - 1] - d2Chebyshev[i - 2]

bj == [i \in 0 .. 5 |-> LET m == Max({i, 2}) IN Quotient(d2Chebyshev[m], dChebyshev[m] ^ 2)]
w1 == [s \in Stages |-> Quotient(dChebyshev[s], d2Chebyshev[s])]

mu == [i \in Stages |-> Product(Two, Ratio(bj[i], bj[i - 1]))]
nu == [i \in Stages |-> Minus(<<0, 1>>, Ratio(bj[i], bj[i - 2]))]
muTilde ==
  [s \in Stages |-> [i \in 1 .. s |->
     IF i = 1 THEN Product(bj[1], w1[s]) ELSE Product(Two, Ratio(Product(bj[i], w1[s]), bj[i - 1]))]]
gammaTilde ==
  [s \in Stages |-> [i \in 2 .. s |-> Product(Minus(bj[i - 1], One), muTilde[s][i])]]

\* The coefficients of stages in between; the last stage is at one, the first follows the second.
Between(s, i) == IF i = s THEN One ELSE Product(Product(w1[s], bj[i]), <<dChebyshev[i], 1>>)
cj ==
  [s \in Stages |-> [i \in 0 .. s |->
     CASE i = 0 -> <<0, 1>>
       [] i = 1 -> Ratio(Between(s, 2), <<dChebyshev[2], 1>>)
       [] OTHER -> Between(s, i)]]

\* F0 and the first stage.
ChebyshevFirst ==
  LET F0 == Rhs(Zeroed(reg.F0), Called, hist[0])
  IN
  /\ Scheme.kind = "RKC" /\ stage = 0
  /\ Turn(FALSE)
  /\ reg' = [reg EXCEPT !.Yj2 = hist[0], !.Fj1 = Zeroed(@), !.F0 = F0,
                        !.Yj1 = Advanced(hist[0], muTilde[Scheme.s][1], F0)]
  /\ evals' = {Evaluated(Called, hist[0])}
  /\ UNCHANGED <<hist, count>>

\* Mutated: the right-hand side is evaluated at the time of the stage it leads to.
ArgumentStage_next(j) == j

\* "RHS is evaluated at time for stage-1".
ArgumentStage(j) == j - 1

\* Stage j in 2 .. s: a three-term recurrence over Yj1, Yj2 and the current solution.
ChebyshevStage ==
  LET s    == Scheme.s
      j    == stage + 1
      last == j = s
      time == Called + Times(cj[s][ArgumentStage(j)], dt)
      Fj1  == Rhs(reg.Fj1, time, reg.Yj1)
      own  == Minus(Minus(One, mu[j]), nu[j])
      mix  == [p \in Components |-> Times(own, hist[0][p]) + Times(mu[j], reg.Yj1[p])
                                  + Times(nu[j], reg.Yj2[p])]
      next == Advanced(Advanced(mix, muTilde[s][j], Fj1), gammaTilde[s][j], reg.F0)
  IN
  /\ Scheme.kind = "RKC" /\ stage > 0
  /\ Turn(last)
  /\ IF last
       THEN /\ hist' = [hist EXCEPT ![0] = next]
            /\ reg' = [reg EXCEPT !.Fj1 = Fj1]
       ELSE /\ reg' = [reg EXCEPT !.Yj1 = next, !.Yj2 = reg.Yj1, !.Fj1 = Zeroed(Fj1)]
            /\ UNCHANGED hist
  /\ evals' = {Evaluated(time, reg.Yj1)}
  /\ UNCHANGED count

-----------------------------------------------------------------------------
(* OneStepTheta *)

\* current_time is the time at the end of the step here, and the recent old solution the start.  The
\* implicit part has the new solution in the fluxes and the old one in the boundary values.
ThetaStep ==
  LET oldTime == Called - dt
      explicit == Advanced(hist[1], Minus(One, Scheme.theta), Rhs(Blank, oldTime, hist[1]))
      new == Advanced(explicit, Scheme.theta, Rhs(Blank, oldTime + dt, hist[1]))
      argument == IF case.reads = "boundary" THEN hist[1] ELSE new
  IN
  /\ Scheme.kind = "theta"
  /\ Turn(TRUE)
  /\ hist' = [hist EXCEPT ![0] = new]
  /\ evals' = {Evaluated(oldTime, hist[1]), Evaluated(oldTime + dt, argument)}
  /\ UNCHANGED <<reg, count>>

-----------------------------------------------------------------------------
(* ImplicitExplicitIntegrator *)

\* The explicit part makes the step, the implicit one starts from it; a failing Newton iteration
\* ends the run.
ImplicitExplicitStep ==
  LET explicit == Advanced(hist[0], One, Rhs(Zeroed(reg.explicit), Called, hist[0]))
  IN
  /\ Scheme.kind = "imex" /\ pc = "stage"
  /\ reg' = [reg EXCEPT !.explicit = explicit]
  /\ stage' = stage + 1
  /\ evals' = {Evaluated(Called, hist[0])}
  /\ hist' = [hist EXCEPT ![0] = explicit]
  /\ pc' \in {"done", "stopped"}
  /\ UNCHANGED <<case, now, dt, start, count, change, steps>>

-----------------------------------------------------------------------------
(* BDFIntegrator *)

\* set_up_bdf_parameters(): weights of the old solutions over rhs over a common denominator.
BdfWeights ==
  <<[old |-> <<1>>, rhs |-> 1, den |-> 1],
    [old |-> <<4, -1>>, rhs |-> 2, den |-> 3],
    [old |-> <<18, -9, 2>>, rhs |-> 6, den |-> 11],
    [old |-> <<48, -36, 16, -3>>, rhs |-> 12, den |-> 25],
    [old |-> <<300, -300, 200, -75, 12>>, rhs |-> 60, den |-> 137],
    [old |-> <<360, -450, 400, -225, 72, -10>>, rhs |-> 60, den |-> 147]>>

\* Mutated: the scheme starts with its full order.
NextCount_full == Scheme.order_bdf

\* step_count: one more order in each of the first steps.
NextCount == IF count # Scheme.order_bdf THEN count + 1 ELSE count

BdfStep ==
  LET w == BdfWeights[NextCount]
      sum(p) == FoldLeftDomain(LAMBDA acc, j : acc + w.old[j] * hist[j][p], 0, w.old)
      new == [p \in Components |->
                (sum(p) + (IF p = 0 THEN 0 ELSE w.rhs * dt * p * now ^ (p - 1))) \div w.den]
  IN
  /\ Scheme.kind = "BDF" /\ pc = "stage"
  /\ count' = NextCount
  /\ hist' = [hist EXCEPT ![0] = new]
  /\ stage' = stage + 1
  /\ pc' \in {"done", "stopped"}
  /\ evals' = {}
  /\ UNCHANGED <<case, now, dt, start, reg, change, steps>>

-----------------------------------------------------------------------------
\* The maximum norm of a difference, over some components.
Distance(v, w, part) == Max({Abs(v[p] - w[p]) : p \in part})

\* Mutated: the change is measured after the history was committed.
Change_committed == Distance(Committed(hist)[1], Committed(hist)[0], Components)

\* The recent old solution minus the current one, in the maximum norm.
Change == Distance(hist[1], hist[0], Components)

\* ReinitializationHyperbolicDGOperation::solve() after the step: the recent old solution becomes
\* the change, then the history is committed.
EndStep ==
  /\ pc = "done"
  /\ IF case.caller = "reinit"
       THEN /\ change' = Change
            /\ hist' = Committed(hist)
       ELSE UNCHANGED <<hist, change>>
  /\ steps' = steps + 1
  /\ pc' = "ready"
  /\ UNCHANGED <<case, now, dt, start, reg, stage, count, evals>>

\* Refinement: reinit() of the level set operations; the history was attached, the registers not.
RefineMesh ==
  /\ pc = "ready" /\ case.caller # "flow"
  /\ reg' = ClearRegisters
  /\ UNCHANGED <<case, now, dt, hist, start, stage, count, evals, change, steps, pc>>

Next ==
  \/ BeginStep \/ EndStep \/ RefineMesh
  \/ LowStorageStage \/ SSPStage \/ ChebyshevFirst \/ ChebyshevStage
  \/ ThetaStep \/ ImplicitExplicitStep \/ BdfStep

Spec == Init /\ [][Next]_vars

-----------------------------------------------------------------------------

Vectors == [Components -> Int]

TypeOK ==
  /\ case \in Cases
  /\ now \in Nat /\ dt \in StepSizes
  /\ hist \in [0 .. HistorySize - 1 -> Vectors] /\ start \in Vectors
  /\ reg \in [Registers -> Vectors]
  /\ stage \in Nat /\ count \in Nat /\ change \in Nat
  /\ \A e \in evals : e.given \in Nat /\ e.of \in Int
  /\ steps \in 0 .. MaxSteps
  /\ pc \in {"ready", "stage", "done", "stopped"}

\* After every step the current solution is the field at the new time, up to the order of the case:
\* stage after stage, register after register, over diffusion, refinements and changing step sizes,
\* nothing is added twice, left over from the stage before or taken from a stale one.  The order is
\* the scheme's own for SSP, Chebyshev and one-stage schemes; two for the three-stage low storage
\* scheme, within the rounding of its coefficients per step; one where the velocity function of the
\* advection changes in time, and for the BDF schemes, which start with order one (HistoryWeighted
\* has their weights).
LandsOnTime ==
  pc \in {"ready", "done"} =>
    LET made == IF pc = "done" THEN steps + 1 ELSE steps
    IN  Distance(hist[0], Field(now), Components) <= made * Scheme.rounding

\* An operator that is handed the time, as that of the flow is, evaluates each right-hand side at the
\* time of its argument (explicit_runge_kutta_chebyshev_integrator.cpp: "RHS is evaluated at time
\* for stage-1"); and the registers a low storage scheme swaps hold the right stage, whatever the
\* operator reads: the argument of stage i is the solution at t^n + ci[i] dt.
RhsOnTime ==
  \A e \in evals :
    /\ case.reads = "time" => e.given = e.of
    /\ Scheme.kind = "LSRK" => e.of = now - dt + C(stage - 1)

\* advection_DG_operator.hpp: "The time needs to be explicitly passed for the case, that time
\* dependent boundary conditions or time dependent field functions are used": the velocity would be the
\* one at the time of the argument.  It is not (MCVelocity), so no run has this.
VelocityAtArgument == \A e \in evals : case.reads = "velocity" => e.given = e.of

\* The weights a BDF step uses are those of the number of steps since the start, at most the order
\* wanted; the j-th of them meets the field j steps ago; and they are exact for polynomials up to
\* this order, here at t = 0 with steps of one.
HistoryWeighted ==
  Scheme.kind = "BDF" /\ pc = "done" =>
    LET w == BdfWeights[count]
        weighted(p) == FoldLeftDomain(LAMBDA acc, j : acc + w.old[j] * (-j) ^ p, 0, w.old)
    IN
      /\ count = Min({steps + 1, Scheme.order_bdf})
      /\ \A j \in 1 .. count : hist[j] = Field(now - j * dt)
      /\ \A p \in 0 .. count :
           weighted(p) + (IF p = 1 THEN w.rhs ELSE 0) = (IF p = 0 THEN w.den ELSE 0)

\* The change the reinitialisation reports is the one of the step just done, whatever the history held
\* before: that of the hyperbolic part, which without implicit diffusion is the whole step.
ChangeOfStep ==
  case.caller = "reinit" /\ pc = "ready" /\ steps > 0 => change = Distance(hist[0], start, Degrees)

\* reinitialization_hyperbolic_DG_operation.hpp: "maximum change of the level set due to the current
\* reinitialization step", which would include its diffusion.  It does not (MCDiffusion), so no run
\* has this.
ChangeOfWholeStep ==
  case.caller = "reinit" /\ pc = "ready" /\ steps > 0 => change = Distance(hist[0], start, Components)
=============================================================================

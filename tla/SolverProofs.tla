---------------------------- MODULE SolverProofs ----------------------------
(***************************************************************************)
(* Proofs about the two loops that iterate until they may stop.            *)
(*                                                                         *)
(* Reinitialization, for all tolerances, limits and bounds: its type       *)
(* invariant, the limits of the two kinds of cycles, the normal vectors of *)
(* a cycle, the interface that a constraint holds, and that skipped        *)
(* changes do not add up.                                                  *)
(*                                                                         *)
(* NewtonSolver, for all iteration limits, tolerances and bounds, any      *)
(* number of calls, every residual function and every update the linear    *)
(* solver may return.  Nothing is used of the comparison Below.            *)
(***************************************************************************)
EXTENDS Reinitialization, NewtonSolver, TLAPS

USE ReinitializationAssumption

(* The maximum norm: a natural number, zero between equal fields, and the  *)
(* triangle inequality.                                                    *)
LEMMA DiffFacts ==
  ASSUME NEW f \in Field, NEW g \in Field, NEW h \in Field
  PROVE  /\ Diff(f, g) \in Nat
         /\ Diff(f, f) = 0
         /\ Diff(f, g) = Diff(g, f)
         /\ Diff(f, h) <= Diff(f, g) + Diff(g, h)
BY DEF Diff, Larger, Abs, Field, Place

LEMMA BlankFacts ==
  /\ Blank \notin Field
  /\ \A m \in Nat : \A p \in Place : Blank # [mesh |-> m, pos |-> p]
OBVIOUS

-----------------------------------------------------------------------------
(* Outside the pseudo-time loop its step number is zero, and the limit is  *)
(* that of the cycle that comes next.                                      *)
Limits ==
  /\ pc # "cycle" => n = 0
  /\ pc \in {"initialise", "step"} => max = MaxN
  /\ pc \in {"check", "cycle"} => max = (IF initial THEN NInitial ELSE MaxN)
  /\ n <= max

(* In a cycle a constraint holds the interface the cycle began with.       *)
Holding ==
  pc = "cycle" /\ data.constraint # "none" =>
    /\ quad # Blank
    /\ quad.pos = start.pos
    /\ field.pos = start.pos

(* The operation's own level set is what the last cycle left, up to the    *)
(* increment that was discarded; a skipped change is measured from it.     *)
Left ==
  /\ pc = "initialise" => base = Blank
  /\ pc \in {"check", "step"} /\ base # Blank =>
       reinit # Blank /\ Diff(reinit, base) <= Small
  /\ pc = "cycle" => start # Blank

IInv == TypeOK /\ Limits /\ NormalsFresh /\ Holding /\ Left /\ NoCreep

LEMMA QuadratureStep ==
  ASSUME TypeOK, NEW f \in Field, NEW k \in Nat, ComputeInterfaceQuadrature(f, k)
  PROVE  /\ quad' \in [mesh : 0 .. MaxMesh, pos : Place] \cup {Blank}
         /\ outdated' \in BOOLEAN
<1>1. f.pos \in Place
  BY DEF Field
<1>2. CASE UNCHANGED <<quad, outdated>>
  BY <1>2 DEF TypeOK
<1>3. CASE quad' = [mesh |-> mesh, pos |-> f.pos] /\ outdated' = FALSE
  BY <1>1, <1>3 DEF TypeOK
<1>4. QED
  BY <1>2, <1>3 DEF ComputeInterfaceQuadrature

LEMMA TypeStep == TypeOK /\ Limits /\ [Next]_vars => TypeOK'
<1> SUFFICES ASSUME TypeOK, Limits, [Next]_vars PROVE TypeOK'
  OBVIOUS
<1> USE DEF TypeOK, Limits, Larger
<1>1. CASE SetInitialField
  BY <1>1 DEF SetInitialField
<1>2. CASE SetInitialDistance
  BY <1>2 DEF SetInitialDistance
<1>3. CASE Advect
  <2>1. field' \in Field /\ steps' \in 0 .. MaxSteps
    BY <1>3 DEF Advect
  <2>2. {outdated', initial'} \subseteq BOOLEAN
    BY <1>3 DEF Advect
  <2>3. QED
    BY <1>3, <2>1, <2>2 DEF Advect
<1>4. CASE Skip
  BY <1>4 DEF Skip, Return
<1>5. CASE Begin
  <2>1. /\ normal' = [mesh |-> mesh, of |-> field]
        /\ reinit' = field
        /\ start' = field
    BY <1>5 DEF Begin, SetInitialCondition
  <2>2. QED
    BY <1>5, <2>1, QuadratureStep DEF Begin, SetInitialCondition
<1>6. CASE PseudoStep
  <2>1. PICK f \in Field :
          /\ field' = f
          /\ IF initial THEN SetInitialCondition(f, n + 1)
             ELSE reinit' = f /\ UNCHANGED <<normal, quad, outdated>>
    BY <1>6 DEF PseudoStep, Solved
  <2>2. reinit' = f /\ normal' \in [mesh : 0 .. MaxMesh, of : Field] \cup {Blank}
    BY <2>1 DEF SetInitialCondition
  <2>3. /\ quad' \in [mesh : 0 .. MaxMesh, pos : Place] \cup {Blank}
        /\ outdated' \in BOOLEAN
    BY <2>1, QuadratureStep DEF SetInitialCondition
  <2>4. n' \in 0 .. Larger(NInitial, MaxN)
    BY <1>6 DEF PseudoStep, IsFinished
  <2>5. QED
    BY <1>6, <2>1, <2>2, <2>3, <2>4 DEF PseudoStep
<1>7. CASE Settle
  BY <1>7 DEF Settle, Solved, Return
<1>8. CASE EndLoop
  BY <1>8 DEF EndLoop, Return
<1>9. CASE RefineInitial
  BY <1>9 DEF RefineInitial
<1>10. CASE Refine
  BY <1>10 DEF Refine
<1>11. CASE Restart
  BY <1>11 DEF Restart
<1>12. CASE UNCHANGED vars
  BY <1>12 DEF vars
<1>13. QED
  BY <1>1, <1>2, <1>3, <1>4, <1>5, <1>6, <1>7, <1>8, <1>9, <1>10, <1>11,
     <1>12 DEF Next

LEMMA LimitsStep == TypeOK /\ Limits /\ [Next]_vars => Limits'
<1> SUFFICES ASSUME TypeOK, Limits, [Next]_vars PROVE Limits'
  OBVIOUS
<1> USE DEF TypeOK, Limits
<1>1. CASE SetInitialField
  BY <1>1 DEF SetInitialField
<1>2. CASE SetInitialDistance
  BY <1>2 DEF SetInitialDistance
<1>3. CASE Advect
  BY <1>3 DEF Advect
<1>4. CASE Skip
  BY <1>4 DEF Skip, Return
<1>5. CASE Begin
  BY <1>5 DEF Begin
<1>6. CASE PseudoStep
  BY <1>6 DEF PseudoStep, IsFinished
<1>7. CASE Settle
  BY <1>7 DEF Settle, Return
<1>8. CASE EndLoop
  BY <1>8 DEF EndLoop, Return
<1>9. CASE RefineInitial
  BY <1>9 DEF RefineInitial
<1>10. CASE Refine
  BY <1>10 DEF Refine
<1>11. CASE Restart
  BY <1>11 DEF Restart
<1>12. CASE UNCHANGED vars
  BY <1>12 DEF vars
<1>13. QED
  BY <1>1, <1>2, <1>3, <1>4, <1>5, <1>6, <1>7, <1>8, <1>9, <1>10, <1>11,
     <1>12 DEF Next

(* Only Begin and PseudoStep lead to a state inside the loop.              *)
LEMMA EntersCycle ==
  ASSUME TypeOK, [Next]_vars, pc' = "cycle"
  PROVE  Begin \/ PseudoStep \/ UNCHANGED vars
BY DEF Next, SetInitialField, SetInitialDistance, Advect, Skip, Return, Settle,
       EndLoop, RefineInitial, Refine, Restart, TypeOK

LEMMA NormalsStep == TypeOK /\ NormalsFresh /\ [Next]_vars => NormalsFresh'
<1> SUFFICES ASSUME TypeOK, NormalsFresh, [Next]_vars, pc' = "cycle"
             PROVE  /\ reinit' = field'
                    /\ normal' = [mesh |-> mesh',
                                  of |-> IF initial' THEN field' ELSE start']
  BY DEF NormalsFresh
<1> USE DEF NormalsFresh
<1>1. CASE Begin
  BY <1>1 DEF Begin, SetInitialCondition
<1>2. CASE PseudoStep
  BY <1>2 DEF PseudoStep, SetInitialCondition
<1>3. CASE UNCHANGED vars
  BY <1>3 DEF vars
<1>4. QED
  BY <1>1, <1>2, <1>3, EntersCycle

(* A step of a held cycle starts where the quadrature is, so its result is *)
(* there as well.                                                          *)
LEMMA SolvedStays ==
  ASSUME NormalsFresh, Holding, pc = "cycle", data.constraint # "none",
         NEW p \in Place, Held(p)
  PROVE  p = start.pos
BY DEF Held, Holding, NormalsFresh

LEMMA HoldingStep ==
  TypeOK /\ Limits /\ NormalsFresh /\ Holding /\ [Next]_vars => Holding'
<1> SUFFICES ASSUME TypeOK, Limits, NormalsFresh, Holding, [Next]_vars,
                    pc' = "cycle", data'.constraint # "none"
             PROVE  quad' # Blank /\ quad'.pos = start'.pos /\ field'.pos = start'.pos
  BY DEF Holding
<1>1. CASE Begin
  <2>1. n = 0 /\ data' = data /\ field' = field /\ start' = field
    BY <1>1 DEF Begin, Limits
  <2>2. quad' = [mesh |-> mesh, pos |-> field.pos]
    BY <1>1, <2>1 DEF Begin, SetInitialCondition, ComputeInterfaceQuadrature
  <2>3. mesh \in Nat /\ field.pos \in Place
    BY DEF TypeOK, Field
  <2>4. QED
    BY <2>1, <2>2, <2>3, BlankFacts
<1>2. CASE PseudoStep
  <2>1. PICK f \in Field : /\ Solved(f)
                           /\ field' = f
                           /\ IF initial THEN SetInitialCondition(f, n + 1)
                              ELSE UNCHANGED <<normal, quad, outdated>>
    BY <1>2 DEF PseudoStep
  <2>2. pc = "cycle" /\ start' = start /\ data' = data /\ mesh \in Nat
    BY <1>2 DEF PseudoStep, TypeOK
  <2>3. f.pos \in Place
    BY DEF Field
  <2>4. f.pos = start.pos
    BY <2>1, <2>2, <2>3, SolvedStays DEF Solved
  <2>5. quad' = quad \/ quad' = [mesh |-> mesh, pos |-> f.pos]
    BY <2>1 DEF SetInitialCondition, ComputeInterfaceQuadrature
  <2>6. quad # Blank /\ quad.pos = start.pos
    BY <2>2 DEF Holding
  <2>7. QED
    BY <2>1, <2>2, <2>3, <2>4, <2>5, <2>6, BlankFacts
<1>3. CASE UNCHANGED vars
  BY <1>3 DEF vars, Holding
<1>4. QED
  BY <1>1, <1>2, <1>3, EntersCycle

LEMMA LeftStep == TypeOK /\ NormalsFresh /\ Left /\ [Next]_vars => Left'
<1> SUFFICES ASSUME TypeOK, NormalsFresh, Left, [Next]_vars PROVE Left'
  OBVIOUS
<1> USE BlankFacts DEF TypeOK, Left
<1>1. CASE SetInitialField
  BY <1>1 DEF SetInitialField
<1>2. CASE SetInitialDistance
  BY <1>2 DEF SetInitialDistance
<1>3. CASE Advect
  BY <1>3 DEF Advect
<1>4. CASE Skip
  BY <1>4 DEF Skip, Return
<1>5. CASE Begin
  BY <1>5 DEF Begin
<1>6. CASE PseudoStep
  BY <1>6 DEF PseudoStep
<1>7. CASE Settle
  <2>1. PICK f \in Field : Diff(f, reinit) <= Small /\ reinit' = f
    BY <1>7 DEF Settle
  <2>2. reinit = field
    BY <1>7 DEF Settle, NormalsFresh
  <2>3. QED
    BY <1>7, <2>1, <2>2 DEF Settle, Return
<1>8. CASE EndLoop
  <2>1. reinit' = field /\ base' = field /\ pc' = "step"
    BY <1>8 DEF EndLoop, Return, NormalsFresh
  <2>2. Diff(field, field) = 0
    BY DiffFacts
  <2>3. QED
    BY <2>1, <2>2
<1>9. CASE RefineInitial
  BY <1>9 DEF RefineInitial
<1>10. CASE Refine
  BY <1>10 DEF Refine
<1>11. CASE Restart
  BY <1>11 DEF Restart
<1>12. CASE UNCHANGED vars
  BY <1>12 DEF vars
<1>13. QED
  BY <1>1, <1>2, <1>3, <1>4, <1>5, <1>6, <1>7, <1>8, <1>9, <1>10, <1>11,
     <1>12 DEF Next

LEMMA NoCreepStep == TypeOK /\ Left /\ NoCreep /\ [Next]_vars => NoCreep'
<1> SUFFICES ASSUME TypeOK, Left, NoCreep, [Next]_vars, pc' = "step", base' # Blank
             PROVE  Diff(field', base') <= Tol + Small
  BY DEF NoCreep
<1>1. CASE SetInitialDistance
  BY <1>1 DEF SetInitialDistance, Left
<1>2. CASE Skip
  <2>1. field \in Field /\ base \in Field /\ field' = field /\ base' = base
    BY <1>2 DEF Skip, TypeOK
  <2>2. reinit \in Field /\ Diff(field, reinit) \in Nat /\ Diff(field, reinit) <= Tol
    BY <1>2, <2>1, DiffFacts DEF Skip, Changed, TypeOK
  <2>3. Diff(reinit, base) <= Small
    BY <1>2, <2>1 DEF Skip, Left
  <2>4. /\ Diff(reinit, base) \in Nat
        /\ Diff(field, base) \in Nat
        /\ Diff(field, base) <= Diff(field, reinit) + Diff(reinit, base)
    BY <2>1, <2>2, DiffFacts
  <2>5. QED
    BY <2>1, <2>2, <2>3, <2>4
<1>3. CASE Settle \/ EndLoop
  <2>1. field' = field /\ base' = field /\ field \in Field
    BY <1>3 DEF Settle, EndLoop, TypeOK
  <2>2. Diff(field, field) = 0
    BY <2>1, DiffFacts
  <2>3. QED
    BY <2>1, <2>2
<1>4. CASE Refine \/ Restart \/ UNCHANGED vars
  BY <1>4 DEF Refine, Restart, vars, NoCreep
<1>5. Skip \/ SetInitialDistance \/ Settle \/ EndLoop \/ Refine \/ Restart
      \/ UNCHANGED vars
  BY DEF Next, SetInitialField, Advect, Begin, PseudoStep, RefineInitial, TypeOK
<1>6. QED
  BY <1>1, <1>2, <1>3, <1>4, <1>5

-----------------------------------------------------------------------------
LEMMA InitIInv == Init => IInv
<1> SUFFICES ASSUME Init PROVE IInv
  OBVIOUS
<1>1. TypeOK
  <2>1. {outdated, initial} \subseteq BOOLEAN
    BY DEF Init
  <2>2. 0 \in 0 .. Larger(NInitial, MaxN)
    BY DEF Larger
  <2>3. QED
    BY <2>1, <2>2 DEF Init, TypeOK
<1>2. QED
  BY <1>1 DEF Init, IInv, Limits, NormalsFresh, Holding, Left, NoCreep

(* The inductive invariant holds in every reachable state.                 *)
THEOREM Invariance == Spec => []IInv
<1>1. IInv /\ [Next]_vars => IInv'
  BY TypeStep, LimitsStep, NormalsStep, HoldingStep, LeftStep, NoCreepStep DEF IInv
<1>2. QED
  BY <1>1, InitIInv, PTL DEF Spec

(* Every variable keeps its type; the pseudo-time step number stays within *)
(* the larger of both limits.                                              *)
THEOREM TypeCorrect == Spec => []TypeOK
BY Invariance, PTL DEF IInv

(* "n initial steps" limits the cycles of initial fields, "max n steps"    *)
(* every other one, though one iterator serves both.                       *)
THEOREM LimitsOfCycles == Spec => []StepsLimited
<1>1. IInv => StepsLimited
  BY DEF IInv, Limits, StepsLimited
<1>2. QED
  BY <1>1, Invariance, PTL

(* Pseudo-time steps start from the level set and use the normal vectors   *)
(* of their cycle, or of the present level set in the initial cycle.       *)
THEOREM NormalsOfCycle == Spec => []NormalsFresh
BY Invariance, PTL DEF IInv

(* Changes that are too small to be reinitialised do not add up: for all   *)
(* tolerances, however many steps, refinements and restarts there are.     *)
THEOREM ChangesBounded == Spec => []NoCreep
BY Invariance, PTL DEF IInv

(* With an interface constraint no pseudo-time step moves the interface    *)
(* from where its cycle began.                                             *)
THEOREM ConstraintHolds == Spec => InterfaceKept
<1>1. IInv /\ [Next]_vars =>
        (pc = "cycle" /\ data.constraint # "none" =>
           field'.pos = start.pos /\ reinit'.pos = start.pos) \/ UNCHANGED vars
  <2> SUFFICES ASSUME IInv, Next, pc = "cycle", data.constraint # "none"
               PROVE  field'.pos = start.pos /\ reinit'.pos = start.pos
    OBVIOUS
  <2>1. reinit = field /\ field.pos = start.pos
    BY DEF IInv, NormalsFresh, Holding
  <2>2. ASSUME NEW f \in Field, Solved(f) PROVE f.pos = start.pos
    <3>1. f.pos \in Place
      BY DEF Field
    <3>2. QED
      BY <2>2, <3>1, SolvedStays DEF Solved, IInv
  <2>3. CASE PseudoStep
    BY <2>2, <2>3 DEF PseudoStep, SetInitialCondition, Solved
  <2>4. CASE Settle
    BY <2>1, <2>2, <2>4 DEF Settle, Solved
  <2>5. CASE EndLoop
    BY <2>1, <2>5 DEF EndLoop
  <2>6. QED
    BY <2>3, <2>4, <2>5 DEF Next, SetInitialField, SetInitialDistance, Advect, Skip,
                            Begin, RefineInitial, Refine, Restart
<1>2. QED
  BY <1>1, Invariance, PTL DEF Spec, InterfaceKept

-----------------------------------------------------------------------------
(* The Newton solver                                                       *)

HIDE ReinitializationAssumption
USE NewtonAssumption

Iterations == [x : Points, rhs : Residuals, update : Updates]

(* seen is the record of this call: the i iterations before the present    *)
(* one, and the present one as soon as it is solved.  Tolerances and       *)
(* initial residual are those the record determines.                       *)
Recorded ==
  /\ stage \in {"loop", "thrown"} => Len(seen) = i
  /\ stage = "check" \/ (stage = "idle" /\ calls > 0) =>
       /\ Len(seen) = i + 1
       /\ seen[i + 1] = [x |-> x, rhs |-> rhs, update |-> update]
       /\ rhs = problem[x]
       /\ tol = (IF i < MaxIter THEN Standard ELSE Alternative)
  /\ stage = "check" => i < MaxIter + MaxIterAlt
  /\ stage = "loop" => tol = (IF i <= MaxIter THEN Standard ELSE Alternative)
  /\ Len(seen) > 0 => r0 = seen[1].rhs

(* The iterations the record counts as not converged.                      *)
NotYet ==
  /\ stage \in {"loop", "thrown"} => \A k \in 1 .. Len(seen) : ~CriterionMet(k)
  /\ stage = "check" => \A k \in 1 .. i : ~CriterionMet(k)
  /\ stage = "thrown" => i = MaxIter + MaxIterAlt

NewtonInv == NewtonTypeOK /\ Recorded /\ NotYet /\ ReturnsConverged

LEMMA NewtonTypeStep == NewtonTypeOK /\ Recorded /\ [NewtonNext]_newtonVars => NewtonTypeOK'
<1> SUFFICES ASSUME NewtonTypeOK, Recorded, [NewtonNext]_newtonVars PROVE NewtonTypeOK'
  OBVIOUS
<1> USE DEF NewtonTypeOK
<1>1. CASE Call
  <2>1. seen' = <<>> /\ tol' = Standard
    BY <1>1 DEF Call
  <2>2. seen' \in Seq([x : Points, rhs : Residuals, update : Updates]) /\ Len(seen') = 0
    BY <2>1
  <2>3. rhs' \in Residuals /\ update' \in Updates
    BY <1>1 DEF Call, Residuals, Updates
  <2>4. /\ problem' \in [Points -> Residuals]
        /\ x' \in Points
        /\ i' = 0 /\ stage' = "loop" /\ r0' = r0 /\ relative' = relative
        /\ calls' \in 0 .. MaxCalls
    BY <1>1 DEF Call
  <2>5. QED
    BY <2>1, <2>2, <2>3, <2>4
<1>2. CASE SolveIncrement
  <2>1. rhs' \in Residuals
    BY <1>2 DEF SolveIncrement
  <2>2. tol' \in {Standard, Alternative} /\ r0' \in Residuals
    BY <1>2, <2>1 DEF SolveIncrement, Tolerance, InitialResidualNorm
  <2>3. seen' = Append(seen, [x |-> x, rhs |-> rhs', update |-> update'])
    BY <1>2 DEF SolveIncrement
  <2>4. [x |-> x, rhs |-> rhs', update |-> update'] \in Iterations
    BY <1>2, <2>1 DEF SolveIncrement, Iterations
  <2>5. seen' \in Seq(Iterations) /\ Len(seen') = Len(seen) + 1
    BY <2>3, <2>4 DEF Iterations
  <2>6. Len(seen) = i /\ i < MaxIter + MaxIterAlt
    BY <1>2 DEF SolveIncrement, Recorded, MaxNumberOfIterations
  <2>7. QED
    BY <1>2, <2>1, <2>2, <2>5, <2>6 DEF SolveIncrement, Iterations
<1>3. CASE Converge
  BY <1>3 DEF Converge
<1>4. CASE Update
  <2>1. x' \in Points
    BY <1>4 DEF Update, Distributed, Points, Updates
  <2>2. i < MaxIter + MaxIterAlt
    BY <1>4 DEF Update, Recorded
  <2>3. QED
    BY <1>4, <2>1, <2>2 DEF Update
<1>5. CASE Throw
  BY <1>5 DEF Throw
<1>6. CASE UNCHANGED newtonVars
  BY <1>6 DEF newtonVars
<1>7. QED
  BY <1>1, <1>2, <1>3, <1>4, <1>5, <1>6 DEF NewtonNext

LEMMA RecordedStep == NewtonTypeOK /\ Recorded /\ [NewtonNext]_newtonVars => Recorded'
<1> SUFFICES ASSUME NewtonTypeOK, Recorded, [NewtonNext]_newtonVars PROVE Recorded'
  OBVIOUS
<1> USE DEF Recorded
<1>0. i \in Nat /\ seen \in Seq(Iterations) /\ Len(seen) \in Nat
  BY DEF NewtonTypeOK, Iterations
<1>1. CASE Call
  BY <1>1 DEF Call
<1>2. CASE SolveIncrement
  <2>1. /\ Len(seen') = i + 1
        /\ seen'[i + 1] = [x |-> x', rhs |-> rhs', update |-> update']
        /\ i > 0 => seen'[1] = seen[1]
    BY <1>0, <1>2 DEF SolveIncrement
  <2>2. r0' = seen'[1].rhs
    BY <1>0, <1>2, <2>1 DEF SolveIncrement, InitialResidualNorm
  <2>3. tol' = (IF i < MaxIter THEN Standard ELSE Alternative)
    BY <1>0, <1>2 DEF SolveIncrement, Tolerance
  <2>4. QED
    BY <1>0, <1>2, <2>1, <2>2, <2>3 DEF SolveIncrement, MaxNumberOfIterations
<1>3. CASE Converge
  BY <1>3 DEF Converge
<1>4. CASE Update
  BY <1>0, <1>4 DEF Update
<1>5. CASE Throw
  BY <1>5 DEF Throw
<1>6. CASE UNCHANGED newtonVars
  BY <1>6 DEF newtonVars
<1>7. QED
  BY <1>1, <1>2, <1>3, <1>4, <1>5, <1>6 DEF NewtonNext

(* The code's check, on members that calls and iterations leave behind,    *)
(* decides what the documented criterion says of the record.               *)
LEMMA CheckIsCriterion ==
  ASSUME NewtonTypeOK, Recorded, stage = "check"
  PROVE  IsConverged <=> CriterionMet(i + 1)
<1>1. i \in Nat
  BY DEF NewtonTypeOK
<1>2. /\ seen[i + 1].x = x
      /\ seen[i + 1].rhs = rhs
      /\ seen[i + 1].update = update
      /\ seen[1].rhs = r0
  BY <1>1 DEF Recorded
<1>3. tol = IF i + 1 <= MaxIter THEN Standard ELSE Alternative
  BY <1>1 DEF Recorded
<1>4. QED
  BY <1>2, <1>3 DEF IsConverged, CriterionMet

(* What an iteration has found does not change when others follow.         *)
LEMMA CriterionKept ==
  ASSUME NewtonTypeOK, SolveIncrement, NEW k \in 1 .. Len(seen)
  PROVE  CriterionMet(k)' <=> CriterionMet(k)
<1>1. seen' = Append(seen, [x |-> x, rhs |-> rhs', update |-> update'])
      /\ relative' = relative
  BY DEF SolveIncrement
<1>2. seen'[k] = seen[k] /\ seen'[1] = seen[1]
  BY <1>1 DEF NewtonTypeOK
<1>3. QED
  BY <1>1, <1>2 DEF CriterionMet, Below

LEMMA NotYetStep == NewtonTypeOK /\ Recorded /\ NotYet /\ [NewtonNext]_newtonVars => NotYet'
<1> SUFFICES ASSUME NewtonTypeOK, Recorded, NotYet, [NewtonNext]_newtonVars PROVE NotYet'
  OBVIOUS
<1>0. i \in Nat /\ i <= MaxIter + MaxIterAlt
  BY DEF NewtonTypeOK
<1>1. CASE Call
  BY <1>1 DEF Call, NotYet
<1>2. CASE SolveIncrement
  <2>1. stage' = "check" /\ i' = i /\ Len(seen) = i
    BY <1>2 DEF SolveIncrement, Recorded
  <2>2. \A k \in 1 .. i : ~CriterionMet(k)'
    BY <1>2, <2>1, CriterionKept DEF NotYet, SolveIncrement
  <2>3. QED
    BY <2>1, <2>2 DEF NotYet
<1>3. CASE Converge
  BY <1>3 DEF Converge, NotYet
<1>4. CASE Update
  <2>1. /\ stage' = "loop" /\ seen' = seen /\ relative' = relative
        /\ Len(seen) = i + 1
    BY <1>4 DEF Update, Recorded
  <2>2. ~CriterionMet(i + 1)
    BY <1>4, CheckIsCriterion DEF Update
  <2>3. \A k \in 1 .. i + 1 : ~CriterionMet(k)
    BY <1>0, <1>4, <2>2 DEF Update, NotYet
  <2>4. \A k \in 1 .. i + 1 : ~CriterionMet(k)'
    BY <2>1, <2>3 DEF CriterionMet, Below
  <2>5. QED
    BY <2>1, <2>4 DEF NotYet
<1>5. CASE Throw
  <2>1. /\ stage = "loop" /\ stage' = "thrown" /\ seen' = seen /\ relative' = relative
        /\ i' = i
    BY <1>5 DEF Throw
  <2>2. i = MaxIter + MaxIterAlt
    BY <1>0, <1>5 DEF Throw, MaxNumberOfIterations
  <2>3. \A k \in 1 .. Len(seen) : CriterionMet(k)' <=> CriterionMet(k)
    BY <2>1 DEF CriterionMet, Below
  <2>4. QED
    BY <2>1, <2>2, <2>3 DEF NotYet
<1>6. CASE UNCHANGED newtonVars
  <2>1. \A k \in 1 .. Len(seen) : CriterionMet(k)' <=> CriterionMet(k)
    BY <1>6 DEF newtonVars, CriterionMet, Below
  <2>2. i' = i /\ stage' = stage /\ seen' = seen
    BY <1>6 DEF newtonVars
  <2>3. stage = "check" => \A k \in 1 .. i : k \in 1 .. Len(seen)
    BY <1>0 DEF Recorded
  <2>4. QED
    BY <2>1, <2>2, <2>3 DEF NotYet
<1>7. QED
  BY <1>1, <1>2, <1>3, <1>4, <1>5, <1>6 DEF NewtonNext

LEMMA ReturnStep ==
  NewtonTypeOK /\ Recorded /\ ReturnsConverged /\ [NewtonNext]_newtonVars => ReturnsConverged'
<1> SUFFICES ASSUME NewtonTypeOK, Recorded, ReturnsConverged, [NewtonNext]_newtonVars,
                    stage' = "idle", calls' > 0
             PROVE  CriterionMet(Len(seen))'
  BY DEF ReturnsConverged
<1>1. CASE Converge
  <2>1. Len(seen) = i + 1 /\ seen' = seen /\ relative' = relative
    BY <1>1 DEF Converge, Recorded
  <2>2. CriterionMet(Len(seen))
    BY <1>1, <2>1, CheckIsCriterion DEF Converge
  <2>3. QED
    BY <2>1, <2>2 DEF CriterionMet, Below
<1>2. CASE UNCHANGED newtonVars
  BY <1>2 DEF newtonVars, ReturnsConverged, CriterionMet, Below
<1>3. QED
  BY <1>1, <1>2 DEF NewtonNext, Call, SolveIncrement, Update, Throw

-----------------------------------------------------------------------------
LEMMA NewtonInitInv == NewtonInit => NewtonInv
<1> SUFFICES ASSUME NewtonInit PROVE NewtonInv
  OBVIOUS
<1>1. NewtonTypeOK
  BY DEF NewtonInit, NewtonTypeOK, Residuals, Updates
<1>2. QED
  BY <1>1 DEF NewtonInit, NewtonInv, Recorded, NotYet, ReturnsConverged

(* The inductive invariant holds in every reachable state.                 *)
THEOREM NewtonInvariance == NewtonSpec => []NewtonInv
<1>1. NewtonInv /\ [NewtonNext]_newtonVars => NewtonInv'
  BY NewtonTypeStep, RecordedStep, NotYetStep, ReturnStep DEF NewtonInv
<1>2. QED
  BY <1>1, NewtonInitInv, PTL DEF NewtonSpec

(* Every variable keeps its type, and no call takes more iterations than   *)
(* the sum of both limits.                                                 *)
THEOREM NewtonTypeCorrect == NewtonSpec => []NewtonTypeOK
BY NewtonInvariance, PTL DEF NewtonInv

(* What is returned meets the documented criterion, with the tolerances    *)
(* and the initial residual of this call.                                  *)
THEOREM OnlyConvergedReturns == NewtonSpec => []ReturnsConverged
BY NewtonInvariance, PTL DEF NewtonInv

(* A call goes on and throws only if no iteration has met it.              *)
THEOREM FirstConvergedReturns == NewtonSpec => []StopsAtFirst
<1>1. NewtonInv => StopsAtFirst
  BY DEF NewtonInv, Recorded, NotYet, StopsAtFirst
<1>2. QED
  BY <1>1, NewtonInvariance, PTL

(* get_residual() after a call belongs to the returned solution.           *)
THEOREM ResidualBelongs == NewtonSpec => []ResidualOfSolution
<1>1. NewtonInv => ResidualOfSolution
  BY DEF NewtonInv, NewtonTypeOK, Recorded, ResidualOfSolution
<1>2. QED
  BY <1>1, NewtonInvariance, PTL
=============================================================================

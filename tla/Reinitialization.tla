-------------------------- MODULE Reinitialization --------------------------
(***************************************************************************)
(* Hyperbolic reinitialisation of the level set: do_reinitialization() of  *)
(* LevelSetOperation, the continuous Galerkin operation behind it, and the *)
(* pseudo-time iterator both share.  A level set field is the place of its *)
(* zero level set and its distance from a regular profile; advection moves *)
(* and distorts it, pseudo-time steps repair the profile and move the      *)
(* interface unless a constraint holds it.                                 *)
(***************************************************************************)
EXTENDS Integers

CONSTANTS
  Constraints, (* of the values of "interface constraint type"              *)
  Tol,         (* "tolerance"                                               *)
  Small,       (* the largest change that can end the pseudo-time steps     *)
  NInitial,    (* "n initial steps"                                         *)
  MaxN,        (* "max n steps"                                             *)
  MaxPos, MaxErr, MaxSteps, MaxMesh,  (* bounds                             *)
  Blank        (* a vector of zeros after reinit(); no surface quadrature   *)

Place == 0 .. MaxPos
Field == [pos : Place, err : 0 .. MaxErr]

ASSUME ReinitializationAssumption ==
  /\ Constraints \subseteq {"none", "dirichlet", "surface_penalty"}
  /\ Tol \in Nat \ {0}
  /\ {Small, NInitial, MaxN, MaxPos, MaxErr, MaxSteps, MaxMesh} \subseteq Nat
  /\ Blank \notin Field \cup [mesh : Nat, pos : Place] \cup [mesh : Nat, of : Field]

VARIABLES
  data,       (* the case: [constraint: "interface constraint type",        *)
              (* distance: is the initial field a signed distance]          *)
  mesh,       (* which mesh the vectors live on                             *)
  field,      (* LevelSetOperation::get_level_set()                         *)
  reinit,     (* solution_level_set of the reinitialisation operation       *)
  normal,     (* its normal vectors: of which field, on which mesh          *)
  quad,       (* mapping_info_surface: mesh and place of the interface      *)
  outdated,   (* interface_quadrature_is_outdated                           *)
  n, max,     (* reinit_time_iterator: step number, max_n_steps             *)
  initial,    (* update_normal_vector_in_every_cycle                        *)
  pc,         (* initialise, check, cycle, step                             *)
  steps,      (* time steps taken                                           *)
  start,      (* history: the field the last pseudo-time steps began with   *)
  base        (* history: the field they left behind                        *)

vars == <<data, mesh, field, reinit, normal, quad, outdated, n, max,
          initial, pc, steps, start, base>>

Abs(x) == IF x < 0 THEN -x ELSE x
Larger(x, y) == IF x < y THEN y ELSE x

(* The maximum norm of the difference of two fields.                       *)
Diff(f, g) == Larger(Abs(f.pos - g.pos), Abs(f.err - g.err))

(* Mutated: the step after the last one is taken.                          *)
FinishedTooLate == n > max

(* TimeIterator::is_finished(): the pseudo-time has no end.                *)
IsFinished == n >= max

-----------------------------------------------------------------------------
Init ==
  /\ data \in [constraint : Constraints, distance : BOOLEAN]
  /\ mesh = 0
  /\ field \in Field
  /\ reinit = Blank
  /\ normal = Blank
  /\ quad = Blank
  /\ outdated = TRUE
  /\ n = 0
  /\ max = MaxN
  /\ initial = FALSE
  /\ pc = "initialise"
  /\ steps = 0
  /\ start = Blank
  /\ base = Blank

(* set_initial_condition() for a level set function: more pseudo-time      *)
(* steps, with the normal vectors updated after each of them.              *)
SetInitialField ==
  /\ pc = "initialise"
  /\ ~data.distance
  /\ field' \in Field
  /\ max' = NInitial
  /\ initial' = TRUE
  /\ pc' = "check"
  /\ UNCHANGED <<data, mesh, reinit, normal, quad, outdated, n, steps, start, base>>

(* ... and for a signed distance: the profile is regular, nothing is       *)
(* reinitialised and the operation keeps its zeros.                        *)
SetInitialDistance ==
  /\ pc = "initialise"
  /\ data.distance
  /\ field' \in {f \in Field : f.err = 0}
  /\ pc' = "step"
  /\ UNCHANGED <<data, mesh, reinit, normal, quad, outdated, n, max, initial,
                 steps, start, base>>

(* One time step of the advection, up to finish_time_advance().            *)
Advect ==
  /\ pc = "step"
  /\ steps < MaxSteps
  /\ steps' = steps + 1
  /\ field' \in {f \in Field : Diff(f, field) <= 1}
  /\ initial' = FALSE
  /\ pc' = "check"
  /\ UNCHANGED <<data, mesh, reinit, normal, quad, outdated, n, max, start, base>>

-----------------------------------------------------------------------------
(* The level set changed more than the tolerance since the last time.      *)
Changed == reinit # Blank => Diff(field, reinit) > Tol

(* What follows do_reinitialization() in set_initial_condition().          *)
Return ==
  /\ max' = (IF initial THEN MaxN ELSE max)
  /\ pc' = "step"

(* Mutated: the skipped field is the one the next change is measured from. *)
SkipForgets ==
  /\ pc = "check"
  /\ ~Changed
  /\ reinit' = field
  /\ Return
  /\ UNCHANGED <<data, mesh, field, normal, quad, outdated, n, initial, steps,
                 start, base>>

Skip ==
  /\ pc = "check"
  /\ ~Changed
  /\ Return
  /\ UNCHANGED <<data, mesh, field, reinit, normal, quad, outdated, n, initial,
                 steps, start, base>>

(* compute_interface_quadrature(), at pseudo-time step k: the place of the *)
(* interface is kept once the steps have begun.                            *)
ComputeInterfaceQuadrature(f, k) ==
  IF data.constraint = "none" \/ (k > 0 /\ ~outdated) THEN UNCHANGED <<quad, outdated>>
  ELSE quad' = [mesh |-> mesh, pos |-> f.pos] /\ outdated' = FALSE

(* set_initial_condition() of the operation.                               *)
SetInitialCondition(f, k) ==
  /\ reinit' = f
  /\ normal' = [mesh |-> mesh, of |-> f]
  /\ ComputeInterfaceQuadrature(f, k)

Begin ==
  /\ pc = "check"
  /\ Changed
  /\ SetInitialCondition(field, n)
  /\ start' = field
  /\ pc' = "cycle"
  /\ UNCHANGED <<data, mesh, field, n, max, initial, steps, base>>

-----------------------------------------------------------------------------
(* The increment vanishes at the quadrature's interface, so a level set    *)
(* whose interface it is keeps it (the penalty is taken for a strong one). *)
Held(p) ==
  data.constraint # "none" /\ quad.pos = reinit.pos => p = reinit.pos

(* solve() of the operation: one implicit step for the increment.          *)
Solved(f) ==
  /\ f \in Field
  /\ f.err <= reinit.err
  /\ Diff(f, reinit) <= 1
  /\ Held(f.pos)

(* Mutated: the normal vectors and the field they belong to stay.          *)
PseudoStepOldNormals ==
  /\ pc = "cycle"
  /\ ~IsFinished
  /\ n' = n + 1
  /\ \E f \in Field :
       /\ Solved(f)
       /\ Diff(f, reinit) > 0
       /\ field' = f
       /\ reinit' = f
  /\ UNCHANGED <<data, mesh, normal, quad, outdated, max, initial, pc, steps,
                 start, base>>

(* A step with a noticeable change: the level set follows; in the initial  *)
(* cycle, so do the normal vectors.                                        *)
PseudoStep ==
  /\ pc = "cycle"
  /\ ~IsFinished
  /\ n' = n + 1
  /\ \E f \in Field :
       /\ Solved(f)
       /\ Diff(f, reinit) > 0
       /\ field' = f
       /\ IF initial THEN SetInitialCondition(f, n + 1)
          ELSE reinit' = f /\ UNCHANGED <<normal, quad, outdated>>
  /\ UNCHANGED <<data, mesh, max, initial, pc, steps, start, base>>

(* Mutated: the pseudo-time iterator is not reset.                         *)
SettleNoReset ==
  /\ pc = "cycle"
  /\ ~IsFinished
  /\ \E f \in Field :
       /\ Solved(f)
       /\ Diff(f, reinit) <= Small
       /\ reinit' = f
  /\ n' = n + 1
  /\ base' = field
  /\ Return
  /\ UNCHANGED <<data, mesh, field, normal, quad, outdated, initial, steps, start>>

(* A step with a change below the tolerance ends the loop before the level *)
(* set is set to the result; the iterator is reset.                        *)
Settle ==
  /\ pc = "cycle"
  /\ ~IsFinished
  /\ \E f \in Field :
       /\ Solved(f)
       /\ Diff(f, reinit) <= Small
       /\ reinit' = f
  /\ n' = 0
  /\ base' = field
  /\ Return
  /\ UNCHANGED <<data, mesh, field, normal, quad, outdated, initial, steps, start>>

(* Mutated: the limit of the initial cycle stays.                          *)
EndLoopKeepsLimit ==
  /\ pc = "cycle"
  /\ IsFinished
  /\ n' = 0
  /\ base' = field
  /\ pc' = "step"
  /\ UNCHANGED <<data, mesh, field, reinit, normal, quad, outdated, max, initial,
                 steps, start>>

EndLoop ==
  /\ pc = "cycle"
  /\ IsFinished
  /\ n' = 0
  /\ base' = field
  /\ Return
  /\ UNCHANGED <<data, mesh, field, reinit, normal, quad, outdated, initial,
                 steps, start>>

-----------------------------------------------------------------------------
(* refine_mesh(true): nothing is transferred, every operation is set up    *)
(* again and the initial conditions are set once more.                     *)
RefineInitial ==
  /\ pc = "step"
  /\ steps = 0
  /\ mesh < MaxMesh
  /\ mesh' = mesh + 1
  /\ reinit' = Blank
  /\ normal' = Blank
  /\ base' = Blank
  /\ outdated' = TRUE
  /\ pc' = "initialise"
  /\ UNCHANGED <<data, field, quad, n, max, initial, steps, start>>

(* refine_mesh(false): the attached vectors come with the mesh, what       *)
(* belongs to the old cells does not.                                      *)
Refine ==
  /\ pc = "step"
  /\ mesh < MaxMesh
  /\ mesh' = mesh + 1
  /\ normal' = (IF normal = Blank THEN Blank ELSE [normal EXCEPT !.mesh = mesh'])
  /\ outdated' = TRUE
  /\ UNCHANGED <<data, field, reinit, quad, n, max, initial, pc, steps, start, base>>

(* Restart data written after this time step, loaded by a new process: the *)
(* attached vectors, no pseudo-time and no quadrature.                     *)
Restart ==
  /\ pc = "step"
  /\ quad' = Blank
  /\ outdated' = TRUE
  /\ n' = 0
  /\ max' = MaxN
  /\ initial' = FALSE
  /\ UNCHANGED <<data, mesh, field, reinit, normal, pc, steps, start, base>>

Next ==
  \/ SetInitialField
  \/ SetInitialDistance
  \/ Advect
  \/ Skip
  \/ Begin
  \/ PseudoStep
  \/ Settle
  \/ EndLoop
  \/ RefineInitial
  \/ Refine
  \/ Restart

Spec == Init /\ [][Next]_vars

-----------------------------------------------------------------------------
(* Types; the pseudo-time step number never passes the larger limit.       *)
TypeOK ==
  /\ data \in [constraint : Constraints, distance : BOOLEAN]
  /\ mesh \in 0 .. MaxMesh
  /\ field \in Field
  /\ {reinit, start, base} \subseteq Field \cup {Blank}
  /\ normal \in [mesh : 0 .. MaxMesh, of : Field] \cup {Blank}
  /\ quad \in [mesh : 0 .. MaxMesh, pos : Place] \cup {Blank}
  /\ {outdated, initial} \subseteq BOOLEAN
  /\ n \in 0 .. Larger(NInitial, MaxN)
  /\ max \in {NInitial, MaxN}
  /\ pc \in {"initialise", "check", "cycle", "step"}
  /\ steps \in 0 .. MaxSteps

(* Many small changes do not add up unnoticed: at the end of every time    *)
(* step, refined and restarted or not, the level set differs from the one  *)
(* the last reinitialisation left by no more than the tolerance and the    *)
(* increment that one discarded (do_reinitialization(), line 519-528: "the *)
(* change in the level set since the last reinit").                        *)
NoCreep == pc = "step" /\ base # Blank => Diff(field, base) <= Tol + Small

(* "Keep the initial interface position" (reinitialization_hyperbolic_CG_  *)
(* operation.cpp:387): with a constraint, no pseudo-time step of a cycle   *)
(* moves the interface from where it was when the cycle began, whatever    *)
(* meshes, restarts and cycles came before.                                *)
InterfaceKept ==
  [][pc = "cycle" /\ data.constraint # "none" =>
       field'.pos = start.pos /\ reinit'.pos = start.pos]_vars

(* The limit "n initial steps" is for initial fields only, "max n steps"   *)
(* for every later cycle (set_initial_condition() of LevelSetOperation).   *)
StepsLimited == pc = "cycle" => n <= (IF initial THEN NInitial ELSE MaxN)

(* A pseudo-time step starts from the level set and uses normal vectors of *)
(* the present mesh: of the present level set in the initial cycle (the    *)
(* comment in do_reinitialization(), line 566-570), else of the one the    *)
(* cycle began with.                                                       *)
NormalsFresh ==
  pc = "cycle" =>
    /\ reinit = field
    /\ normal = [mesh |-> mesh, of |-> IF initial THEN field ELSE start]
=============================================================================

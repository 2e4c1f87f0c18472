---------------------------- MODULE CutInterface ----------------------------
(***************************************************************************)
(* The unfitted (CutFEM) operations follow a moving interface: the         *)
(* temperature of HeatCutOperation, the flow of CutDGOperation and of      *)
(* CompressibleMultiphaseOperation.  A cell carries unknowns of a phase    *)
(* only where the phase is; when the level set moves, the cells are        *)
(* classified anew, SolutionTransferOperator carries the solution over to  *)
(* the new unknowns and extrapolates it into the cells that were cut just  *)
(* now, and everything that was set up for the old layout -- quadrature,   *)
(* preconditioner, band solver, partition -- has to follow.                *)
(*                                                                         *)
(* Temperature and flow are constant in each phase and change with every   *)
(* step, so a value tells which step it is from.  An unknown is            *)
(* represented by its phase and the cells it lives on: the cells around a  *)
(* node for continuous elements, one cell for discontinuous ones.          *)
(***************************************************************************)
EXTENDS Integers, FiniteSets, FiniteSetsExt

CONSTANTS
  Operations,  \* the users of the solution transfer: records of
               \*   dg          discontinuous elements, no history
               \*   vectors     vectors carried along (current one first)
               \*   twoPhase    "cut: two phase"
               \*   early       returns early when no cell changed its location
               \*   band        "use band solver"
               \*   repartition repartition() may be called
               \*   remesh      CutUtil::refine_grid() and restart are used
  NodesOf,     \* cell -> its nodes; cells are numbered from 0
  Faces,       \* pairs of cells with a common face
  LevelSets,   \* functions from the nodes to -1, 0, 1
  NRanks,      \* number of MPI processes
  Weight,      \* CutRepartitionData: location -> weight of a cell
  UpdateEvery, \* preconditioner_update_frequency
  MaxSteps,    \* bound: time steps
  MaxMeshes,   \* bound: changes of the mesh
  None         \* nothing set up, read or written yet

Cells == DOMAIN NodesOf
Nodes == UNION {NodesOf[c] : c \in Cells}

ASSUME CutAssumption ==
  /\ IsFiniteSet(Cells) /\ Cells = 0 .. Cardinality(Cells) - 1
  /\ \A n \in Nodes : Cardinality({c \in Cells : n \in NodesOf[c]}) <= 8
  /\ Faces \subseteq Cells \X Cells
  /\ LevelSets \subseteq [Nodes -> -1 .. 1]
  /\ NRanks \in Nat \ {0} /\ UpdateEvery \in Nat \ {0} /\ MaxSteps \in Nat /\ MaxMeshes \in Nat
  /\ Weight \in [{"liquid", "gas", "cut"} -> Nat \ {0}]
  /\ \A o \in Operations : o.vectors \in Nat \ {0}

VARIABLES
  op,       \* the operation
  ls,       \* the level set
  cls,      \* mesh_classifier
  old,      \* mesh_classifier_old, or None
  lay,      \* the layout of the unknowns: active FE indices, mesh, owners of the cells
  sol,      \* the vectors: unknown -> value
  quad,     \* level set and layout the intersected quadrature was computed for
  prec,     \* layout the preconditioner was set up for, or None
  flag,     \* preconditioner_update_flag
  band,     \* layout the band was determined for, or None
  weights,  \* what p4est is told: cell -> weight
  step,     \* time step number
  pc,
  snap      \* the restart data, or None

vars == <<op, ls, cls, old, lay, sol, quad, prec, flag, band, weights, step, pc, snap>>

-----------------------------------------------------------------------------

\* set_fe_index(): nonnegative values are liquid ("outside"), negative ones gas ("inside").
Located(l) ==
  [c \in Cells |-> IF \A n \in NodesOf[c] : l[n] >= 0 THEN "liquid"
                   ELSE IF \A n \in NodesOf[c] : l[n] < 0 THEN "gas" ELSE "cut"]

Other(ph) == IF ph = "liquid" THEN "gas" ELSE "liquid"
Phases == IF op.twoPhase THEN {"liquid", "gas"} ELSE {"liquid"}
Has(fe, c, ph) == fe[c] \in {ph, "cut"}

Supports ==
  IF op.dg THEN {{c} : c \in Cells} ELSE {{c \in Cells : n \in NodesOf[c]} : n \in Nodes}

\* The cells that carry the unknown, and the unknowns of a layout.
Carriers(d, fe) == {c \in d[2] : Has(fe, c, d[1])}
Dofs(fe) == {d \in Phases \X Supports : Carriers(d, fe) # {}}

\* The solution of step k; 840 is divisible by the number of cells around a node.
At(k, ph) == IF ph = "liquid" THEN 840 * (k + 1) ELSE -840 * (k + 1)
Solution(k, fe) == [d \in Dofs(fe) |-> At(k, d[1])]
Blank(fe) == [d \in Dofs(fe) |-> 0]

\* p4est divides the cells, in their order, into pieces of about the same weight.
Partition(w) ==
  LET before(c) == MapThenSumSet(LAMBDA x : w[x], {x \in Cells : x < c})
      total     == MapThenSumSet(LAMBDA x : w[x], Cells)
  IN [c \in Cells |-> (before(c) * NRanks) \div total]

Uniform == [c \in Cells |-> 1]
Layout(fe, mesh, w) == [fe |-> fe, mesh |-> mesh, owner |-> Partition(w)]

\* compute_intersected_quadrature().
Quadrature(l, layout) == [ls |-> l, lay |-> layout]

Init ==
  /\ op \in Operations
  /\ ls \in LevelSets
  /\ cls = Located(ls) /\ old = None
  /\ weights = Uniform
  /\ lay = Layout(cls, 0, Uniform)
  /\ sol = [i \in 1 .. op.vectors |-> IF i = 1 THEN Solution(0, cls) ELSE Blank(cls)]
  /\ quad = Quadrature(ls, lay)
  /\ prec = None /\ flag = TRUE /\ band = None
  /\ step = 0 /\ pc = "ready" /\ snap = None

-----------------------------------------------------------------------------

\* The next time step begins; the level set moves before the operation is solved.
MoveInterface ==
  /\ pc = "ready" /\ step < MaxSteps
  /\ ls' \in LevelSets
  /\ step' = step + 1
  /\ pc' = "adapt"
  /\ UNCHANGED <<op, cls, old, lay, sol, quad, prec, flag, band, weights, snap>>

\* std::swap(mesh_classifier_old, mesh_classifier).
Swapped == cls

\* Mutated: the early return comes before the quadrature.
EarlyQuadrature_kept == quad

\* Where no cell changed its location, the cut through the cells still moved.
EarlyQuadrature == Quadrature(ls, lay)

\* adapt_to_new_interface_position(): classify; the multiphase flow may be done already.
Classify ==
  LET same == op.early /\ Located(ls) = Swapped
  IN
  /\ pc = "adapt"
  /\ old' = Swapped
  /\ cls' = Located(ls)
  /\ quad' = IF same THEN EarlyQuadrature ELSE quad
  /\ pc' = IF same THEN "assemble" ELSE "transfer"
  /\ UNCHANGED <<op, ls, lay, sol, prec, flag, band, weights, step, snap>>

\* dealii::SolutionTransfer: the average over the cells that carry the unknown now; a cell
\* that had no such unknown contributes zero.
Interpolated(v, from, to) ==
  [d \in Dofs(to) |->
     IF d \in DOMAIN v
       THEN (v[d] * Cardinality(Carriers(d, from) \cap Carriers(d, to)))
              \div Cardinality(Carriers(d, to))
       ELSE 0]

\* Cut now, and entirely in the other phase before.
NewlyCut(c, ph) == cls[c] = "cut" /\ old[c] = Other(ph)

\* Mutated: the averaging is not reverted.
Reverted_none(v) == v

\* The averaging is reverted: cells cut just now did not contribute.
Reverted(v) ==
  [d \in DOMAIN v |->
     LET all   == Cardinality(Carriers(d, cls))
         empty == Cardinality({c \in d[2] : NewlyCut(c, d[1])})
     IN IF all > empty THEN (v[d] * all) \div (all - empty) ELSE v[d]]

\* Mutated: the cells are weighted by the classifier when p4est asks.
Weights_fly == [c \in Cells |-> IF op.repartition THEN Weight[cls[c]] ELSE 1]

\* PartitionWeights: the cached weights move with the cells.
Weights == weights

\* Mutated: reinit() of the operation does not ask for an update of the preconditioner.
UpdateFlag_kept == flag

\* reinit() asks for one.
UpdateFlag == TRUE

\* transfer_solution_constant_dofs(): the new layout, set up by setup_dof_system(), which ends in
\* reinit() of the operation.  The mesh is "refined" to trigger the change of FE indices.
Transfer ==
  /\ pc = "transfer"
  /\ lay' = Layout(cls, lay.mesh, Weights)
  /\ sol' = [i \in DOMAIN sol |-> Reverted(Interpolated(sol[i], lay.fe, cls))]
  /\ prec' = None
  /\ flag' = UpdateFlag
  /\ pc' = "extrapolate"
  /\ UNCHANGED <<op, ls, cls, old, quad, band, weights, step, snap>>

\* mark_dofs_for_gp_extrapolation().
Flagged ==
  {d \in Dofs(cls) :
     /\ \E c \in d[2] : NewlyCut(c, d[1])
     /\ \A c \in d[2] : cls[c] # d[1] /\ ~(cls[c] = "cut" /\ old[c] = "cut")}

Adjacent(c, d) == <<c, d>> \in Faces \/ <<d, c>> \in Faces

\* The cells of a phase the ghost penalty connects to a known value: their unknowns get one.
Joined(ph) ==
  LET known == UNION {Carriers(d, cls) : d \in {e \in Dofs(cls) \ Flagged : e[1] = ph}}
      grown[k \in 0 .. Cardinality(Cells)] ==
        IF k = 0 THEN known
        ELSE grown[k - 1] \cup
               {c \in Cells : NewlyCut(c, ph) /\ \E x \in grown[k - 1] : Adjacent(c, x)}
  IN grown[Cardinality(Cells)]

Determined ==
  LET joined == [ph \in Phases |-> Joined(ph)]
  IN {d \in Flagged : Carriers(d, cls) \cap joined[d[1]] # {}}

\* The extension of a constant is that constant; of other values, one of them.
Extension(v, ph) == CHOOSE x \in {v[d] : d \in {e \in Dofs(cls) \ Flagged : e[1] = ph}} : TRUE

\* solve() and constraints_gp.distribute() with the values of the first vector for all of them.
Extrapolated(v, first) ==
  LET flagged    == Flagged
      determined == Determined
      extension  == [ph \in Phases |-> Extension(first, ph)]
  IN [d \in DOMAIN v |-> IF d \notin flagged THEN first[d]
                         ELSE IF d \in determined THEN extension[d[1]] ELSE v[d]]

Jump == \E c \in Cells : {cls[c], old[c]} = {"liquid", "gas"}

\* extrapolate_solution_new_dofs(): the interface must not move over more than one cell; then
\* the operation takes the vectors over and computes the quadrature.
Extrapolate ==
  /\ pc = "extrapolate"
  /\ IF Jump
       THEN pc' = "stopped" /\ UNCHANGED <<sol, quad>>
       ELSE /\ sol' = IF Flagged = {} THEN sol
                      ELSE [i \in DOMAIN sol |-> Extrapolated(sol[i], sol[1])]
            /\ quad' = Quadrature(ls, lay)
            /\ pc' = "assemble"
  /\ UNCHANGED <<op, ls, cls, old, lay, prec, flag, band, weights, step, snap>>

\* HeatCutOperation::init_time_advance(): move the history, the old solution is the first guess.
Shifted == [i \in DOMAIN sol |-> IF i = 1 THEN sol[1] ELSE sol[i - 1]]

\* The system is assembled: heat updates its preconditioner in every solve(), the flow in every
\* UpdateEvery-th and on demand; the band is determined once; CutDGOperation has neither.
Assemble ==
  LET update == ~op.dg \/ (op.twoPhase /\ ((step - 1) % UpdateEvery = 0 \/ flag))
  IN
  /\ pc = "assemble"
  /\ sol' = Shifted
  /\ prec' = IF update THEN lay ELSE prec
  /\ flag' = IF update THEN FALSE ELSE flag
  /\ band' = IF op.band /\ band = None THEN lay ELSE band
  /\ pc' = "linear"
  /\ UNCHANGED <<op, ls, cls, old, lay, quad, weights, step, snap>>

\* A solution, or ExcNewtonDidNotConverge, which ends the run.
FinishSolve ==
  /\ pc = "linear"
  /\ \/ pc' = "ready" /\ sol' = [sol EXCEPT ![1] = Solution(step, lay.fe)]
     \/ pc' = "stopped" /\ UNCHANGED sol
  /\ UNCHANGED <<op, ls, cls, old, lay, quad, prec, flag, band, weights, step, snap>>

-----------------------------------------------------------------------------

\* CutUtil::refine_grid() and CutUtil::repartition_triangulation(): first the level set, then
\* setup_dof_system(), which classifies, lays out, and calls reinit(); then the vectors.
ChangeMesh(w) ==
  /\ pc = "ready"
  /\ cls' = Located(ls)
  /\ lay' = Layout(cls', lay.mesh + 1, w)
  /\ sol' = [i \in DOMAIN sol |-> Interpolated(sol[i], lay.fe, cls')]
  /\ quad' = Quadrature(ls, lay')
  /\ prec' = None /\ flag' = UpdateFlag
  /\ lay.mesh < MaxMeshes
  /\ UNCHANGED <<op, ls, band, step, pc, snap>>

Refine ==
  /\ op.remesh
  /\ ChangeMesh(Weights)
  /\ UNCHANGED <<old, weights>>

\* PartitionWeights::update(), then repartition(); afterwards the old classifier, too, is
\* brought to the new partition.
Repartition ==
  /\ op.repartition /\ NRanks > 1
  /\ weights' = [c \in Cells |-> Weight[cls[c]]]
  /\ ChangeMesh(weights')
  /\ old' = Located(ls)

Save ==
  /\ pc = "ready" /\ op.remesh
  /\ snap' = [step |-> step, ls |-> ls, mesh |-> lay.mesh, sol |-> sol]
  /\ UNCHANGED <<op, ls, cls, old, lay, sol, quad, prec, flag, band, weights, step, pc>>

\* A new process: deserialize_internal() reads the level set, sets up, and reads the rest.
Load ==
  /\ snap # None
  /\ ls' = snap.ls /\ step' = snap.step /\ sol' = snap.sol
  /\ cls' = Located(ls') /\ old' = None
  /\ weights' = Uniform
  /\ lay' = Layout(cls', snap.mesh, Uniform)
  /\ quad' = Quadrature(ls', lay')
  /\ prec' = None /\ flag' = TRUE /\ band' = None
  /\ pc' = "ready"
  /\ UNCHANGED <<op, snap>>

Next ==
  \/ MoveInterface \/ Classify \/ Transfer \/ Extrapolate \/ Assemble \/ FinishSolve
  \/ Refine \/ Repartition \/ Save \/ Load

Spec == Init /\ [][Next]_vars

-----------------------------------------------------------------------------

Locations == [Cells -> {"liquid", "gas", "cut"}]
Layouts == [fe : Locations, mesh : 0 .. MaxMeshes, owner : [Cells -> 0 .. NRanks - 1]]

TypeOK ==
  /\ op \in Operations /\ ls \in LevelSets
  /\ cls \in Locations /\ old \in Locations \cup {None}
  /\ lay \in Layouts
  /\ DOMAIN sol = 1 .. op.vectors
  /\ \A i \in DOMAIN sol : sol[i] \in [Dofs(lay.fe) -> Int]
  /\ quad.ls \in LevelSets /\ quad.lay \in Layouts
  /\ prec \in Layouts \cup {None} /\ band \in Layouts \cup {None} /\ flag \in BOOLEAN
  /\ weights \in [Cells -> Nat \ {0}]
  /\ step \in 0 .. MaxSteps
  /\ pc \in {"ready", "adapt", "transfer", "extrapolate", "assemble", "linear", "stopped"}

\* When a step is solved, every unknown -- also one that exists since this step only -- starts
\* from the last step's solution of its own phase, whatever the interface did, through mesh
\* changes and restarts; excepted is a piece of a phase that came from nowhere, which the ghost
\* penalty cannot reach: its unknowns stay zero.
OldSolutionKept ==
  pc = "linear" =>
    LET i == IF op.vectors = 1 THEN 1 ELSE 2
        unreached == Flagged \ Determined
    IN \A d \in Dofs(lay.fe) :
         sol[i][d] = IF d \in unreached THEN 0 ELSE At(step - 1, d[1])

\* Whenever the operator is evaluated, the quadrature of the cut cells belongs to this level set
\* and this layout, and the layout to this level set.
CutFits ==
  pc \in {"ready", "linear"} => quad = Quadrature(ls, lay) /\ lay.fe = Located(ls)

\* The preconditioner a two-phase solve uses was set up for the current layout, even if it is
\* updated in some steps only and the layout changed in between.
PreconditionerFits == pc = "linear" /\ (op.twoPhase \/ ~op.dg) => prec = lay

\* Following the interface moves no cell between the processes, also when the cells' weights
\* would no longer be the same.
PartitionStays == [][Transfer => lay'.owner = lay.owner]_vars

\* The band solver works on the band of the current layout ("reinit preconditioner and band solver",
\* multiphase_operation.cpp).  The code does not see to it: with MCBandSolver, TLC refutes it.
BandFits == pc = "linear" /\ op.band => band = lay

=============================================================================

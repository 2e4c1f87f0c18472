# MeltPoolDG in TLA+

TLA+ models of the control logic of MeltPoolDG, a finite element code for laser
melting of metals: a time loop in which level set, evaporation, heat and flow
solvers read and write each other's fields, on adaptive meshes, over several
jobs of a cluster that are connected by restart data.  The numerics (what an
assembled system or a formula evaluates to) is not modelled.  What is modelled
is what makes the numerics meaningful: which vector is which field at which time
on which mesh, which clock says what, which file holds which save, and which of
several loops ends when.  That part is a protocol, it spans several classes, and
a test on one time step hardly reaches it.

All paths are relative to `src/`.  `MP` stands for
`applications/mp-melt-pool/melt_pool_application.cpp`.

## 1. The system

| component | state it keeps | operations | talks to |
|---|---|---|---|
| melt pool application (`MP`) | coupling loops, heat-up flag, dof handlers | `run`, `load`, `save`, `refine_mesh`, `output_results`, `finalize` | everything below |
| time iterator (`source/time_integration/time_iterator.cpp`) | step number, time, old time, increment, old increment | `compute_next_time_increment`, `set_current_time_increment`, `reset`, `serialize` | shared by reference with all operations; a second one is the pseudo-time of the reinitialisation |
| restart (`source/utilities/restart.cpp`) | time of the last save; the files of a ring of slots | `do_save`, `prepare_save` (rotation), `serialize_internal`, `deserialize_internal` | file system, deal.II's `Triangulation::save/load`, MPI ranks |
| post-processor (`source/post_processing/postprocessor.cpp`) | records of the `.pvd` file, time of the last output | `process`, `write_paraview_files`, `clean_pvd`, `serialize` | file system, restart archive |
| solution history, predictors (`time_integration/solution_history.hpp`, `linear_algebra/predictor*.hpp/cpp`) | the last solutions, number of predictions | `commit_old_solutions`, `vmult` | each solved operation; refinement and restart through attached vectors |
| heat operation (`source/heat/heat_diffuse_operation.cpp`) | temperature history, `ready_for_time_advance` | `init_time_advance`, `solve(finish)`, `finish_time_advance`, `attach_vectors` | time iterator, history, Newton solver, evaporation |
| level set operation (`source/level_set/level_set_operation.cpp`) with advection-diffusion, curvature, normals | level set, heaviside, distance, normals, curvature | `init_time_advance`, `solve`, `finish_time_advance`, `do_reinitialization` | velocity of the flow and the evaporation |
| hyperbolic reinitialisation (`source/level_set/reinitialization_hyperbolic_CG_operation.cpp`) | its own level set, normals, quadrature of the held interface | `set_initial_condition`, `solve`, `reinit` | level set operation, pseudo-time iterator |
| Newton solver (`source/linear_algebra/newton_raphson_solver.cpp`) | tolerances, right-hand side, update, initial residual | `solve` | callbacks of its owner |
| evaporation, melt front (`source/phase_change/*`) | mass flux, interface velocity, solid and liquid fractions | `compute_evaporative_mass_flux`, `compute_melt_front_propagation` | level set, temperature, flow |
| laser and its heat sources (`source/heat/laser_*.cpp`) | time, position, intensity, projected source | `move_laser`, `compute_heat_source` | heat |
| flow and its forces (`source/flow/*`) | adaflo's clock and vectors; the right-hand sides of momentum and mass balance | `init_time_advance`, `solve`, `synchronize_time_stepping`; surface tension, recoil pressure, gravity, damping | time iterator, level set, temperature |
| level set (DG) (`source/level_set/*_DG_*.cpp`) | level set and its history | `init_time_advance`, `solve`, change of a pseudo-time step | integrators |
| integrators: BDF, Runge-Kutta, theta, IMEX (`source/time_integration/*`) | registers, weights, step count | `perform_time_step` | DG operations, compressible flow |
| signed distance (`source/level_set/signed_distance_solver.cpp`) | distances, cut cells, corona, per rank | `setup_dofs`, `solve` | geometric reinitialisation; ranks through `compress`, ghost updates |
| elliptic reinitialisation, nearest points | none between calls | one solve, one search | level set operation |
| cut meshes (`source/cut/*`) with the cut heat operation and the compressible two-phase flow | classification old and new, layout of unknowns, intersected quadrature, preconditioner, band, weights | solution transfer, extrapolation, `refine_grid`, `repartition` | level set, p4est |
| compressible flow (`source/compressible_flow/*`) | conserved variables, history | `solve` | integrators, cut meshes |
| particles, fluid-structure interaction (`source/particles/*`, `source/fluid_structure_interaction/*`) | own particles and ghosts, caches, loads | `advance_time`, `compress`, `sort_particles_into_subdomains_and_cells` | other ranks by messages; flow |
| refinement (`source/utilities/amr*.cpp`) | marked cells, transfers | `mark_cells_for_refinement`, `refine_grid` | all attached vectors |
| scratch data, parameters, material, journal, monitors | set once, or output only | - | all |

`PROJECT.json` lists every part with its sources and says what is left out.

**What is hard here.**

* *Crashes.*  Jobs are killed at the wall-clock limit of a cluster, at any file
  operation; the next one continues from files, and whatever is not archived or
  attached restarts from a default (sections 3.1, 3.2, 3.4).
* *Ranks.*  Rank 0 alone rotates files that all ranks write (3.1) and cleans records
  that all ranks archive (3.2); every rank marches its own copies of distances (3.7).
* *Messages.*  Particles and their ghosts are kept in step by point-to-point messages
  that carry values without names (3.10).
* *Several clocks.*  Time iterator, laser, adaflo, restart monitor and
  post-processor each remember a time of their own (3.2).
* *Shared vectors.*  A time step passes ten vectors between five operations; the
  order decides which iterate, which mesh and which step one reads (3.3, 3.4).
* *Protocols with flags.*  `init_time_advance` / several `solve(false)` /
  `finish_time_advance`, and a pseudo-time loop whose iterator, limit and
  quadrature have to be set back (3.3, 3.5).
* *Objects that outlive a call.*  The Newton solver keeps tolerances and norms (3.6), the
  signed distance its maps of cut cells (3.7), integrators their registers (3.9).
* *Things built for a layout.*  When the interface crosses a cell, unknowns appear and
  vanish; vectors, quadrature, preconditioner and weights must follow (3.8).

There is no shared-memory concurrency in the code that is modelled, and no message is
lost: MPI is used through collective calls, and by the particles through messages that
arrive in order between two ranks.

## 2. Modules

```
CheckpointStore      <--implements--  RestartRing --extends--> RestartFiles
                                      RestartRanks
                                      RestartProofs (of both)
TimeIterator  <--extends--  SimulationRun          the jobs of one simulation
                                                   SimulationRunProofs
              <--extends--  FieldHistory           one solved field
                                                   FieldHistoryProofs
MeltPoolStep                                       all fields of one step
                                                   MeltPoolStepProofs
Reinitialization                                   the level set's pseudo-time loop
NewtonSolver                                       one nonlinear solver, many calls
                                                   SolverProofs (of both)
SignedDistance                                     distances over ranks
                                                   SignedDistanceProofs
CutInterface                                       unknowns that follow the interface
                                                   CutInterfaceProofs
TimeIntegrators                                    stages of one step
ParticleField                                      particles over ranks
                                                   ParticleFieldProofs
MC<module>                                         values for constants
```

Only the restart and the time iterator are composed by extension.  The others meet
through what they assume of one another: `MeltPoolStep` takes one field's life from
`FieldHistory`, `TimeIntegrators` one solve of a DG operation, `CutInterface` is the
environment in which the old solutions of the cut heat operation live.

The proof modules extend the modules they are about; so that one can be about two, those two
have no name in common (`RestartRanks` prefixes its own with `Ranks`, `NewtonSolver` with
`Newton`).  Definitions that a comment
calls *Mutated* are variants of the definition after them with a plausible
mistake; no specification uses them.  They show that each property depends on
the code: with the variant in place of the definition, TLC finds the property
violated.  Two of them go with properties that no run checks any more
(`MeltPoolStep!HeatIterationMoves`, `CutInterface!PartitionStays`; section 5); the
second one is proved instead (section 6).

## 3. What is modelled

### 3.1 Restart data: RestartFiles, RestartRing, CheckpointStore, RestartRanks

A slot `i` of the ring is the family of files `<prefix>_<i><suffix>`.  A file that
is whole is represented by the number of the save that wrote it; it can also be
missing or torn.  `RestartRing` splits every copy of `prepare_save()` and every
write of `save()` in two steps, opening (which truncates) and completing, and
`Crash` may come between any two.  `StartLoad` is `load()`, which asks only
whether the problem file exists.

* `LastSaveLoadable`: the newest complete save is whole in some slot, at every
  moment of later saves and kills, while fewer saves have been begun since than
  the ring has slots to spare.
* `HistoryKept`: slot `i` holds the `i`-th save before the newest, as far back as
  no save was cut short.
* `ImplementsStore`: the ring implements `CheckpointStore`, in which a save joins a
  set of loadable saves atomically and the newest never leaves.  Refinement mapping:
  `newest <- last`, `loadable <-` the saves of which one slot holds every file.

`RestartRanks` has several ranks and whole-file writes, with `do_save()` asked on each
rank.  `SlotZeroCoherent`: when a rank is out of `save()`, archive and mesh of slot
0 are whole and of the same step.  `SaveCompletes`: nobody waits forever in
`Triangulation::save()`.

### 3.2 The jobs of a simulation: TimeIterator, SimulationRun

`TimeIterator` holds the class as operations on a record, in the order the code
assigns (the old increment is taken *after* the new one is determined, as in
`time_iterator.cpp:59-62`).  `SimulationRun` is the loop of `run()` with heat-up
control, laser clock, adaflo's clock, output records, `do_save`, exceptions of the
solvers (which force an output), kills, and the next job, in the same output
directory or in an empty one.  Fields are reduced to "hotter than the heat-up
temperature", which is chosen freely by each solve.  The records exist twice: `list` is
that of rank 0, which writes the `.pvd` file and alone cleans its list after a restart,
`others` that of the remaining ranks; the archive of a save may be that of any rank.

An output is four steps, after each of which the job may be killed: the file of the time step
is opened (`Process`), written (`WriteVtu`), the `.pvd` file is opened, which empties it, and written
in part (`WritePvd`), and completed (`ClosePvd`).  `torn` remembers the steps whose output was begun
since the `.pvd` file was last complete.

* `PvdTellsTheTruth`: every record names a whole file that holds the data of the
  recorded time, in strict order, although steps are computed again after a restart,
  possibly with other step sizes over the same files, and whichever rank's records
  were archived.  Excepted are the torn steps: a job killed between the two files leaves new
  or partial data under an old record, and this lasts until the next output is complete.
* `NoOutputLost`: when a step begins, the records contain every step the write frequency asks
  for, and the last one is younger than the write time step; so does the `.pvd` file, unless a
  kill cut its writing short and no output has been due since.
* `LossBounded`: when a step begins, less than one save interval is unsaved.
* `AdafloAligned`: when the flow is solved, also after any restart, adaflo has the step number,
  time, old time and step size of the time iterator: four of the five comparisons that
  `AdafloWrapper::init_time_advance()` asserts.
* `AdafloKeepsOldStep`: when adaflo begins a step, the last step on its clock has the size of the
  run's own last step, also in the first step after a restart, where it has to be taken again.
* `JobReachesEnd`: a job that is not killed reaches the end time.

### 3.3 One field: FieldHistory

A vector is represented by the time level it is the field of.  The heat and the
level set operation are driven through the flag `ready_for_time_advance`, with one to
several solves in a step, refinement, save and restart between steps, and step
sizes that change.

* `FieldOnTime`: after every solve, the current solution is the field of the current
  time; no iteration, refinement or restart makes it fall behind or run ahead.
* `HistoryInOrder`: old solution `i` is the field `i` steps ago, as far as there are
  as many steps.
* `GuessOnTime`: with equal step sizes the linear predictor extrapolates to the new
  time, also in the first step after a restart.

### 3.4 One step of all fields: MeltPoolStep

A vector is represented by where its values come from: the mesh, and the numbers of
the level set and temperature solutions it was computed from.  `BeginStep`,
`Advect`, `FinishLevelSet`, `SolveHeat`, `FinishHeat`, `SolveFlow`, `RefineMesh` and
`Save` are the parts of the body of `run()` between which something can be read;
the parameter `case` chooses the branches the code takes.  Refinement keeps what
`attach_vectors()` lists and zeroes what `setup_dof_system()` sets up.

The right-hand sides are collected in place by several operations, some of which zero
the vector and some of which add.  `load` holds the contributions of the momentum
balance, the mass balance and the laser as a bag-like set of terms, each with the step
and the vectors it was computed from; `Irradiate` and `ComputeFluxes` are the code's
sequences of calls with their `zero_out` flags.  The case modelled is a laser projected
onto the interface, surface tension that depends on the temperature and vanishes in the
solid, the hybrid recoil pressure, and explicit or implicit damping.

* `NothingStale`: all vectors a part reads hold values on the present mesh.
* `InterfaceCoherent`: heaviside and normals belong to the same, present level set, and the
  heat equation is solved with the laser at this interface, once.
* `FlowSeesThisStep`: the forces see this step's interface and temperature, and the flow is
  solved with every force exactly once and none left from an earlier step.

### 3.5 Reinitialisation: Reinitialization

A level set is the place of its interface and the distance of its profile from a
regular one.  The module has `do_reinitialization()` with its skip, its loop and its
early `break` (which discards the last increment), the normals that are updated
only in the initial cycle, the quadrature of the held interface, and refinement and
restart between steps.  A constraint holds the interface exactly when the
quadrature is that of the present interface: the surface penalty is taken for a
strong one.  The code ends the loop by a relative l2 norm and starts it by a maximum
norm; the model has one maximum norm and two thresholds, `Small` and `Tol`.

* `NoCreep`: changes that are skipped do not add up; at the end of each step the
  level set is within `Tol + Small` of what the last cycle left.
* `InterfaceKept` (action property): with a constraint, no pseudo-time step moves the
  interface from where its cycle began.
* `NormalsFresh`, `StepsLimited`: normals and limits are those of the present cycle.

### 3.6 Nonlinear solver: NewtonSolver

`solve()` called again and again on one object, for every residual function on a
small domain and every update a linear solver could return.  History `seen` records
the iterations of a call, and the properties compare what the code decides from its
members with what the documented criterion says of the record.

* `ReturnsConverged`, `StopsAtFirst`: a call returns at the first iteration that meets
  the criterion, with the tolerances of this iteration and the initial residual of
  this call, and throws only after all of them failed.
* `ResidualOfSolution`: the last update is not added, so that the residual is that of
  the returned solution.
* `CallEnds`: every call returns or throws.

### 3.7 Signed distance on several ranks: SignedDistance

`solve()` of the geometric reinitialisation's solver: cut cells are found
(`Reconstruct`), the distances of their nodes measured (`ExchangeFirst`), shifted to
conserve the volume (`CellCorrection`, `ConserveVolume`), and marched outwards: in every
pass each rank sweeps its corona (`Sweep`), the copies meet in `compress(min)`
(`ExchangeSweep`), and a `logical_or` decides whether there is another pass.  Cells are sets
of faces, faces sets of nodes; the way over a cell is the shorter of a Newton iteration
that stays inside a face and one that does not, with integer lengths.  A node exactly on the
interface has sign 0 and distance 0, and the march starts from it.  What the
secants of the volume correction find is given: a shift for each cell (`eta`) and a common factor
that is 0 or 1 (`scale`).  Between two solves the mesh
may be divided anew (`SetupDofs`).

* `DistanceShortest`: the ranks' copies agree and are what one process would have found,
  whatever the partition and whatever an earlier solve left behind.
* `SideKept`: the signed distance has the side of the shifted interface on every rank,
  and of the level set away from it.
* `SolveEnds`: every solve ends on all ranks, under the fairness of section 4.

### 3.8 Unknowns that follow the interface: CutInterface

The cut heat operation, the cut DG flow and the compressible two-phase flow, as records
of what distinguishes them, over one step: `MoveInterface`, `Classify` (new and old
classification are swapped, as in the code), `Transfer` (interpolation and the averaging
that is taken back), `Extrapolate` (the ghost penalty problem that fills new unknowns),
`Assemble`, `FinishSolve`, and refinement, repartitioning, save and load between steps.
An unknown is a phase and the cells it lives on; its value says which step it is from.

* `OldSolutionKept`: every unknown, also one of this step only, starts from the last
  step's solution of its own phase.  Excepted are those the extrapolation cannot reach.
* `CutFits`: quadrature, layout and level set belong together when the operator runs.
* `PreconditionerFits`: the preconditioner was set up for the present layout, although it
  is updated in some steps only.

### 3.9 Stages of a step: TimeIntegrators

All integrators behind the operations that call them, register by register.  The
equations are `y' = p t^(p-1)` for all `p` up to the order of the case, so that a
stage's value tells the time it is at and the result shows the order, in integer
units of each scheme.  Callers are the DG advection, the DG reinitialisation and the compressible
flow.  `RefineMesh` clears or keeps what `reinit()` does.

What the `t` of a right-hand side is depends on the operator (`ReadAt`).  The flow reads the time it
is handed.  `apply_operator()` of the DG advection hands it to the boundary values; the velocity has
the time the application set before the step, the new one, as `solve()` sets it in between for
explicit schemes only.  The Hamiltonian of the reinitialisation depends on its argument alone.
The theta scheme evaluates the boundary values of the new time with the old solution.  The implicit
diffusion of the reinitialisation moves a component of its own and overwrites the recent old
solution (`Diffused`).

* `LandsOnTime`: after every step the solution is the field at the new time, up to an order, over
  changing step sizes, refinement and diffusion.  The order is the one the scheme is named for with
  the SSP schemes, the Chebyshev schemes, the IMEX scheme and the theta scheme (with boundary values that
  change in time).  It is 2 for the low storage scheme of three stages, which is of order 3 (its
  coefficients are rounded to thousandths, so third powers would need wider integers than TLC has,
  and the solution is compared within this rounding), with the autonomous operator of the
  reinitialisation: an operator that reads the time loses the order (section 5).  It is 1 for Crank-Nicolson with a
  velocity that changes in time, which is read at the new time in both halves, and for BDF, which
  starts with order 1; the higher orders of BDF are those of its weights, in `HistoryWeighted`.
* `RhsOnTime`: an operator that is handed the time (the flow) evaluates at that of its argument, and the
  registers of a low storage scheme hold the right stage for any operator.
* `HistoryWeighted`: BDF weights fit the number of old solutions there are, meet the right
  one each, and are exact to their order.
* `ChangeOfStep`: the change the reinitialisation reports is that of the hyperbolic part of the step just
  done, whatever the diffusion wrote into the history.  `LevelSetOperation` (`level_set_operation.cpp:550`)
  and the application `mp-reinit` stop by it; `LevelSetDGOperation` stops by the error of the
  gradient instead (`level_set_DG_operation.cpp:435-462`).
* `VelocityAtArgument`, `ChangeOfWholeStep`: what two headers say, and what does not hold (section 5).

### 3.10 Particles on several ranks: ParticleField

`ObstacleField::advance_time()` and what is below it, on a line of active cells of which
several make up a cache cell.  Messages between two ranks with one tag form a queue
(`mail`), and a rank goes on while others still wait: the model has no barrier where the
code has none.  `ComputeLoads` and `Compress` are the reset, the loads and their return to
the owners; `AdvanceTime` the move and the collective decision of
`NeighborListUpdateTracker::update_required()`; `SendGhostValues` and `TakeGhostValues`
the update in place; `SortIntoCells`, `SendCounts`, `SendParticles`, `TakeGhosts` the new
sorting; `CoarsenAndRefine` a new partition between steps.  A load is the bag of its
contributions; moves are chosen freely from a set, which stands for what
forces would do.

* `GhostsCurrent`: a rank's ghosts are exactly the particles around its cells, each once
  and with the owner's values, although an update names no particle and ranks may be in
  different phases.
* `NeighboursFound`: the search in adjacent cache cells finds every touching particle between
  two sortings; ties are excepted (section 5).  The cell cache of the penalised flow
  (`cached`, `MatrixFreeCellBatchParticleCache`), filled by an observer of the sorting, has one
  accessor for every particle that overlaps the rank's cells, and it leads to where that
  particle is now.
* `LoadsOnce`: after `compress()` each contact and each overlapped cell is in the load
  exactly once, and nothing of the step before.

That every message is received and nobody waits in vain is the check for deadlock.
Abstracted: radii are equal; the cache level is fixed; a rank has one batch of cells; every
rank knows the cache cells it is asked for (the code has a TODO for the case that it does
not, `triangulation_utils.cpp:344`); particles stay in the domain; deal.II assigns particles
to cells and empties the pool of ghosts; the matrix-free object has the cells of the present
mesh when the observers are notified.  Walls, cohesion, drag models and contact history are
left out.  Only unit tests drive this code so
far, on a few ranks and mostly with particles at rest.

## 4. Runs

| run | module, cfg | distinct states | shows |
|---|---|---|---|
| `restart_kept` | `MCRestartRing`, `RestartRing_kept` | 20748 | 3.1, safety and refinement |
| `restart_mixed` | `MCRestartRing`, `RestartRing_mixed` | violation | the finding of section 5 |
| `ranks_agree` | `MCRestartRanks`, `RestartRanks_agree` | 5721 | 3.1, ranks in simulation time |
| `jobs` | `MCSimulationRun`, `SimulationRun_jobs` | 130639 | 3.2 |
| `fields` | `MCFieldHistory`, `FieldHistory_steps` | 2356 | 3.3, linear extrapolation |
| `step` | `MCMeltPoolStep`, `MeltPoolStep_cases` | 97690 | 3.4, five parameter files |
| `reinit` | `Reinitialization`, `Reinitialization_cycles` | 47935 | 3.5 |
| `newton` | `NewtonSolver`, `NewtonSolver_calls` | 64592 | 3.6 |
| `march` | `MCSignedDistance`, `SignedDistance_march` | 20040 | 3.7 |
| `cut` | `MCCutInterface`, `CutInterface_moves` | 39210 | 3.8, four operations |
| `integrators` | `MCTimeIntegrators`, `TimeIntegrators_steps` | 4821 | 3.9, twenty-one cases of caller, scheme and operator |
| `particles` | `MCParticleField`, `ParticleField_moves` | 157652 | 3.10 |

Every module has a type invariant `TypeOK`.  Some runs check it; elsewhere it was
checked while the module was written.  Section 6 says for which modules it is proved.

**Bounds, and why they suffice to be interesting.**

* Ring: 3 slots (the smallest ring with a slot to spare after one cut save, and with
  a loop of more than one pass in `prepare_save()`), 2 mesh suffixes besides the
  archive, 5 saves, at most 1 save in a row cut short (`MaxCut`).  The proofs hold
  for all values.
* Ranks: 3, of which two are interchangeable (but the run with a liveness property
  uses no symmetry), 5 steps.
* Jobs: 3 jobs; times 0..24 with a step size of 3, a heat-up step of 8, a prescribed
  step of 2 between 10 and 15, and output and save intervals (5, 3 steps, 6) that are
  no multiples of one another, so that each of them is sometimes due alone.
* Fields: history of 3, 2 coupling iterations, 6 steps, of which some have equal
  sizes and some not.
* Step: 3 time steps with up to 2 refinements between them; coupling loops of at most 2 passes (a third one
  repeats the second).
* Reinitialisation: 5 places, 2 qualities of the profile, 3 steps (two skipped changes
  that together exceed the tolerance, then a cycle), one refinement, tolerance 1.
* Newton: 1 + 2 iterations, norms 0..2, tolerances as fractions with denominator 2, 2
  calls (the second meets what the first left behind).
* Signed distance: a strip of 4 cells, level sets with a node on the interface in and off the cut cells, 3 ranks, of which one may own no cell, contiguous
  and scattered partitions; `MaxDistance` of fewer than 3 cell lengths, so that both the
  end of the mesh and the limit stop the marching; two solves with a change of level set
  and partition between.
* Cut: 6 squares with a cell that has neighbours on three sides; fronts, a node on the
  interface, a second drop that appears from nowhere, no interface at all; preconditioner
  updated every 3 steps, 3 steps (so that a layout changes between two updates), one
  change of the mesh.
* Integrators: 7 steps, one more than the order of the highest BDF scheme, sizes 1 and 2.
* Particles: 6 active cells of length 4, two in a cache cell, diameter 6, so that the skin
  is 2 and a particle may leave its cache cell before it is sorted; 3 ranks, one of which
  owns a single cell, a cache cell shared by two of them; 2 steps (displacements add up
  between sortings), one repartition.

**Fairness.**  `SimulationRun!FairSpec` is weak fairness of the steps of a running
process: the loop of `run()` is sequential code.  Killing a job, submitting the next
one and failing solvers are not fair.  `RestartRanks!RanksFairSpec` is weak fairness of
`Next` as a whole: some rank that can go on does, which is less than the fairness of
an MPI run.  `NewtonSolver!NewtonFairSpec` is weak fairness of the steps inside `solve()`, and
nobody has to call it.  `SignedDistance!Spec` is weak fairness of each rank's own part and
of the collective calls, which return once all ranks are in them; nobody has to call
`solve()`.

Deadlock is not checked where the system may stop: a job that has ended with no job
left, the bound on steps, or a call that threw.  In the ring (`restart_kept`) and for the
particles, where a deadlock would be a message nobody sends, it is; `Finished` is the only
way to stop there.

## 5. Findings

`LoadedStateIsOneSave` is a run that TLC ends with a counterexample, and an entry of
`PROJECT.json`: a kill inside `prepare_save()` or `save()` leaves a slot with files of two
saves, and `load()` takes time and output records from one and mesh and vectors from the
other (`MP:642`).

**Divergences without a run of their own.**  The first ones have a definition and the
constants with which TLC finds a counterexample:

| definition | with | what the code does |
|---|---|---|
| `RestartRanks!CopyIsOneSave` | the constants of `ranks_agree` | `prepare_save()` returns at once on all ranks but 0 and nothing synchronises, so another rank truncates the archive that rank 0 has yet to copy (`source/utilities/restart.cpp:63`) |
| `SimulationRun!LaserOnTime` | those of `jobs` | the laser's clock is not archived and starts again at the start time (`source/heat/laser_operation.cpp:241`) |
| `FieldHistory!FieldOnTime` | `Type = "least_squares_projection"` | until the projecting predictor has enough old solutions, its zeroed buffer becomes the recent old solution (`include/meltpooldg/linear_algebra/predictor.hpp:150`) |
| `MeltPoolStep!NothingStale` | `Cases <- MCFixedSharp` | with a fixed interface, sharp fluxes and refinement the surface mesh keeps iterators to old cells (`MP:278`) |
| `CutInterface!BandFits` | `Operations <- MCBandSolver` | the band of the band solver is determined once, `if (not band_solver.is_initialized())`, and its `reinit()` is called nowhere (`source/compressible_flow/multiphase_operation.cpp:384`); the comment in lines 346-352 says "reinit preconditioner and band solver" when the layout changed, and `multiphase_band_solver.hpp:62` that the band "has to be recomputed" |
| `TimeIntegrators!RhsOnTime` | `Cases <- MCStages` | a low storage scheme of several stages takes `ci[stage-1]` for the time of the argument of the next stage (`explicit_low_storage_runge_kutta_integrator.cpp:181`, `:185`), which matters where the operator reads the time; the parameter files in `applications/` that use such a scheme (`vortex_bubble_DG.json`, `reinit_circle_DG.json`) use it for the reinitialisation, whose operator does not |
| `TimeIntegrators!VelocityAtArgument` | `Cases <- MCVelocity` | the Crank-Nicolson scheme of the DG advection evaluates its explicit half with the velocity of the new time: the application sets it before the step (`applications/mp-advec-diff/advection_diffusion_application.cpp:259`), `advection_DG_operation.cpp:206-213` sets it for explicit schemes only, and `apply_operator()` sets the boundary conditions' time only (`advection_DG_operator.cpp:317`), where `advection_DG_operator.hpp:72` says that the time is passed "for the case, that time dependent boundary conditions or time dependent field functions are used".  `vortex_bubble_DG.json` of `mp-level-set` and `advection_diffusion_sine_inflow.json` of `mp-advec-diff` use this scheme |
| `TimeIntegrators!ChangeOfWholeStep` | `Cases <- MCDiffusion` | with an IMEX scheme the reinitialisation writes the diffused solution over the recent old one and then measures its change against that (`reinitialization_hyperbolic_DG_operation.cpp:227-241`), which `reinitialization_hyperbolic_DG_operation.hpp:137` calls the "maximum change of the level set due to the current reinitialization step"; a loop that stops by it may stop while the diffusion still moves the level set, or go on although both cancel |
| `ParticleField!ContactsFoundInTies` | those of `particles` | a rank that has the largest displacement adds its own second largest to it, so if two ranks tie, neither counts the other (`source/particles/obstacle_data_structure.cpp:59`); the header asks for "the sum of the two largest displacements" (`obstacle_data_structure.hpp:49`) and promises that queries "return correct results" after `auto_update_particle_cache()` |

Found by reading, and stated here only:

* With `time type: real` each rank compares its own clock in `do_save()`; some may enter
  the collective save and others not.  `RestartRanks` with `RealClock = TRUE` violates
  `SaveCompletes`: a rank waits in `Triangulation::save()` for one that goes on computing.
* The output of a step that is computed again after a restart overwrites its file before the `.pvd` file
  is opened (`postprocessor.cpp:249-260`, `:273-280`): a job killed in between leaves an old record over
  data of another time, until the next output is complete.
* `time_stepping_synchronized()` also compares adaflo's `old_step_size()` with
  `get_old_time_increment()`, which from the second step on is the increment of the present step
  (`time_iterator.cpp:59-67`).  What adaflo returns depends on its class, which is not in this repository;
  `AdafloAligned` leaves this comparison out, and `AdafloKeepsOldStep` states what its clock holds.
* `last_written_time` is not archived (`restart.cpp:30`): the first step of a resumed run
  saves again.  Harmless for `LossBounded`.
* The heat-up flag and the step size are not archived (`MP:111`, `MP:757-763`): a resumed job
  starts with the heat-up step size.
* `old_time_increment` is unset in the first step and equal to the present increment
  afterwards (`time_iterator.cpp:59-62`), so the linear predictor's quotient is always 1
  and the change factor limits nothing in the first steps.  `GuessOnTime` is therefore
  stated for equal step sizes.
* With `interface temperature`, both coupling loops compute the mass flux from the interface
  temperature of before the loop (`MP:252`, `MP:385`).  `HeatIterationMoves` is stated for
  the local temperature and holds with the constants of the run `step`.  `PartitionStays` (p4est
  partitions again while the transfer switches the finite element of cells; the weights must not
  follow the interface before that, `cut/repartition.hpp:145`) is proved.
* The reinitialisation commits its history twice per step (the predictor does, and
  `reinitialization_hyperbolic_CG_operation.cpp:178`).  Only an initial guess depends on it.
* `step_count` of the BDF integrator is a static local (`bdf_time_integration.cpp:84`); two
  integrators in one process would share it.  No application creates two.  Its weights take
  equal step sizes for granted; `LandsOnTime` and `HistoryWeighted` are checked for BDF with
  a constant step only.
* BDF and IMEX evaluate boundary values at the old time (`dg_operation.cpp`).
* The DG advection hands the integrators the current time where the DG reinitialisation hands
  them the old one (`advection_DG_operation.cpp:215`): right for the theta scheme, which the
  run has, a step late for Runge-Kutta schemes.
* Explicit schemes start from the current solution; two `solve(false)` in a step would advance
  twice.  No application iterates with them.
* The SSP schemes hand the solution as destination to the stage's pre-processing
  (`explicit_ssp_runge_kutta_integrator.cpp`), which no operation uses yet.
* `LevelSetDGOperation` does not recompute the heaviside after the initial reinitialisation, and
  its `attach_output_vectors()` uses the reinitialisation without asking whether there is one.
* `solution_transfer.cpp:797` applies the constraints of the first vector to all; for history
  vectors from the third on the values the header describes (`solution_transfer.hpp:82-107`)
  are overwritten.  The heat operation has two vectors.
* A piece of a phase that appears where no neighbour has the phase keeps zeros, without a
  message (`solution_transfer.cpp:658`); `OldSolutionKept` leaves these unknowns out.
* The condition in `compute_gravity_force()` is the wrong way round (`MP:1660`): without gravity
  the vector is not zeroed there.  `run()` has zeroed it before (`MP:464`), so `FlowSeesThisStep`
  holds.
* The secant iteration for the global volume correction: if the factor 1 already conserves the volume,
  the loop is not entered and the factor applied is its other starting value, 1e-6 times the volume;
  without success after 20 iterations it is 0 (`signed_distance_solver.cpp:1111-1155`).
* `SphericalParticleContactForce` forgets a tangential gap only in a branch that
  `find_particles_in_neighborhood(.., 0.0)` makes unreachable (`contact_forces.cpp:86`): a contact
  that opens and closes again starts with the old gap.  Gaps stay on the rank when a particle
  changes its owner.
* `symplectic_euler_advance_time_step()` moves a particle with the stored acceleration and then
  stores that of the loads just computed (`dem_time_integrators.hpp:52-58`): a load acts one
  step late.
* `deregister_property_pool()` relies on deal.II to invalidate the loop variable it passes.
* `particle_times_and_names` is not archived (`postprocessor.hpp:83-89`): the `.pvd` file of the
  particles forgets what was written before a restart.
* `mark_cells_for_refinement()` updates the ghost values of level set and normals (`MP:1914`)
  and undoes it at its end (`MP:2337`), but not at the return for an interface that needs no
  refinement (`MP:2002`); it is not modelled.  `is_finished()` compares times with an absolute epsilon
  (`time_iterator.cpp:35`), which whole units of time do not show.

## 6. Proofs

TLAPS checks the following for every value of the constants that satisfies the
`ASSUME`s of the module.  The assumptions give the constants their types, say that the
model values differ from one another, and in two places say what the code asks of its
parameters or meshes: `SimulationRun` that the intervals of output and restart are not
shorter than the time step (`OutputData::post()`, `RestartData::check_input_parameters()`),
`CutInterface` that at most eight cells meet at a node, as on the refined boxes of the
applications (the values of the model are multiples of 840 so that averages over up to
eight cells are whole numbers).  A hypothesis that is not an `ASSUME` stands in the
theorem, and is named below.

The pattern is the same everywhere: an invariant that a run confirmed, one lemma per
action or one for all of them, and a last step that hands `Init`, step and consequence to
the temporal prover.  `TypeCorrect` (every variable keeps its type, for every step, save,
crash and restart) is proved for all modules of this section but `CutInterface` and
`ParticleField`, whose invariants need only the few types they state themselves.

**RestartProofs**, the ring.  `TypeCorrect`, `LastSaveSurvives`, `SlotsInOrder`,
`RingImplementsStore`.  `LastSaveLoadable` is not inductive: in the middle of a copy no
single slot need look special, and what saves the newest copy is that the slots are
shifted from the oldest on.  The invariant `Survives` says so: there is an `a`, no
larger than the number of cut saves since, such that the save is in slot `a` as long
as the loop has not passed it, partly in `a + 1` while the loop is at `a`, and in
`a + 1` after that (`KeptAt`).  `Written` adds what `save()` has put into slot 0.  `KeptStep`
shows that no step but the end of a save or a kill disturbs `KeptAt`; a kill increases
`a` by at most one.  `InOrder` generalises the same argument from the newest save to
the row of the last ones.  For the refinement, `SInv` adds that unfinished saves are
whole nowhere; it is proved under `MaxCut + 1 <= LastSlot`: a ring in which more saves
in a row may be cut short than it has slots to spare implements no such store.

**SolverProofs**, the reinitialisation.  `TypeCorrect`, `LimitsOfCycles`, `NormalsOfCycle`,
`ChangesBounded`, `ConstraintHolds`, from one invariant: `Limits` (outside the loop the
pseudo-time step number is 0 and the limit is that of the coming cycle: this is what
makes `compute_interface_quadrature()` renew the quadrature when a cycle begins),
`Holding` (in a held cycle the quadrature is where the cycle began), `Left` (the
operation's own level set is within `Small` of what the last cycle left).  `ChangesBounded`
is then the triangle inequality (`DiffFacts`).

**SolverProofs**, the Newton solver.  `NewtonTypeCorrect`, `OnlyConvergedReturns`,
`FirstConvergedReturns`, `ResidualBelongs`.  The invariant `Recorded` says that the solver's members are those the
record of this call determines (tolerances by the iteration, reference by the first
one), so that the code's check is the criterion (`CheckIsCriterion`); `NotYet` that all
iterations before failed it.

**RestartProofs**, the ranks.  `RanksTypeCorrect`, `SlotZeroStaysCoherent`, for every number of ranks, with the
hypothesis that "time type" is simulation: with the system's clock the statement is false
(section 5).  The ranks are not synchronised between `do_save()` and the collective
`Triangulation::save()`, and what holds in between is `Agreed`: no rank is back in its
time step while another one saves (`OneAnswer`), slot 0 is whole until the first rank
opens the archive (`WholeBefore`), and once a rank has written it the archive is whole or
another rank is writing it again (`WrittenByAll`).

**SimulationRunProofs.**  `AdafloStaysAligned`, `AdafloKeepsItsOldStep`, `LossStaysBounded`,
`PvdStaysTrue`, `OutputStaysComplete`, over any number of jobs.

* `Clocks`: adaflo's step number, time and last step are the time iterator's even between the steps,
  and its previous time is only within one; `synchronize_time_stepping()` restores this from the start
  time by repeating steps.
* `SavedLate`: the clock of `do_save()`, which starts again in every process, never runs ahead
  of the newest restart data; so it may save too often but not too seldom.
* `Truth`: `PvdTellsTheTruth` is not inductive, because a list that tells the truth now may
  come back later, from the archive, when its files have been written again.  The invariant
  speaks of all four lists at once (rank 0's, the others', the archived one and the file's):
  their records are in order, not ahead of their clock, and the archived ones name a file that is missing
  here or has the recorded time, but for one: the file of the archived step itself may have been cut
  by a job that continued from it, if its output was due at once (`SnapCut`); every job that
  continues from it then writes this file before anything else.  So an output that completes has
  only true records in its list (`StageTruth`), and the `.pvd` file is wrong in torn steps only
  (`PvdTruth`).
* `Complete` and `Recent`: each of the lists has every due step since the directory is in use,
  and the time of the last output is no later than the last record, also for what was archived.

What `clean_pvd()` leaves is a recursive function; induction over it is not available as a
rule (the library's induction theorems take operators as parameters), but the smallest
index that would violate a statement is: `LeastNat` takes it from the well-foundedness of the
natural numbers, and `CleanFacts` and `KeptExists` refute it.  `CutInterfaceProofs` does the same.

**FieldHistoryProofs.**  `FieldStaysOnTime`, `HistoryStaysInOrder`, for every predictor but
the projecting one, for which the first is false (section 5), and `GuessStaysOnTime` for
linear extrapolation.  `History` says what is in order at each place of the protocol:
everything between steps and after a solve, the old solutions one step late before
`init_time_advance()`, and all but the current one after it; `Protocol` that the flag
`ready_for_time_advance` tells the latter two apart.  The archived history is always
in order, which is what a restart needs.

**MeltPoolStepProofs.**  `NothingStaleIsRead`, `InterfaceStaysCoherent`,
`FlowAlwaysSeesThisStep`, for every set of parameter files and any number of coupling
iterations.  `TypeInv` knows which vectors are attached (`Fields`: these hold values on the
present mesh at any time); `FluidMade` and `SurfaceMade` say when those that are not have been
made again.  `Coherent` and `LevelSetRead` follow heaviside, normals and curvature through the
loops, and `Late` the forces from `ComputeFluxes` to `SolveFlow`.  Two hypotheses on the
parameter files: `FixedSharpIsNotRefined` rules out the divergence of section 5
(`NothingStaleIsRead` only), and `ExtrapolatedIsAdvected` a level set that is extrapolated in
time but never advected; the one parameter file that extrapolates
(`recoil_pressure/tests/melt_pool_evapor_hybrid_extrapolate_1d.json`) advects it.

**CutInterfaceProofs.**  `CutAlwaysFits`, `PreconditionerAlwaysFits`,
`PartitionAlwaysStays`, `OldSolutionIsAlwaysKept`, for every mesh, every set of level sets
and every number of processes.

* `Followed`: the classifier is that of the level set except in a step that has yet to adapt,
  the layout that of the classifier except before the transfer.
* `Preconditioned`: a preconditioner without the flag for an update fits.
* `Kept`: the first vector on its way through a step.  The transfer averages over cells that
  may have contributed nothing and takes that back (`Transferred`): an unknown that is not
  flagged has cells that carried it before and still do, those that contributed nothing are
  exactly the ones cut just now, and one that is flagged has none of the former
  (`CommonFacts`, from the fact that two cells with a common node cannot be in different
  phases, `LocatedFacts`).  What the ghost penalty reaches it reaches from a known value
  (`JoinedNeedsKnown`), so the extension of a constant is that constant (`Extended`).

**SignedDistanceProofs.**  `TypeCorrect`, `DistanceIsShortest`, `SmallShiftIsShortest`,
`SideIsKept`, for every mesh, every partition and every sequence of solves.

* *The volume.*  The ranks add up the corrections of their own cells and `MPI_Allreduce`s add
  up the sums.  That this is the sum over all cells is not assumed: it is proved from the
  recursive equation of the fold, by induction over the size of a finite set (`LeastNat`).
* *The phases.*  `Sync` says which ranks can be where at the same time, since only the exchanges
  and the `logical_or` synchronise them; everything else is stated by phase.
* *The cut cells.*  `Mapped`: the map of cut cells is that of the present level set on every rank,
  although it outlives the solve before.  `Corrected` and `Signed` follow measured distances and
  shift to the nodes.
* *The march.*  A node's distance on any rank is never shorter than a way from a cut cell
  (`Founded`: a distance that is not the initial one is that of a neighbour and the way over
  their cell); between the passes the copies agree (`Agreed`), and distances only ever sink
  (`Sinking`).  When the last pass has changed nothing anywhere no way is left that would shorten
  a distance (`Settled`), and both bounds together are what one process finds.
* `DistanceIsShortest` has the hypothesis `ShiftIsGentle`, in the conclusion: the march leaves out
  cut cells, so it reaches a node of one over the faces of other cells only, and the reference is
  what one process finds if the shift has not pushed the measured distances beyond a way round.
  TLC found it to hold with the constants of the run `march`, whose shifts are not all small;
  `SmallShiftIsShortest` needs no such hypothesis when the shifts of any set of cut cells together are
  no larger than the distance between a measured node and the next (`H - Near`), in particular
  without a volume correction.  `SideIsKept` asks that the maximum distance is positive.

**ParticleFieldProofs.**  `GhostsAreCurrent`, `NeighboursAreFound`, `LoadsAreOnce`, for every
number of ranks and particles, every mesh and division of it, all moves and every order in which
the ranks work.  Three invariants, of which each uses the ones before it:

* `IInv`, for the ghosts.  `Abreast` says how far a rank may be ahead of those it exchanges
  messages with, and `Mailed` what is in the box between any two ranks at that point: nothing, or
  one message, of the kind that is due (`CountsDue`, `LoadsDue`, `ParticlesDue`, `ValuesDue` never
  hold together for one box).  So a receive with a tag used for two kinds of messages gets the
  right kind.  `Kept` and `Unpacked` say that both sides remember the same list since the last
  sorting, in the same order, and that the pool holds it behind the start handle
  (`PoolsFacts`, from the recursive function that fills the pool); this makes values without
  identifiers reach the right ghosts.
* `NInv`, for the search.  `Placed`: the tracker's locations are those at which the particles were
  sorted into cells.  `Near`: touching particles were sorted into adjacent cache cells unless
  two ranks have tied (`tied`), and every particle into one adjacent to what it overlaps.  A move
  keeps this or leads to a sorting (`MovesBounded`: what the ranks agree on bounds the sum of the
  displacements of any two particles).  `Listed`: the cell cache holds every particle a rank sees.
* `LInv`, for the loads.  Before `compress()` the owner has the contacts and the push of its own
  cells (`Added`), and the push of the others' cells is under way (`LoadsSent`).  The sum is a
  fold over what has arrived; `GatheredOnce` takes it from the fold's recursive equation that
  loads with nothing in common add up to one of each.

The ranks are numbered from 0, as MPI does, and a cache cell holds a particle with a fifth to
spare, as `minimal_cell_vertex_distance()` is used.  `Touch` and `Overlapped` are those of the
model's line.

**Only model-checked.**  The liveness properties (`SaveCompletes`, `JobReachesEnd`,
`CallEnds`, `SolveEnds`), which need fairness and ENABLED; and the properties of
`TimeIntegrators`: every scheme is arithmetic on its own table of coefficients, with powers, which
the provers do not know, and sums by folds over stages; the statement is one computation for each
scheme, and TLC does it.  The archives on several ranks with the system's clock and contacts
after a tie are not proved because they are false (section 5).

## 7. Not modelled, and what comes next

Formulas, assembly, linear solvers and geometric searches are left out for good: their
results are real numbers, and every property worth stating about them is numerical.
Floating-point effects are left out as well: time is counted in whole units, so that
the comparison with `epsilon` in `is_finished()` is an exact one.

The map covers a small part of the repository's lines, and will.  Most of its lines are
formulas, element loops, template instantiations, parameters and test cases, with no state
that outlives a call.  What keeps state from call to call is modelled, with these
exceptions, which would come next:

1. *Refinement*: marking with its early returns and ghost states (`MP:1914`), transfer lists
   of all operations, as the environment of `MeltPoolStep` and `FieldHistory`.
2. *Fixed-point solver* beside `NewtonSolver`, and one abstract solver for both.
3. *Discontinuous level set*: the loops around the integrators, as a further case of
   `Reinitialization`.
4. *Particles*: contact history over changes of owner, walls, observers that
   subscribe later or to a mesh that was refined in between.

In `SignedDistance` hanging nodes are left out, in `TimeIntegrators` the coefficients of
higher low storage schemes (rounded to thousandths for the one of three stages) and the
damping of the Chebyshev scheme (zero).  `CutInterface` takes the set-up of the compressible
operations' dof system from its users, and assumes that the level set has not moved between
a solve and a change of the mesh, as in the applications.

Next theorems: the full type invariants of `CutInterface` and `ParticleField`.

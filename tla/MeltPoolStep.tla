---------------------------- MODULE MeltPoolStep ----------------------------
(***************************************************************************)
(* One time step of MeltPoolApplication::run() as an exchange of vectors   *)
(* between its operations: level set, evaporation, heat transfer, melt     *)
(* front and flow, with the two coupling iterations, mesh refinement, and  *)
(* restart.  A vector is represented by where its values come from: the    *)
(* mesh it is defined on and the solutions for level set and temperature   *)
(* it was computed from, each solution being numbered; or it is Blank      *)
(* after reinit().  The right-hand sides of heat and flow equation are     *)
(* sets of contributions, each with the step it was computed in and the    *)
(* vectors it was computed from.                                           *)
(*                                                                         *)
(* The case modelled has a laser projected onto the interface, surface     *)
(* tension that depends on the temperature and vanishes in the solid,      *)
(* evaporation with a temperature-dependent mass flux that also moves the  *)
(* interface, recoil pressure of the hybrid model, melt front and Darcy    *)
(* damping, and the diffuse heat operator.                                 *)
(***************************************************************************)
EXTENDS Integers

CONSTANTS
  Cases,       (* the parameter files considered: records of                *)
               (*   advect      "do advect level set"                       *)
               (*   extrapolate "do extrapolate coupling terms"             *)
               (*   interface   mass flux, recoil pressure and surface      *)
               (*               tension take the temperature at the         *)
               (*               interface, not the local one                *)
               (*   sharp       evaporative fluxes act on the surface mesh  *)
               (*   amr         "amr: do amr"                               *)
               (*   gravity     "flow: gravity" is not zero                 *)
               (*   explicit    explicit formulation of the Darcy damping   *)
               (*   ls, heat    "mp level set evaporation coupling" and     *)
               (*               "mp heat evaporation coupling": n max iter  *)
  MaxSteps,    (* bound on the number of time steps                         *)
  Blank        (* a vector of zeros                                         *)

ASSUME StepAssumption ==
  /\ Cases \subseteq [advect : BOOLEAN, extrapolate : BOOLEAN, interface : BOOLEAN,
                      sharp : BOOLEAN, amr : BOOLEAN, gravity : BOOLEAN, explicit : BOOLEAN,
                      ls : Nat \ {0}, heat : Nat \ {0}]
  /\ MaxSteps \in Nat
  /\ Blank \notin [mesh : Nat, ls : Nat, T : Nat]

VARIABLES
  case,      (* the parameters of the job                                   *)
  step,      (* the time iterator's step number                             *)
  mesh,      (* how often the mesh has been refined                         *)
  f,         (* the vectors                                                 *)
  load,      (* vel_force_rhs, mass_balance_rhs, the laser heat source      *)
  pc,        (* what run() does next                                        *)
  lsIter,    (* solves of the level set in this step                        *)
  heatIter,  (* solves of the temperature in this step                      *)
  snap       (* the newest restart data                                     *)

vars == <<case, step, mesh, f, load, pc, lsIter, heatIter, snap>>

(* The vectors of attach_vectors(): interpolated to a new mesh, archived.  *)
Attached == {"level set", "heaviside", "normal", "curvature", "velocity",
             "temperature", "interface temperature", "mass flux", "melt",
             "interface velocity"}

(* Density, viscosity and damping at the quadrature points ("fluid") are   *)
(* not attached; surface_mesh_info refers to cells and is not even reset.  *)
Vectors == Attached \cup {"fluid", "surface mesh"}

Values == [mesh : Nat, ls : Nat, T : Nat] \cup {Blank}

(* Computed now, on this mesh, from these two solutions.                   *)
Made(ls, T) == [mesh |-> mesh, ls |-> ls, T |-> T]

phi(g) == g["level set"].ls

(* set_initial_conditions(): everything from the initial fields.           *)
InitialFields == [v \in Vectors |-> [mesh |-> 0, ls |-> 0, T |-> 0]]

NoLoad == [force |-> {}, balance |-> {}, laser |-> {}]

Snapshot == [step |-> step, mesh |-> mesh, f |-> f]

Init ==
  /\ case \in Cases
  /\ step = 0
  /\ mesh = 0
  /\ f = InitialFields
  /\ load = NoLoad
  /\ pc = "step"
  /\ lsIter = 0
  /\ heatIter = 0
  /\ snap = Snapshot

-----------------------------------------------------------------------------
(* What depends on the case: the temperature in surface tension, recoil    *)
(* pressure and mass flux, and the surface mesh of the sharp fluxes.       *)
SurfaceTemperature == IF case.interface THEN "interface temperature" ELSE "temperature"
AtInterface == IF case.interface THEN {"interface temperature"} ELSE {}
OnSurface == IF case.sharp THEN {"surface mesh"} ELSE {}

(* update_normal_vector(); LevelSetOperation's heaviside and distance.     *)
WithNormal(g) == [g EXCEPT !["normal"] = Made(phi(g), 0)]

WithHeaviside(g) == [g EXCEPT !["heaviside"] = Made(phi(g), 0)]

(* compute_interface_temperature(): extended along the normals.            *)
WithInterfaceTemperature(g) ==
  IF case.interface
    THEN [g EXCEPT !["interface temperature"] = Made(g["normal"].ls, g["temperature"].T)]
    ELSE g

(* compute_evaporative_mass_flux() of the temperature it is given.         *)
WithMassFlux(g) ==
  LET T == g[SurfaceTemperature]
  IN [g EXCEPT !["mass flux"] = Made(T.ls, T.T)]

(* A new solution of the level set equation, of the heat equation.         *)
WithLevelSet(g) == [g EXCEPT !["level set"] = Made(phi(g) + 1, 0)]

WithTemperature(g) ==
  [g EXCEPT !["temperature"] = Made(g["heaviside"].ls, g["temperature"].T + 1)]

-----------------------------------------------------------------------------
(* A contribution to a right-hand side, and the vectors it is made of.     *)
Term(of, g, read) == [of |-> of, step |-> step, from |-> [v \in read |-> g[v]]]

-----------------------------------------------------------------------------
(* compute_next_time_increment() and the extrapolation of the coupling     *)
(* terms.                                                                  *)
BeginStep ==
  /\ pc = "step"
  /\ step < MaxSteps
  /\ step' = step + 1
  /\ f' = IF case.extrapolate THEN WithLevelSet(f) ELSE f
  /\ lsIter' = 0
  /\ heatIter' = 0
  /\ pc' = IF case.advect THEN "level set" ELSE "laser"
  /\ UNCHANGED <<case, mesh, load, snap>>

(* compute_interface_velocity(): flow velocity plus evaporation velocity.  *)
WithInterfaceVelocity(g) ==
  [g EXCEPT !["interface velocity"] = Made(g["normal"].ls, g["mass flux"].T)]

(* Mutated: normals and heaviside are left to finish_time_advance().       *)
AdvectOnly ==
  /\ pc = "level set"
  /\ lsIter < case.ls
  /\ lsIter' = lsIter + 1
  /\ f' = WithLevelSet(WithInterfaceVelocity(IF case.extrapolate THEN WithNormal(f) ELSE f))
  /\ UNCHANGED <<case, step, mesh, load, pc, heatIter, snap>>

(* One pass of the level set - evaporation loop.                           *)
Advect ==
  /\ pc = "level set"
  /\ lsIter < case.ls
  /\ lsIter' = lsIter + 1
  /\ LET n == IF case.extrapolate THEN WithNormal(f) ELSE f
         a == WithLevelSet(WithInterfaceVelocity(n))
         h == WithHeaviside(WithNormal(a))
     IN f' = IF case.ls = 1 THEN a
             ELSE IF case.interface THEN WithMassFlux(h) ELSE h
  /\ UNCHANGED <<case, step, mesh, load, pc, heatIter, snap>>

WithSurfaceMesh(g) ==
  IF case.sharp THEN [g EXCEPT !["surface mesh"] = Made(g["heaviside"].ls, 0)] ELSE g

WithCurvature(g) == [WithNormal(g) EXCEPT !["curvature"] = Made(phi(g), 0)]

(* Mutated: the heaviside is computed before the reinitialisation.         *)
FinishLevelSetHeavisideFirst ==
  /\ pc = "level set"
  /\ lsIter > 0
  /\ \E r \in {f, WithLevelSet(WithHeaviside(f))} :
       f' = WithSurfaceMesh(WithCurvature(r))
  /\ pc' = "laser"
  /\ UNCHANGED <<case, step, mesh, load, lsIter, heatIter, snap>>

(* The loop has ended at its limit or because the level set changed no     *)
(* more.  finish_time_advance(): reinitialisation (which may be skipped),  *)
(* heaviside, curvature with the normals; then the surface mesh.           *)
FinishLevelSet ==
  /\ pc = "level set"
  /\ lsIter > 0
  /\ \E r \in {f, WithLevelSet(f)} :
       f' = WithSurfaceMesh(WithCurvature(WithHeaviside(r)))
  /\ pc' = "laser"
  /\ UNCHANGED <<case, step, mesh, load, lsIter, heatIter, snap>>

(* compute_heat_source(): the beam at its new position, distributed along  *)
(* the interface.  The old source is zeroed out.                           *)
LaserSource(g) == {Term("laser", g, {"heaviside", "normal"})}

Irradiate ==
  /\ pc = "laser"
  /\ load' = [load EXCEPT !.laser = LaserSource(f)]
  /\ pc' = "heat"
  /\ UNCHANGED <<case, step, mesh, f, lsIter, heatIter, snap>>

(* Mutated: the mass flux is computed before the temperature.              *)
SolveHeatFluxFirst ==
  /\ pc = "heat"
  /\ heatIter < case.heat
  /\ heatIter' = heatIter + 1
  /\ f' = IF case.heat > 1 THEN WithTemperature(WithMassFlux(f)) ELSE WithTemperature(f)
  /\ UNCHANGED <<case, step, mesh, load, pc, lsIter, snap>>

(* One pass of the heat - evaporation loop, or the only solve.             *)
SolveHeat ==
  /\ pc = "heat"
  /\ heatIter < case.heat
  /\ heatIter' = heatIter + 1
  /\ f' = IF case.heat > 1 THEN WithMassFlux(WithTemperature(f)) ELSE WithTemperature(f)
  /\ UNCHANGED <<case, step, mesh, load, pc, lsIter, snap>>

WithMeltFront(g) ==
  [g EXCEPT !["melt"] = Made(g["heaviside"].ls, g["temperature"].T)]

(* Mutated: the mass flux is computed before the interface temperature.    *)
FinishHeatFluxFirst ==
  /\ pc = "heat"
  /\ heatIter > 0
  /\ f' = WithInterfaceTemperature(WithMassFlux(WithMeltFront(f)))
  /\ pc' = "flow"
  /\ UNCHANGED <<case, step, mesh, load, lsIter, heatIter, snap>>

(* After the loop: interface temperature, melt front, mass flux.           *)
FinishHeat ==
  /\ pc = "heat"
  /\ heatIter > 0
  /\ f' = WithMassFlux(WithMeltFront(WithInterfaceTemperature(f)))
  /\ pc' = "flow"
  /\ UNCHANGED <<case, step, mesh, load, lsIter, heatIter, snap>>

(* set_phase_dependent_parameters_flow(): density, viscosity, damping.     *)
WithFluid(g) ==
  [g EXCEPT !["fluid"] = Made(g["heaviside"].ls, g["temperature"].T)]

(* compute_gravity_force() zeroes what was collected before it, but not    *)
(* without gravity, although zero_out is set: its early return has the     *)
(* condition the wrong way round.                                          *)
Gravity(terms, g) ==
  IF case.gravity THEN {Term("gravity", g, {"fluid"})} ELSE terms

SurfaceTension(g) ==
  {Term("surface tension", g,
        {"heaviside", "curvature", "normal", "melt", SurfaceTemperature})}

RecoilPressure(g) ==
  {Term("recoil pressure", g, {"heaviside", "mass flux", SurfaceTemperature})}

(* assemble_rhs(); the implicit formulation hands the damping over with    *)
(* density and viscosity instead.                                          *)
DarcyDamping(g) ==
  IF case.explicit THEN {Term("damping", g, {"fluid", "velocity"})} ELSE {}

(* All forces but gravity are added to what is there.                      *)
Forces(terms, g) ==
  Gravity(terms, g) \cup SurfaceTension(g) \cup RecoilPressure(g) \cup DarcyDamping(g)

(* compute_mass_balance_source_term(), which zeroes the vector.            *)
MassBalance(g) == {Term("evaporation", g, {"heaviside", "mass flux"} \cup OnSurface)}

(* Mutated: vel_force_rhs is left to compute_gravity_force() to zero.      *)
ComputeFluxesOnTop ==
  /\ pc = "flow"
  /\ f' = WithFluid(f)
  /\ load' = [load EXCEPT !.force = Forces(load.force, f'), !.balance = MassBalance(f')]
  /\ pc' = "solve flow"
  /\ UNCHANGED <<case, step, mesh, lsIter, heatIter, snap>>

(* vel_force_rhs = 0, material parameters, and the forces one by one.      *)
ComputeFluxes ==
  /\ pc = "flow"
  /\ f' = WithFluid(f)
  /\ load' = [load EXCEPT !.force = Forces({}, f'), !.balance = MassBalance(f')]
  /\ pc' = "solve flow"
  /\ UNCHANGED <<case, step, mesh, lsIter, heatIter, snap>>

(* Flow solver, output.                                                    *)
SolveFlow ==
  /\ pc = "solve flow"
  /\ f' = [f EXCEPT !["velocity"] = Made(f["heaviside"].ls, f["mass flux"].T)]
  /\ pc' = IF case.amr /\ step < MaxSteps THEN "refine" ELSE "save"
  /\ UNCHANGED <<case, step, mesh, load, lsIter, heatIter, snap>>

-----------------------------------------------------------------------------
(* setup_dof_system(): what is not attached is zeroed, except what refers  *)
(* to the cells directly.                                                  *)
Transferred(g, attached, m) ==
  [v \in Vectors |-> IF v \notin attached
                       THEN IF v = "surface mesh" THEN f[v] ELSE Blank
                     ELSE IF g[v] = Blank THEN Blank ELSE [g[v] EXCEPT !.mesh = m]]

(* Mutated: attach_vectors() leaves the mass flux out.                     *)
RefineMeshNoMassFlux ==
  /\ pc = "refine"
  /\ \/ /\ mesh' = mesh + 1
        /\ f' = Transferred(f, Attached \ {"mass flux"}, mesh')
        /\ load' = NoLoad
     \/ UNCHANGED <<mesh, f, load>>
  /\ pc' = "save"
  /\ UNCHANGED <<case, step, lsIter, heatIter, snap>>

(* refine_mesh(), unless it is not the step for it or no cell is marked.   *)
RefineMesh ==
  /\ pc = "refine"
  /\ \/ mesh' = mesh + 1 /\ f' = Transferred(f, Attached, mesh') /\ load' = NoLoad
     \/ UNCHANGED <<mesh, f, load>>
  /\ pc' = "save"
  /\ UNCHANGED <<case, step, lsIter, heatIter, snap>>

(* save(), if it is due.                                                   *)
Save ==
  /\ pc = "save"
  /\ snap' = Snapshot \/ UNCHANGED snap
  /\ pc' = "step"
  /\ UNCHANGED <<case, step, mesh, f, load, lsIter, heatIter>>

(* A solver does not converge, or the job is killed.                       *)
Stop ==
  /\ pc # "down"
  /\ pc' = "down"
  /\ UNCHANGED <<case, step, mesh, f, load, lsIter, heatIter, snap>>

(* The next job: initialize() with the initial fields, of which the        *)
(* surface mesh remains, and load() with setup_dof_system().               *)
Restart ==
  /\ pc = "down"
  /\ step' = snap.step
  /\ mesh' = snap.mesh
  /\ f' = [v \in Vectors |-> IF v \in Attached THEN snap.f[v]
                             ELSE IF v = "surface mesh" THEN InitialFields[v] ELSE Blank]
  /\ load' = NoLoad
  /\ lsIter' = 0
  /\ heatIter' = 0
  /\ pc' = "step"
  /\ UNCHANGED <<case, snap>>

Next ==
  \/ BeginStep
  \/ Advect
  \/ FinishLevelSet
  \/ Irradiate
  \/ SolveHeat
  \/ FinishHeat
  \/ ComputeFluxes
  \/ SolveFlow
  \/ RefineMesh
  \/ Save
  \/ Stop
  \/ Restart

Spec == Init /\ [][Next]_vars

-----------------------------------------------------------------------------
(* What each part of the step reads.                                       *)
Reads ==
  [level |-> {"level set", "velocity", "heaviside", "normal", "mass flux"} \cup AtInterface,
   heat  |-> {"temperature", "heaviside", "normal", "velocity", "mass flux"}
               \cup OnSurface \cup AtInterface,
   laser |-> {"heaviside", "normal"},
   flow  |-> {"velocity", "heaviside", "normal", "curvature", "temperature",
              "mass flux", "melt"} \cup OnSurface \cup AtInterface]

ReadNext ==
  CASE pc = "level set" -> Reads.level
    [] pc = "laser" -> Reads.laser
    [] pc = "heat" -> Reads.heat
    [] pc = "flow" -> Reads.flow
    [] pc = "solve flow" -> {"velocity", "fluid"}
    [] OTHER -> {}

(* Types; the coupling loops stay within their limits.                     *)
TypeOK ==
  /\ case \in Cases
  /\ step \in 0 .. MaxSteps
  /\ mesh \in 0 .. MaxSteps
  /\ f \in [Vectors -> Values]
  /\ \A t \in load.force \cup load.balance \cup load.laser : t.step \in 1 .. MaxSteps
  /\ pc \in {"step", "level set", "laser", "heat", "flow", "solve flow", "refine",
             "save", "down"}
  /\ lsIter \in 0 .. case.ls
  /\ heatIter \in 0 .. case.heat
  /\ snap \in [step : 0 .. MaxSteps, mesh : 0 .. MaxSteps, f : [Vectors -> Values]]

(* Whatever a part of the step reads is defined on the current mesh and    *)
(* holds values, in the first step after a refinement or a restart as in   *)
(* any other (attach_vectors() against setup_dof_system()).                *)
NothingStale ==
  \A v \in ReadNext : f[v] # Blank /\ f[v].mesh = mesh

(* Whether the next part of the step reads normals and heaviside.          *)
BothRead ==
  \/ pc = "level set" /\ lsIter = 0 /\ ~case.extrapolate
  \/ pc = "level set" /\ lsIter \in 1 .. case.ls - 1
  \/ pc \in {"laser", "heat"}

(* A right-hand side holds each of these contributions once, computed in   *)
(* this step, and from what the vectors still hold.                        *)
Holds(terms, of) ==
  /\ {t.of : t \in terms} = of
  /\ \A t, u \in terms : t.of = u.of => t = u
  /\ \A t \in terms : t.step = step /\ \A v \in DOMAIN t.from : t.from[v] = f[v]

(* Normals and heaviside, from which the evaporation velocity and the      *)
(* laser heat source are put together, belong to one and the same level    *)
(* set, the current one: in every coupling iteration, after refinement and *)
(* after restart (run(), LevelSetOperation::finish_time_advance()); and    *)
(* the heat equation is solved with the laser at that interface.  In the   *)
(* first iteration the velocity may use an extrapolated level set.         *)
InterfaceCoherent ==
  /\ BothRead => f["heaviside"].ls = phi(f) /\ f["normal"].ls = phi(f)
  /\ pc = "heat" => Holds(load.laser, {"laser"})

ForcesOn ==
  {"surface tension", "recoil pressure"}
    \cup (IF case.gravity THEN {"gravity"} ELSE {})
    \cup (IF case.explicit THEN {"damping"} ELSE {})

(* Forces and material parameters see this step's interface and this       *)
(* step's temperature, however many iterations it took ("considering the   *)
(* updated level set and temperature", melt_pool_application.cpp); and the *)
(* flow is solved with every force once, and none of an earlier step: the  *)
(* vectors are collected in place, and each force zeroes or adds.          *)
FlowSeesThisStep ==
  /\ pc \in {"flow", "solve flow"} =>
       /\ f["curvature"].ls = phi(f) /\ f["heaviside"].ls = phi(f)
       /\ \A v \in {"mass flux", "melt"} \cup AtInterface : f[v].T = f["temperature"].T
       /\ \A v \in OnSurface \cup AtInterface : f[v].ls = phi(f)
  /\ pc = "solve flow" =>
       Holds(load.force, ForcesOn) /\ Holds(load.balance, {"evaporation"})

(* melt_pool_case.hpp: "number of iterations to balance nonlinearity in    *)
(* heat equation with evaporation": from the second iteration on, the mass *)
(* flux in the heat equation is that of the iteration before, provided it  *)
(* is computed from the local temperature.                                 *)
HeatIterationMoves ==
  pc = "heat" /\ heatIter > 0 /\ case.heat > 1 /\ ~case.interface =>
    f["mass flux"].T = f["temperature"].T
=============================================================================

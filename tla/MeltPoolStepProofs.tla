------------------------- MODULE MeltPoolStepProofs -------------------------
(***************************************************************************)
(* Proofs about MeltPoolStep for every set of parameter files and every    *)
(* number of steps, with refinements and restarts in any order: the types, *)
(* that nothing stale is read, that the interface quantities belong to one *)
(* level set, and that the flow sees the forces of its step.               *)
(***************************************************************************)
EXTENDS MeltPoolStep, TLAPS

(* Parameter files that are left out where a theorem says so: a level set  *)
(* that is extrapolated but never advected, and a fixed interface with     *)
(* sharp fluxes on a mesh that is refined.                                 *)
ExtrapolatedIsAdvected == \A c \in Cases : c.extrapolate => c.advect
FixedSharpIsNotRefined == \A c \in Cases : c.sharp /\ ~c.advect => ~c.amr

Value == [mesh : Nat, ls : Nat, T : Nat]

LEMMA CaseTypes ==
  ASSUME NEW c \in Cases
  PROVE /\ c.advect \in BOOLEAN /\ c.extrapolate \in BOOLEAN /\ c.interface \in BOOLEAN
        /\ c.sharp \in BOOLEAN /\ c.amr \in BOOLEAN /\ c.gravity \in BOOLEAN
        /\ c.explicit \in BOOLEAN
        /\ c.ls \in Nat /\ c.ls > 0 /\ c.heat \in Nat /\ c.heat > 0
BY StepAssumption

LEMMA ValueFacts == Values = Value \cup {Blank} /\ Blank \notin Value /\ MaxSteps \in Nat
BY StepAssumption DEF Values, Value

(* The attached vectors hold values on mesh m.                             *)
Fields(g, m) ==
  /\ g \in [Vectors -> Values]
  /\ \A v \in Attached : g[v] \in Value /\ g[v].mesh = m

(* One vector is computed anew on the current mesh.                        *)
Put(g, v, ls, T) == [g EXCEPT ![v] = Made(ls, T)]

Fresh(g, h, v, ls, T) ==
  /\ Fields(h, mesh)
  /\ h[v] \in Value /\ h[v].mesh = mesh /\ h[v].ls = ls /\ h[v].T = T
  /\ \A w \in Vectors \ {v} : h[w] = g[w]

LEMMA Computed ==
  ASSUME mesh \in Nat, NEW g, Fields(g, mesh), NEW v \in Vectors,
         NEW ls \in Nat, NEW T \in Nat
  PROVE Fresh(g, Put(g, v, ls, T), v, ls, T)
<1> DEFINE x == Made(ls, T)
           h == Put(g, v, ls, T)
<1>1. x \in Value /\ x.mesh = mesh /\ x.ls = ls /\ x.T = T
  BY DEF Made, Value
<1>2. h = [g EXCEPT ![v] = x]
  BY DEF Put
<1> HIDE DEF x, h
<1>3. x \in Values
  BY <1>1, ValueFacts
<1>4. g \in [Vectors -> Values] /\ \A w \in Attached : w \in Vectors
  BY DEF Fields, Vectors
<1>5. h \in [Vectors -> Values] /\ h[v] = x /\ \A w \in Vectors \ {v} : h[w] = g[w]
  BY <1>2, <1>3, <1>4
<1>6. ASSUME NEW w \in Attached PROVE h[w] \in Value /\ h[w].mesh = mesh
  BY <1>1, <1>4, <1>5 DEF Fields
<1>7. Fields(h, mesh)
  BY <1>5, <1>6 DEF Fields
<1>8. QED
  BY <1>1, <1>5, <1>7 DEF h, Fresh

LEMMA FieldTypes ==
  ASSUME NEW g, NEW m, Fields(g, m), NEW v \in Attached
  PROVE g[v] \in Value /\ g[v] # Blank /\ g[v].mesh = m /\ g[v].ls \in Nat /\ g[v].T \in Nat
<1>1. g[v] \in Value /\ g[v].mesh = m
  BY DEF Fields
<1>2. QED
  BY <1>1, ValueFacts DEF Value

LEMMA PhiFacts ==
  ASSUME NEW g, NEW m, Fields(g, m)
  PROVE phi(g) \in Nat
BY FieldTypes DEF Attached, phi

(* h differs from g at most in the vectors of V.                           *)
Apart(g, h, V) == \A w \in Vectors \ V : h[w] = g[w]

LEMMA NormalFacts ==
  ASSUME mesh \in Nat, NEW g, Fields(g, mesh)
  PROVE LET h == WithNormal(g) IN
        /\ Fields(h, mesh) /\ Apart(g, h, {"normal"})
        /\ h["normal"] \in Value /\ h["normal"].mesh = mesh
        /\ h["normal"].ls = phi(g) /\ h["normal"].T = 0
<1> DEFINE ls == phi(g)
           T == 0
           h == Put(g, "normal", ls, T)
<1>1. "level set" \in Attached /\ "normal" \in Vectors
  BY DEF Attached, Vectors
<1>2. ls \in Nat /\ T \in Nat
  BY PhiFacts
<1>3. WithNormal(g) = h
  BY DEF WithNormal, Put
<1> HIDE DEF ls, T, h
<1>4. Fresh(g, h, "normal", ls, T)
  BY <1>1, <1>2, Computed DEF h
<1>5. QED
  BY <1>3, <1>4 DEF Fresh, Apart, ls, T

LEMMA HeavisideFacts ==
  ASSUME mesh \in Nat, NEW g, Fields(g, mesh)
  PROVE LET h == WithHeaviside(g) IN
        /\ Fields(h, mesh) /\ Apart(g, h, {"heaviside"})
        /\ h["heaviside"] \in Value /\ h["heaviside"].mesh = mesh
        /\ h["heaviside"].ls = phi(g) /\ h["heaviside"].T = 0
<1> DEFINE ls == phi(g)
           T == 0
           h == Put(g, "heaviside", ls, T)
<1>1. "level set" \in Attached /\ "heaviside" \in Vectors
  BY DEF Attached, Vectors
<1>2. ls \in Nat /\ T \in Nat
  BY PhiFacts
<1>3. WithHeaviside(g) = h
  BY DEF WithHeaviside, Put
<1> HIDE DEF ls, T, h
<1>4. Fresh(g, h, "heaviside", ls, T)
  BY <1>1, <1>2, Computed DEF h
<1>5. QED
  BY <1>3, <1>4 DEF Fresh, Apart, ls, T

LEMMA LevelSetFacts ==
  ASSUME mesh \in Nat, NEW g, Fields(g, mesh)
  PROVE LET h == WithLevelSet(g) IN
        /\ Fields(h, mesh) /\ Apart(g, h, {"level set"})
        /\ h["level set"] \in Value /\ h["level set"].mesh = mesh
        /\ h["level set"].ls = phi(g) + 1
        /\ h["level set"].T = 0
<1> DEFINE ls == phi(g) + 1
           T == 0
           h == Put(g, "level set", ls, T)
<1>1. "level set" \in Attached /\ "level set" \in Vectors
  BY DEF Attached, Vectors
<1>2. ls \in Nat /\ T \in Nat
  BY PhiFacts
<1>3. WithLevelSet(g) = h
  BY DEF WithLevelSet, Put
<1> HIDE DEF ls, T, h
<1>4. Fresh(g, h, "level set", ls, T)
  BY <1>1, <1>2, Computed DEF h
<1>5. QED
  BY <1>3, <1>4 DEF Fresh, Apart, ls, T

LEMMA TemperatureFacts ==
  ASSUME mesh \in Nat, NEW g, Fields(g, mesh)
  PROVE LET h == WithTemperature(g) IN
        /\ Fields(h, mesh) /\ Apart(g, h, {"temperature"})
        /\ h["temperature"] \in Value /\ h["temperature"].mesh = mesh
        /\ h["temperature"].ls = g["heaviside"].ls
        /\ h["temperature"].T = g["temperature"].T + 1
<1> DEFINE ls == g["heaviside"].ls
           T == g["temperature"].T + 1
           h == Put(g, "temperature", ls, T)
<1>1. "heaviside" \in Attached /\ "temperature" \in Attached /\ "temperature" \in Vectors
  BY DEF Attached, Vectors
<1>2. ls \in Nat /\ T \in Nat
  BY <1>1, FieldTypes
<1>3. WithTemperature(g) = h
  BY DEF WithTemperature, Put
<1> HIDE DEF ls, T, h
<1>4. Fresh(g, h, "temperature", ls, T)
  BY <1>1, <1>2, Computed DEF h
<1>5. QED
  BY <1>3, <1>4 DEF Fresh, Apart, ls, T

LEMMA InterfaceVelocityFacts ==
  ASSUME mesh \in Nat, NEW g, Fields(g, mesh)
  PROVE LET h == WithInterfaceVelocity(g) IN
        /\ Fields(h, mesh) /\ Apart(g, h, {"interface velocity"})
        /\ h["interface velocity"] \in Value
        /\ h["interface velocity"].mesh = mesh
        /\ h["interface velocity"].ls = g["normal"].ls
        /\ h["interface velocity"].T = g["mass flux"].T
<1> DEFINE ls == g["normal"].ls
           T == g["mass flux"].T
           h == Put(g, "interface velocity", ls, T)
<1>1. "normal" \in Attached /\ "mass flux" \in Attached /\ "interface velocity" \in Vectors
  BY DEF Attached, Vectors
<1>2. ls \in Nat /\ T \in Nat
  BY <1>1, FieldTypes
<1>3. WithInterfaceVelocity(g) = h
  BY DEF WithInterfaceVelocity, Put
<1> HIDE DEF ls, T, h
<1>4. Fresh(g, h, "interface velocity", ls, T)
  BY <1>1, <1>2, Computed DEF h
<1>5. QED
  BY <1>3, <1>4 DEF Fresh, Apart, ls, T

LEMMA InterfaceTemperatureFacts ==
  ASSUME mesh \in Nat, NEW g, Fields(g, mesh)
  PROVE LET h == WithInterfaceTemperature(g) IN
        /\ Fields(h, mesh) /\ Apart(g, h, {"interface temperature"})
        /\ case.interface => /\ h["interface temperature"] \in Value
                             /\ h["interface temperature"].mesh = mesh
                             /\ h["interface temperature"].ls = g["normal"].ls
                             /\ h["interface temperature"].T = g["temperature"].T
<1> DEFINE ls == g["normal"].ls
           T == g["temperature"].T
           h == Put(g, "interface temperature", ls, T)
<1>1. "normal" \in Attached /\ "temperature" \in Attached /\ "interface temperature" \in Vectors
  BY DEF Attached, Vectors
<1>2. ls \in Nat /\ T \in Nat
  BY <1>1, FieldTypes
<1>3. WithInterfaceTemperature(g) = IF case.interface THEN h ELSE g
  BY DEF WithInterfaceTemperature, Put
<1> HIDE DEF ls, T, h
<1>4. Fresh(g, h, "interface temperature", ls, T)
  BY <1>1, <1>2, Computed DEF h
<1>5. QED
  BY <1>3, <1>4 DEF Fresh, Apart, ls, T

LEMMA MassFluxFacts ==
  ASSUME mesh \in Nat, NEW g, Fields(g, mesh)
  PROVE LET h == WithMassFlux(g) IN
        /\ Fields(h, mesh) /\ Apart(g, h, {"mass flux"})
        /\ h["mass flux"] \in Value /\ h["mass flux"].mesh = mesh
        /\ h["mass flux"].ls = g[SurfaceTemperature].ls
        /\ h["mass flux"].T = g[SurfaceTemperature].T
<1> DEFINE ls == g[SurfaceTemperature].ls
           T == g[SurfaceTemperature].T
           h == Put(g, "mass flux", ls, T)
<1>1. SurfaceTemperature \in Attached /\ "mass flux" \in Vectors
  BY DEF Attached, Vectors, SurfaceTemperature
<1>2. ls \in Nat /\ T \in Nat
  BY <1>1, FieldTypes
<1>3. WithMassFlux(g) = h
  BY DEF WithMassFlux, Put
<1> HIDE DEF ls, T, h
<1>4. Fresh(g, h, "mass flux", ls, T)
  BY <1>1, <1>2, Computed DEF h
<1>5. QED
  BY <1>3, <1>4 DEF Fresh, Apart, ls, T

LEMMA MeltFrontFacts ==
  ASSUME mesh \in Nat, NEW g, Fields(g, mesh)
  PROVE LET h == WithMeltFront(g) IN
        /\ Fields(h, mesh) /\ Apart(g, h, {"melt"})
        /\ h["melt"] \in Value /\ h["melt"].mesh = mesh
        /\ h["melt"].ls = g["heaviside"].ls
        /\ h["melt"].T = g["temperature"].T
<1> DEFINE ls == g["heaviside"].ls
           T == g["temperature"].T
           h == Put(g, "melt", ls, T)
<1>1. "heaviside" \in Attached /\ "temperature" \in Attached /\ "melt" \in Vectors
  BY DEF Attached, Vectors
<1>2. ls \in Nat /\ T \in Nat
  BY <1>1, FieldTypes
<1>3. WithMeltFront(g) = h
  BY DEF WithMeltFront, Put
<1> HIDE DEF ls, T, h
<1>4. Fresh(g, h, "melt", ls, T)
  BY <1>1, <1>2, Computed DEF h
<1>5. QED
  BY <1>3, <1>4 DEF Fresh, Apart, ls, T

LEMMA CurvatureFacts ==
  ASSUME mesh \in Nat, NEW g, Fields(g, mesh)
  PROVE LET h == WithCurvature(g) IN
        /\ Fields(h, mesh) /\ Apart(g, h, {"normal", "curvature"})
        /\ h["normal"].ls = phi(g) /\ h["curvature"].ls = phi(g)
<1> DEFINE n == WithNormal(g)
           ls == phi(g)
           T == 0
           h == Put(n, "curvature", ls, T)
<1>1. Fields(n, mesh) /\ Apart(g, n, {"normal"}) /\ n["normal"].ls = ls
  BY NormalFacts
<1>2. ls \in Nat /\ T \in Nat /\ "curvature" \in Vectors /\ "normal" \in Vectors
  BY FieldTypes DEF Attached, Vectors, phi
<1>3. WithCurvature(g) = h
  BY DEF WithCurvature, Put
<1> HIDE DEF n, ls, T, h
<1>4. Fresh(n, h, "curvature", ls, T)
  BY <1>1, <1>2, Computed DEF h
<1>5. Fields(h, mesh) /\ h["normal"].ls = ls /\ h["curvature"].ls = ls
  BY <1>1, <1>2, <1>4 DEF Fresh
<1>6. Apart(g, h, {"normal", "curvature"})
  BY <1>1, <1>4 DEF Apart, Fresh
<1>7. QED
  BY <1>3, <1>5, <1>6 DEF ls

LEMMA SurfaceMeshFacts ==
  ASSUME mesh \in Nat, NEW g, Fields(g, mesh)
  PROVE LET h == WithSurfaceMesh(g) IN
        /\ Fields(h, mesh) /\ Apart(g, h, {"surface mesh"})
        /\ case.sharp => /\ h["surface mesh"] \in Value /\ h["surface mesh"].mesh = mesh
                         /\ h["surface mesh"].ls = g["heaviside"].ls
                         /\ h["surface mesh"].T = 0
<1> DEFINE ls == g["heaviside"].ls
           T == 0
           h == Put(g, "surface mesh", ls, T)
<1>1. "heaviside" \in Attached /\ "surface mesh" \in Vectors
  BY DEF Attached, Vectors
<1>2. ls \in Nat /\ T \in Nat
  BY <1>1, FieldTypes
<1>3. WithSurfaceMesh(g) = IF case.sharp THEN h ELSE g
  BY DEF WithSurfaceMesh, Put
<1> HIDE DEF ls, T, h
<1>4. Fresh(g, h, "surface mesh", ls, T)
  BY <1>1, <1>2, Computed DEF h
<1>5. QED
  BY <1>3, <1>4 DEF Fresh, Apart, ls, T

LEMMA FluidFacts ==
  ASSUME mesh \in Nat, NEW g, Fields(g, mesh)
  PROVE LET h == WithFluid(g) IN
        /\ Fields(h, mesh) /\ Apart(g, h, {"fluid"})
        /\ h["fluid"] \in Value /\ h["fluid"].mesh = mesh
        /\ h["fluid"].ls = g["heaviside"].ls
        /\ h["fluid"].T = g["temperature"].T
<1> DEFINE ls == g["heaviside"].ls
           T == g["temperature"].T
           h == Put(g, "fluid", ls, T)
<1>1. "heaviside" \in Attached /\ "temperature" \in Attached /\ "fluid" \in Vectors
  BY DEF Attached, Vectors
<1>2. ls \in Nat /\ T \in Nat
  BY <1>1, FieldTypes
<1>3. WithFluid(g) = h
  BY DEF WithFluid, Put
<1> HIDE DEF ls, T, h
<1>4. Fresh(g, h, "fluid", ls, T)
  BY <1>1, <1>2, Computed DEF h
<1>5. QED
  BY <1>3, <1>4 DEF Fresh, Apart, ls, T

-----------------------------------------------------------------------------
(* The types.                                                              *)
Counters ==
  /\ case \in Cases
  /\ step \in 0 .. MaxSteps
  /\ mesh \in 0 .. MaxSteps
  /\ pc \in {"step", "level set", "laser", "heat", "flow", "solve flow", "refine",
             "save", "down"}
  /\ lsIter \in 0 .. case.ls
  /\ heatIter \in 0 .. case.heat
  /\ IF pc \in {"step", "save", "down"} THEN mesh <= step ELSE mesh <= step - 1
  /\ pc = "level set" => case.advect
  /\ pc = "refine" => case.amr /\ step < MaxSteps

Loads ==
  /\ load = [force |-> load.force, balance |-> load.balance, laser |-> load.laser]
  /\ \A t \in load.force \cup load.balance \cup load.laser : t.step \in 1 .. MaxSteps

Archived ==
  /\ snap \in [step : 0 .. MaxSteps, mesh : 0 .. MaxSteps, f : [Vectors -> Values]]
  /\ Fields(snap.f, snap.mesh)
  /\ snap.mesh <= snap.step

TypeInv == Counters /\ Loads /\ Archived /\ Fields(f, mesh)

LEMMA Numbers ==
  ASSUME TypeInv
  PROVE /\ case \in Cases /\ case.ls \in Nat /\ case.ls > 0
        /\ case.heat \in Nat /\ case.heat > 0
        /\ step \in Nat /\ mesh \in Nat /\ MaxSteps \in Nat
        /\ snap.step \in Nat /\ snap.mesh \in Nat
<1>1. MaxSteps \in Nat
  BY StepAssumption
<1>2. snap.step \in 0 .. MaxSteps /\ snap.mesh \in 0 .. MaxSteps
  BY DEF TypeInv, Archived
<1>3. step \in 0 .. MaxSteps /\ mesh \in 0 .. MaxSteps /\ case \in Cases
  BY DEF TypeInv, Counters
<1>4. QED
  BY <1>1, <1>2, <1>3, CaseTypes

-----------------------------------------------------------------------------
(* What the steps do to the vectors.                                       *)
LEMMA BeginStepVectors ==
  ASSUME TypeInv, BeginStep
  PROVE /\ Fields(f', mesh) /\ Apart(f, f', {"level set"})
        /\ ~case.extrapolate => f' = f
<1>1. f' = IF case.extrapolate THEN WithLevelSet(f) ELSE f
  BY DEF BeginStep
<1>2. Fields(f, mesh) /\ mesh \in Nat
  BY Numbers DEF TypeInv
<1>3. QED
  BY <1>1, <1>2, LevelSetFacts DEF Apart

LEMMA AdvectVectors ==
  ASSUME TypeInv, Advect
  PROVE /\ Fields(f', mesh)
        /\ Apart(f, f', {"level set", "normal", "heaviside", "mass flux",
                         "interface velocity"})
        /\ case.ls # 1 => f'["heaviside"].ls = phi(f') /\ f'["normal"].ls = phi(f')
<1> DEFINE n == IF case.extrapolate THEN WithNormal(f) ELSE f
           i == WithInterfaceVelocity(n)
           a == WithLevelSet(i)
           k == WithNormal(a)
           h == WithHeaviside(k)
           m == WithMassFlux(h)
<1>1. f' = IF case.ls = 1 THEN a ELSE IF case.interface THEN m ELSE h
  BY DEF Advect
<1>2. Fields(f, mesh) /\ mesh \in Nat
  BY Numbers DEF TypeInv
<1>3. Fields(n, mesh) /\ Apart(f, n, {"normal"})
  BY <1>2, NormalFacts DEF Apart
<1> HIDE DEF n
<1>4. Fields(i, mesh) /\ Apart(n, i, {"interface velocity"})
  BY <1>2, <1>3, InterfaceVelocityFacts
<1> HIDE DEF i
<1>5. Fields(a, mesh) /\ Apart(i, a, {"level set"})
  BY <1>2, <1>4, LevelSetFacts
<1> HIDE DEF a
<1>6. Fields(k, mesh) /\ Apart(a, k, {"normal"}) /\ k["normal"].ls = phi(a)
  BY <1>2, <1>5, NormalFacts
<1> HIDE DEF k
<1>7. Fields(h, mesh) /\ Apart(k, h, {"heaviside"}) /\ h["heaviside"].ls = phi(k)
  BY <1>2, <1>6, HeavisideFacts
<1> HIDE DEF h
<1>8. Fields(m, mesh) /\ Apart(h, m, {"mass flux"})
  BY <1>2, <1>7, MassFluxFacts
<1> HIDE DEF m
<1>9. /\ "level set" \in Vectors /\ "normal" \in Vectors /\ "heaviside" \in Vectors
  BY DEF Vectors, Attached
<1>10. Fields(f', mesh)
  BY <1>1, <1>5, <1>7, <1>8
<1>11. Apart(f, a, {"level set", "normal", "heaviside", "mass flux", "interface velocity"})
  BY <1>3, <1>4, <1>5 DEF Apart
<1>12. Apart(f, h, {"level set", "normal", "heaviside", "mass flux", "interface velocity"})
  BY <1>6, <1>7, <1>11 DEF Apart
<1>13. Apart(f, m, {"level set", "normal", "heaviside", "mass flux", "interface velocity"})
  BY <1>8, <1>12 DEF Apart
<1>14. h["heaviside"].ls = phi(h) /\ h["normal"].ls = phi(h)
  BY <1>6, <1>7, <1>9 DEF Apart, phi
<1>15. m["heaviside"].ls = phi(m) /\ m["normal"].ls = phi(m)
  BY <1>8, <1>9, <1>14 DEF Apart, phi
<1>16. QED
  BY <1>1, <1>10, <1>11, <1>12, <1>13, <1>14, <1>15

(* Heaviside, normals and curvature belong to the current level set.       *)
Same(g) ==
  g["heaviside"].ls = phi(g) /\ g["normal"].ls = phi(g) /\ g["curvature"].ls = phi(g)

LEMMA FinishLevelSetVectors ==
  ASSUME TypeInv, FinishLevelSet
  PROVE /\ Fields(f', mesh) /\ Same(f')
        /\ case.sharp => /\ f'["surface mesh"] \in Value /\ f'["surface mesh"].mesh = mesh
                         /\ f'["surface mesh"].ls = phi(f')
<1>1. PICK r \in {f, WithLevelSet(f)} :
        f' = WithSurfaceMesh(WithCurvature(WithHeaviside(r)))
  BY DEF FinishLevelSet
<1> DEFINE h == WithHeaviside(r)
           c == WithCurvature(h)
           s == WithSurfaceMesh(c)
<1>2. Fields(r, mesh) /\ mesh \in Nat
  BY <1>1, Numbers, LevelSetFacts DEF TypeInv
<1>3. Fields(h, mesh) /\ Apart(r, h, {"heaviside"}) /\ h["heaviside"].ls = phi(r)
  BY <1>2, HeavisideFacts
<1>4. f' = s
  BY <1>1
<1> HIDE DEF h
<1>5. /\ Fields(c, mesh) /\ Apart(h, c, {"normal", "curvature"})
      /\ c["normal"].ls = phi(h) /\ c["curvature"].ls = phi(h)
  BY <1>2, <1>3, CurvatureFacts
<1> HIDE DEF c
<1>6. /\ Fields(s, mesh) /\ Apart(c, s, {"surface mesh"})
      /\ case.sharp => /\ s["surface mesh"] \in Value /\ s["surface mesh"].mesh = mesh
                       /\ s["surface mesh"].ls = c["heaviside"].ls
  BY <1>2, <1>5, SurfaceMeshFacts
<1> HIDE DEF s
<1>7. /\ "level set" \in Vectors /\ "normal" \in Vectors /\ "heaviside" \in Vectors
      /\ "curvature" \in Vectors
  BY DEF Vectors, Attached
<1>8. Same(c)
  BY <1>3, <1>5, <1>7 DEF Apart, phi, Same
<1>9. Same(s) /\ phi(s) = phi(c)
  BY <1>6, <1>7, <1>8 DEF Apart, phi, Same
<1>10. case.sharp => s["surface mesh"].ls = phi(s)
  BY <1>6, <1>8, <1>9 DEF Same
<1>11. QED
  BY <1>4, <1>6, <1>9, <1>10

LEMMA SolveHeatVectors ==
  ASSUME TypeInv, SolveHeat
  PROVE Fields(f', mesh) /\ Apart(f, f', {"temperature", "mass flux"})
<1> DEFINE t == WithTemperature(f)
           m == WithMassFlux(t)
<1>1. f' = IF case.heat > 1 THEN m ELSE t
  BY DEF SolveHeat
<1>2. Fields(f, mesh) /\ mesh \in Nat
  BY Numbers DEF TypeInv
<1>3. Fields(t, mesh) /\ Apart(f, t, {"temperature"})
  BY <1>2, TemperatureFacts
<1> HIDE DEF t
<1>4. Fields(m, mesh) /\ Apart(t, m, {"mass flux"})
  BY <1>2, <1>3, MassFluxFacts
<1> HIDE DEF m
<1>5. Apart(f, t, {"temperature", "mass flux"}) /\ Apart(f, m, {"temperature", "mass flux"})
  BY <1>3, <1>4 DEF Apart
<1>6. QED
  BY <1>1, <1>3, <1>4, <1>5

LEMMA FinishHeatVectors ==
  ASSUME TypeInv, FinishHeat
  PROVE /\ Fields(f', mesh)
        /\ Apart(f, f', {"interface temperature", "melt", "mass flux"})
        /\ \A v \in {"mass flux", "melt"} \cup AtInterface : f'[v].T = f'["temperature"].T
        /\ \A v \in AtInterface : f'[v].ls = f'["normal"].ls
<1> DEFINE i == WithInterfaceTemperature(f)
           k == WithMeltFront(i)
           m == WithMassFlux(k)
<1>1. f' = m
  BY DEF FinishHeat
<1>2. Fields(f, mesh) /\ mesh \in Nat
  BY Numbers DEF TypeInv
<1>3. /\ Fields(i, mesh) /\ Apart(f, i, {"interface temperature"})
      /\ case.interface => /\ i["interface temperature"].ls = f["normal"].ls
                           /\ i["interface temperature"].T = f["temperature"].T
  BY <1>2, InterfaceTemperatureFacts
<1> HIDE DEF i
<1>4. /\ Fields(k, mesh) /\ Apart(i, k, {"melt"})
      /\ k["melt"].T = i["temperature"].T
  BY <1>2, <1>3, MeltFrontFacts
<1> HIDE DEF k
<1>5. /\ Fields(m, mesh) /\ Apart(k, m, {"mass flux"})
      /\ m["mass flux"].T = k[SurfaceTemperature].T
  BY <1>2, <1>4, MassFluxFacts
<1> HIDE DEF m
<1>6. /\ "normal" \in Vectors /\ "melt" \in Vectors /\ "temperature" \in Vectors
      /\ "interface temperature" \in Vectors
  BY DEF Vectors, Attached
<1>7. Apart(f, m, {"interface temperature", "melt", "mass flux"})
  BY <1>3, <1>4, <1>5 DEF Apart
<1>8. /\ m["temperature"] = f["temperature"] /\ k["temperature"] = f["temperature"]
      /\ i["temperature"] = f["temperature"] /\ m["normal"] = f["normal"]
      /\ m["melt"] = k["melt"]
      /\ m["interface temperature"] = i["interface temperature"]
      /\ k["interface temperature"] = i["interface temperature"]
  BY <1>3, <1>4, <1>5, <1>6 DEF Apart
<1>9. m["melt"].T = m["temperature"].T
  BY <1>4, <1>8
<1>10. case.interface => /\ m["interface temperature"].ls = m["normal"].ls
                         /\ m["interface temperature"].T = m["temperature"].T
  BY <1>3, <1>8
<1>11. m["mass flux"].T = m["temperature"].T
  BY <1>3, <1>5, <1>8 DEF SurfaceTemperature
<1>12. QED
  BY <1>1, <1>5, <1>7, <1>9, <1>10, <1>11 DEF AtInterface

LEMMA ComputeFluxesVectors ==
  ASSUME TypeInv, ComputeFluxes
  PROVE /\ Fields(f', mesh) /\ Apart(f, f', {"fluid"})
        /\ f'["fluid"] \in Value /\ f'["fluid"].mesh = mesh
<1>1. f' = WithFluid(f) /\ Fields(f, mesh) /\ mesh \in Nat
  BY Numbers DEF ComputeFluxes, TypeInv
<1>2. QED
  BY <1>1, FluidFacts

LEMMA SolveFlowVectors ==
  ASSUME TypeInv, SolveFlow
  PROVE Fields(f', mesh) /\ Apart(f, f', {"velocity"})
<1> DEFINE ls == f["heaviside"].ls
           T == f["mass flux"].T
           h == Put(f, "velocity", ls, T)
<1>1. "heaviside" \in Attached /\ "mass flux" \in Attached /\ "velocity" \in Vectors
  BY DEF Attached, Vectors
<1>2. Fields(f, mesh) /\ mesh \in Nat
  BY Numbers DEF TypeInv
<1>3. ls \in Nat /\ T \in Nat
  BY <1>1, <1>2, FieldTypes
<1>4. f' = h
  BY DEF SolveFlow, Put
<1> HIDE DEF ls, T, h
<1>5. Fresh(f, h, "velocity", ls, T)
  BY <1>1, <1>2, <1>3, Computed DEF h
<1>6. QED
  BY <1>4, <1>5 DEF Fresh, Apart

(* A refinement moves the attached vectors to the new mesh, each with the  *)
(* values it had.                                                          *)
LEMMA RefineMeshVectors ==
  ASSUME TypeInv, RefineMesh
  PROVE /\ Fields(f', mesh')
        /\ \A v \in Attached : f'[v].ls = f[v].ls /\ f'[v].T = f[v].T
        /\ f'["surface mesh"] = f["surface mesh"]
<1>1. CASE UNCHANGED <<mesh, f, load>>
  BY <1>1 DEF TypeInv
<1>2. CASE mesh' = mesh + 1 /\ f' = Transferred(f, Attached, mesh') /\ load' = NoLoad
  <2>1. mesh' \in Nat /\ Fields(f, mesh)
    BY <1>2, Numbers DEF TypeInv
  <2>2. "surface mesh" \in Vectors \ Attached
    BY DEF Attached, Vectors
  <2>3. ASSUME NEW v \in Attached
        PROVE /\ v \in Vectors /\ f'[v] \in Value /\ f'[v].mesh = mesh'
              /\ f'[v].ls = f[v].ls /\ f'[v].T = f[v].T
    <3>1. f[v] \in Value /\ f[v] # Blank /\ v \in Vectors
      BY <2>1, FieldTypes DEF Vectors
    <3>2. f'[v] = [f[v] EXCEPT !.mesh = mesh']
      BY <1>2, <3>1 DEF Transferred
    <3>3. QED
      BY <2>1, <3>1, <3>2 DEF Value
  <2>4. f'["surface mesh"] = f["surface mesh"]
    BY <1>2, <2>2 DEF Transferred
  <2>5. ASSUME NEW v \in Vectors PROVE f'[v] \in Values
    <3>1. CASE v \in Attached
      BY <2>3, <3>1, ValueFacts
    <3>2. CASE v = "surface mesh"
      BY <2>1, <2>4, <3>2 DEF Fields
    <3>3. CASE v \notin Attached /\ v # "surface mesh"
      BY <1>2, <3>3, ValueFacts DEF Transferred
    <3>4. QED
      BY <3>1, <3>2, <3>3
  <2>6. f' = [v \in Vectors |-> f'[v]]
    BY <1>2 DEF Transferred
  <2>7. f' \in [Vectors -> Values]
    BY <2>5, <2>6
  <2>8. QED
    BY <2>3, <2>4, <2>7 DEF Fields
<1>3. QED
  BY <1>1, <1>2 DEF RefineMesh

LEMMA RestartVectors ==
  ASSUME TypeInv, Restart
  PROVE /\ Fields(f', mesh')
        /\ \A v \in Attached : f'[v] = snap.f[v]
        /\ f'["surface mesh"] = InitialFields["surface mesh"]
<1>1. f' = [v \in Vectors |-> IF v \in Attached THEN snap.f[v]
                              ELSE IF v = "surface mesh" THEN InitialFields[v] ELSE Blank]
  BY DEF Restart
<1>2. Fields(snap.f, snap.mesh) /\ mesh' = snap.mesh
  BY DEF Restart, TypeInv, Archived
<1>3. "surface mesh" \in Vectors \ Attached
  BY DEF Attached, Vectors
<1>4. InitialFields["surface mesh"] \in Values
  BY <1>3, ValueFacts DEF InitialFields, Value
<1>5. \A v \in Attached : f'[v] = snap.f[v]
  BY <1>1 DEF Vectors
<1>6. f'["surface mesh"] = InitialFields["surface mesh"]
  BY <1>1, <1>3
<1>7. \A v \in Vectors : f'[v] \in Values
  BY <1>1, <1>2, <1>4, ValueFacts DEF Fields
<1>8. f' \in [Vectors -> Values]
  BY <1>1, <1>7
<1>9. QED
  BY <1>2, <1>5, <1>6, <1>8 DEF Fields

-----------------------------------------------------------------------------
(* The types are preserved.                                               *)
LEMMA Bounds ==
  ASSUME TypeInv
  PROVE /\ step <= MaxSteps /\ mesh <= MaxSteps /\ mesh <= step
        /\ pc \notin {"step", "save", "down"} => mesh <= step - 1 /\ step \in 1 .. MaxSteps
        /\ snap.step <= MaxSteps /\ snap.mesh <= MaxSteps /\ snap.mesh <= snap.step
        /\ lsIter \in 0 .. case.ls /\ heatIter \in 0 .. case.heat
<1>1. Counters /\ Archived
  BY DEF TypeInv
<1>2. /\ case \in Cases /\ case.ls \in Nat /\ case.ls > 0
      /\ case.heat \in Nat /\ case.heat > 0
      /\ step \in Nat /\ mesh \in Nat /\ MaxSteps \in Nat
      /\ snap.step \in Nat /\ snap.mesh \in Nat
  BY Numbers
<1>3. /\ snap.step \in 0 .. MaxSteps /\ snap.mesh \in 0 .. MaxSteps
      /\ snap.mesh <= snap.step
  BY <1>1 DEF Archived
<1>4. step \in 0 .. MaxSteps /\ mesh \in 0 .. MaxSteps
  BY <1>1 DEF Counters
<1>5. CASE pc \in {"step", "save", "down"}
  <2>1. mesh <= step
    BY <1>1, <1>5 DEF Counters
  <2>2. lsIter \in 0 .. case.ls /\ heatIter \in 0 .. case.heat
    BY <1>1 DEF Counters
  <2>3. QED
    BY <1>2, <1>3, <1>4, <1>5, <2>1, <2>2
<1>6. CASE pc \notin {"step", "save", "down"}
  <2>1. mesh <= step - 1
    BY <1>1, <1>6 DEF Counters
  <2>2. lsIter \in 0 .. case.ls /\ heatIter \in 0 .. case.heat
    BY <1>1 DEF Counters
  <2>3. mesh <= step /\ step \in 1 .. MaxSteps
    BY <1>2, <1>4, <2>1
  <2>4. QED
    BY <1>2, <1>3, <1>4, <2>1, <2>2, <2>3
<1>7. QED
  BY <1>5, <1>6

LEMMA CountersStep ==
  ASSUME TypeInv, [Next]_vars
  PROVE Counters'
<1>1. /\ case \in Cases /\ case.ls \in Nat /\ case.ls > 0 /\ case.heat \in Nat /\ case.heat > 0
      /\ step \in Nat /\ mesh \in Nat /\ MaxSteps \in Nat
      /\ snap.step \in Nat /\ snap.mesh \in Nat
  BY Numbers
<1>2. Counters
  BY DEF TypeInv
<1>3. CASE BeginStep
  <2>1. /\ pc = "step" /\ step < MaxSteps /\ step' = step + 1 /\ UNCHANGED <<case, mesh>>
        /\ lsIter' = 0 /\ heatIter' = 0
    BY <1>3 DEF BeginStep
  <2>2. (case.advect /\ pc' = "level set") \/ pc' = "laser"
    BY <1>3 DEF BeginStep
  <2>3. /\ step' \in 0 .. MaxSteps /\ mesh' \in 0 .. MaxSteps /\ mesh' <= step' - 1
        /\ lsIter' \in 0 .. case.ls /\ heatIter' \in 0 .. case.heat
    BY <1>1, <2>1, Bounds
  <2>4. QED
    BY <1>1, <2>1, <2>2, <2>3 DEF Counters
<1>4. CASE Advect
  <2>1. /\ pc = "level set" /\ lsIter < case.ls /\ lsIter' = lsIter + 1
        /\ UNCHANGED <<case, step, mesh, pc, heatIter>>
    BY <1>4 DEF Advect
  <2>2. lsIter \in 0 .. case.ls
    BY Bounds
  <2>3. lsIter' \in 0 .. case.ls
    <3>1. case.ls \in Nat /\ lsIter < case.ls /\ lsIter' = lsIter + 1
      BY <1>1, <2>1
    <3>2. QED
      BY <2>2, <3>1
  <2>4. QED
    BY <1>2, <2>1, <2>3 DEF Counters
<1>5. CASE FinishLevelSet
  BY <1>1, <1>2, <1>5 DEF Counters, FinishLevelSet
<1>6. CASE Irradiate
  BY <1>1, <1>2, <1>6 DEF Counters, Irradiate
<1>7. CASE SolveHeat
  BY <1>1, <1>2, <1>7 DEF Counters, SolveHeat
<1>8. CASE FinishHeat
  BY <1>1, <1>2, <1>8 DEF Counters, FinishHeat
<1>9. CASE ComputeFluxes
  BY <1>1, <1>2, <1>9 DEF Counters, ComputeFluxes
<1>10. CASE SolveFlow
  <2>1. pc = "solve flow" /\ UNCHANGED <<case, step, mesh, lsIter, heatIter>>
    BY <1>10 DEF SolveFlow
  <2>2. (case.amr /\ step < MaxSteps /\ pc' = "refine") \/ pc' = "save"
    BY <1>10 DEF SolveFlow
  <2>3. mesh <= step /\ mesh <= step - 1
    BY <2>1, Bounds
  <2>4. QED
    BY <1>2, <2>1, <2>2, <2>3 DEF Counters
<1>11. CASE RefineMesh
  BY <1>1, <1>2, <1>11 DEF Counters, RefineMesh
<1>12. CASE Save
  BY <1>1, <1>2, <1>12 DEF Counters, Save
<1>13. CASE Stop
  <2>1. pc' = "down" /\ UNCHANGED <<case, step, mesh, lsIter, heatIter>>
    BY <1>13 DEF Stop
  <2>2. QED
    BY <1>2, <2>1, Bounds DEF Counters
<1>14. CASE Restart
  <2>1. /\ pc' = "step" /\ step' = snap.step /\ mesh' = snap.mesh
        /\ lsIter' = 0 /\ heatIter' = 0 /\ UNCHANGED case
    BY <1>14 DEF Restart
  <2>2. /\ step' \in 0 .. MaxSteps /\ mesh' \in 0 .. MaxSteps /\ mesh' <= step'
        /\ lsIter' \in 0 .. case.ls /\ heatIter' \in 0 .. case.heat
    BY <1>1, <2>1, Bounds
  <2>3. QED
    BY <1>1, <2>1, <2>2 DEF Counters
<1>15. CASE UNCHANGED vars
  BY <1>2, <1>15 DEF Counters, vars
<1>16. QED
  BY <1>3, <1>4, <1>5, <1>6, <1>7, <1>8, <1>9, <1>10, <1>11, <1>12, <1>13, <1>14, <1>15
     DEF Next

(* What a contribution holds.                                              *)
LEMMA TermFacts ==
  ASSUME NEW of, NEW g, NEW read
  PROVE /\ Term(of, g, read).of = of
        /\ Term(of, g, read).step = step
        /\ DOMAIN Term(of, g, read).from = read
        /\ \A v \in read : Term(of, g, read).from[v] = g[v]
BY DEF Term

LEMMA ForcesFacts ==
  ASSUME NEW g
  PROVE /\ \A t \in Forces({}, g) : t.step = step
        /\ \A t \in MassBalance(g) : t.step = step
        /\ \A t \in LaserSource(g) : t.step = step
<1>1. \A t \in SurfaceTension(g) : t.step = step
  <2> DEFINE read == {"heaviside", "curvature", "normal", "melt", SurfaceTemperature}
             term == Term("surface tension", g, read)
  <2>1. SurfaceTension(g) = {term}
    BY DEF SurfaceTension
  <2> HIDE DEF read
  <2>2. term.step = step
    BY DEF Term
  <2> HIDE DEF term
  <2>3. QED
    BY <2>1, <2>2
<1>2. \A t \in RecoilPressure(g) : t.step = step
  <2> DEFINE read == {"heaviside", "mass flux", SurfaceTemperature}
             term == Term("recoil pressure", g, read)
  <2>1. RecoilPressure(g) = {term}
    BY DEF RecoilPressure
  <2> HIDE DEF read
  <2>2. term.step = step
    BY DEF Term
  <2> HIDE DEF term
  <2>3. QED
    BY <2>1, <2>2
<1>3. \A t \in DarcyDamping(g) : t.step = step
  BY TermFacts DEF DarcyDamping
<1>4. \A t \in Gravity({}, g) : t.step = step
  BY TermFacts DEF Gravity
<1>5. \A t \in MassBalance(g) : t.step = step
  <2> DEFINE read == {"heaviside", "mass flux"} \cup OnSurface
             term == Term("evaporation", g, read)
  <2>1. MassBalance(g) = {term}
    BY DEF MassBalance
  <2> HIDE DEF read
  <2>2. term.step = step
    BY DEF Term
  <2> HIDE DEF term
  <2>3. QED
    BY <2>1, <2>2
<1>6. \A t \in LaserSource(g) : t.step = step
  BY TermFacts DEF LaserSource
<1>7. QED
  BY <1>1, <1>2, <1>3, <1>4, <1>5, <1>6 DEF Forces

LEMMA LoadsStep ==
  ASSUME TypeInv, [Next]_vars
  PROVE Loads'
<1>1. Loads /\ MaxSteps \in Nat
  BY Numbers DEF TypeInv
<1>2. pc \notin {"step", "save", "down"} => step \in 1 .. MaxSteps
  BY Bounds
<1>3. CASE Irradiate
  <2>1. pc = "laser" /\ load' = [load EXCEPT !.laser = LaserSource(f)]
    BY <1>3 DEF Irradiate
  <2>2. \A t \in LaserSource(f) : t.step \in 1 .. MaxSteps
    BY <1>2, <2>1, ForcesFacts
  <2>3. /\ load' = [force |-> load.force, balance |-> load.balance, laser |-> load'.laser]
        /\ load'.force = load.force /\ load'.balance = load.balance
        /\ load'.laser = LaserSource(f)
    BY <1>1, <2>1 DEF Loads
  <2>4. QED
    BY <1>1, <2>2, <2>3 DEF Loads
<1>4. CASE ComputeFluxes
  <2> DEFINE F == Forces({}, f')
             B == MassBalance(f')
  <2>1. pc = "flow" /\ load' = [load EXCEPT !.force = F, !.balance = B]
    BY <1>4 DEF ComputeFluxes
  <2>2. step \in 1 .. MaxSteps
    BY <1>2, <2>1
  <2>3. \A t \in F \cup B : t.step \in 1 .. MaxSteps
    <3>1. \A t \in F \cup B : t.step = step
      BY ForcesFacts DEF F, B
    <3>2. QED
      BY <2>2, <3>1
  <2> HIDE DEF F, B
  <2>4. /\ load' = [force |-> load'.force, balance |-> load'.balance, laser |-> load.laser]
        /\ load'.force = F /\ load'.balance = B /\ load'.laser = load.laser
    BY <1>1, <2>1 DEF Loads
  <2>5. QED
    BY <1>1, <2>3, <2>4 DEF Loads
<1>5. CASE UNCHANGED load
  BY <1>1, <1>5 DEF Loads
<1>6. CASE load' = NoLoad
  BY <1>1, <1>6 DEF Loads, NoLoad
<1>7. UNCHANGED load \/ load' = NoLoad \/ Irradiate \/ ComputeFluxes
  BY DEF Next, vars, BeginStep, Advect, FinishLevelSet, SolveHeat, FinishHeat, SolveFlow,
         RefineMesh, Save, Stop, Restart
<1>8. QED
  BY <1>3, <1>4, <1>5, <1>6, <1>7

LEMMA ArchivedStep ==
  ASSUME TypeInv, [Next]_vars
  PROVE Archived'
<1>1. Archived /\ Fields(f, mesh) /\ step \in 0 .. MaxSteps /\ mesh \in 0 .. MaxSteps
  BY DEF TypeInv, Counters
<1>2. CASE snap' = Snapshot /\ pc = "save"
  <2>1. mesh <= step
    BY <1>2 DEF TypeInv, Counters
  <2>2. snap'.step = step /\ snap'.mesh = mesh /\ snap'.f = f
    BY <1>2 DEF Snapshot
  <2>3. f \in [Vectors -> Values]
    BY <1>1 DEF Fields
  <2>4. snap' \in [step : 0 .. MaxSteps, mesh : 0 .. MaxSteps, f : [Vectors -> Values]]
    BY <1>1, <1>2, <2>3 DEF Snapshot
  <2>5. QED
    BY <1>1, <2>1, <2>2, <2>4 DEF Archived
<1>3. CASE UNCHANGED snap
  BY <1>1, <1>3 DEF Archived
<1>4. UNCHANGED snap \/ (snap' = Snapshot /\ pc = "save")
  BY DEF Next, vars, BeginStep, Advect, FinishLevelSet, Irradiate, SolveHeat, FinishHeat,
         ComputeFluxes, SolveFlow, RefineMesh, Save, Stop, Restart
<1>5. QED
  BY <1>2, <1>3, <1>4

LEMMA FieldsStep ==
  ASSUME TypeInv, [Next]_vars
  PROVE Fields(f', mesh')
<1>1. Fields(f, mesh)
  BY DEF TypeInv
<1>2. CASE UNCHANGED <<f, mesh>>
  BY <1>1, <1>2
<1>3. CASE BeginStep
  BY <1>3, BeginStepVectors DEF BeginStep
<1>4. CASE Advect
  BY <1>4, AdvectVectors DEF Advect
<1>5. CASE FinishLevelSet
  BY <1>5, FinishLevelSetVectors DEF FinishLevelSet
<1>6. CASE SolveHeat
  BY <1>6, SolveHeatVectors DEF SolveHeat
<1>7. CASE FinishHeat
  BY <1>7, FinishHeatVectors DEF FinishHeat
<1>8. CASE ComputeFluxes
  BY <1>8, ComputeFluxesVectors DEF ComputeFluxes
<1>9. CASE SolveFlow
  BY <1>9, SolveFlowVectors DEF SolveFlow
<1>10. CASE RefineMesh
  BY <1>10, RefineMeshVectors
<1>11. CASE Restart
  BY <1>11, RestartVectors
<1>12. QED
  BY <1>2, <1>3, <1>4, <1>5, <1>6, <1>7, <1>8, <1>9, <1>10, <1>11 DEF Next, vars, Irradiate, Save, Stop

LEMMA TypeStep == TypeInv /\ [Next]_vars => TypeInv'
<1> SUFFICES ASSUME TypeInv, [Next]_vars PROVE TypeInv'
  OBVIOUS
<1>2. Counters' /\ Loads' /\ Archived'
  BY CountersStep, LoadsStep, ArchivedStep
<1>3. Fields(f', mesh')
  BY FieldsStep
<1>4. QED
  BY <1>2, <1>3 DEF TypeInv, Fields

LEMMA InitialFieldsTyped ==
  /\ Fields(InitialFields, 0) /\ Same(InitialFields) /\ phi(InitialFields) = 0
  /\ InitialFields["surface mesh"] = [mesh |-> 0, ls |-> 0, T |-> 0]
<1> DEFINE z == [mesh |-> 0, ls |-> 0, T |-> 0]
           g == InitialFields
<1>1. \A v \in Vectors : g[v] = z
  BY DEF InitialFields
<1>2. z \in Value /\ z.mesh = 0 /\ z.ls = 0
  BY DEF Value
<1>3. g \in [Vectors -> Values]
  BY <1>2, ValueFacts DEF InitialFields
<1> HIDE DEF z, g
<1>4. \A v \in Attached : v \in Vectors
  BY DEF Vectors
<1>5. /\ "surface mesh" \in Vectors /\ "level set" \in Vectors /\ "heaviside" \in Vectors
      /\ "normal" \in Vectors /\ "curvature" \in Vectors
  BY DEF Vectors, Attached
<1>6. Fields(g, 0)
  BY <1>1, <1>2, <1>3, <1>4 DEF Fields
<1>7. phi(g) = 0
  BY <1>1, <1>2, <1>5 DEF phi
<1>8. Same(g) /\ g["surface mesh"] = z
  BY <1>1, <1>2, <1>5, <1>7 DEF Same
<1>9. QED
  BY <1>6, <1>7, <1>8 DEF z, g

LEMMA TypeInit == Init => TypeInv
<1> SUFFICES ASSUME Init PROVE TypeInv
  OBVIOUS
<1>2. case \in Cases /\ case.ls \in Nat /\ case.heat \in Nat /\ MaxSteps \in Nat
  BY CaseTypes, StepAssumption DEF Init
<1>3. Counters
  BY <1>2 DEF Init, Counters
<1>4. Loads
  BY DEF Init, Loads, NoLoad
<1>5. Fields(f, mesh)
  BY InitialFieldsTyped DEF Init
<1>6. snap.step = 0 /\ snap.mesh = 0 /\ snap.f = f /\ mesh = 0
      /\ snap = [step |-> 0, mesh |-> 0, f |-> f]
  BY DEF Init, Snapshot
<1>7. f \in [Vectors -> Values]
  BY <1>5 DEF Fields
<1>8. Archived
  BY <1>2, <1>5, <1>6, <1>7 DEF Archived
<1>9. QED
  BY <1>3, <1>4, <1>5, <1>8 DEF TypeInv

LEMMA TypeAlways == Spec => []TypeInv
BY TypeInit, TypeStep, PTL DEF Spec

(* All variables have their types: the coupling loops stay within their    *)
(* limits, and the mesh is refined at most once in a step.                 *)
THEOREM TypeCorrect == Spec => []TypeOK
<1>1. TypeInv => TypeOK
  BY DEF TypeInv, Counters, Loads, Archived, Fields, TypeOK
<1>2. QED
  BY <1>1, TypeAlways, PTL

-----------------------------------------------------------------------------
(* Nothing stale is read: the vectors that are not attached are made anew  *)
(* before they are read.                                                   *)
FluidMade == pc = "solve flow" => f["fluid"] \in Value /\ f["fluid"].mesh = mesh

SurfaceMade ==
  /\ case.sharp /\ pc \in {"laser", "heat", "flow", "solve flow"} =>
       f["surface mesh"] \in Value /\ f["surface mesh"].mesh = mesh
  /\ case.sharp /\ ~case.advect =>
       f["surface mesh"] = InitialFields["surface mesh"] /\ mesh = 0 /\ snap.mesh = 0

LEMMA InitialSurface ==
  LET x == InitialFields["surface mesh"] IN x \in Value /\ x.mesh = 0 /\ x.ls = 0
<1> DEFINE z == [mesh |-> 0, ls |-> 0, T |-> 0]
<1>1. z \in Value /\ z.mesh = 0 /\ z.ls = 0
  BY DEF Value
<1> HIDE DEF z
<1>2. InitialFields["surface mesh"] = z
  BY InitialFieldsTyped DEF z
<1>3. QED
  BY <1>1, <1>2

LEMMA FluidStep == TypeInv /\ FluidMade /\ [Next]_vars => FluidMade'
<1> SUFFICES ASSUME TypeInv, FluidMade, [Next]_vars PROVE FluidMade'
  OBVIOUS
<1>1. CASE ComputeFluxes
  <2>1. f'["fluid"] \in Value /\ f'["fluid"].mesh = mesh /\ UNCHANGED mesh
    BY <1>1, ComputeFluxesVectors DEF ComputeFluxes
  <2>2. QED
    BY <2>1 DEF FluidMade
<1>2. CASE UNCHANGED vars
  BY <1>2 DEF FluidMade, vars
<1>3. CASE pc' # "solve flow"
  BY <1>3 DEF FluidMade
<1>4. pc' # "solve flow" \/ ComputeFluxes \/ UNCHANGED vars
  BY DEF Next, BeginStep, Advect, FinishLevelSet, Irradiate, SolveHeat, FinishHeat, SolveFlow,
         RefineMesh, Save, Stop, Restart
<1>5. QED
  BY <1>1, <1>2, <1>3, <1>4

LEMMA SurfaceStep ==
  ASSUME FixedSharpIsNotRefined, TypeInv, SurfaceMade, [Next]_vars
  PROVE SurfaceMade'
<1> DEFINE x == f["surface mesh"]
           y == InitialFields["surface mesh"]
           AtWork == pc \in {"laser", "heat", "flow", "solve flow"}
<1>1. /\ case.sharp /\ AtWork => x \in Value /\ x.mesh = mesh
      /\ case.sharp /\ ~case.advect => x = y /\ mesh = 0 /\ snap.mesh = 0
  BY DEF SurfaceMade
<1>2. case' = case
  BY DEF Next, vars, BeginStep, Advect, FinishLevelSet, Irradiate, SolveHeat, FinishHeat,
         ComputeFluxes, SolveFlow, RefineMesh, Save, Stop, Restart
<1>3. y \in Value /\ y.mesh = 0 /\ y' = y
  BY InitialSurface DEF InitialFields
<1>4. SUFFICES /\ case.sharp /\ AtWork' => x' \in Value /\ x'.mesh = mesh'
               /\ case.sharp /\ ~case.advect => x' = y /\ mesh' = 0 /\ snap'.mesh = 0
  BY <1>2, <1>3 DEF SurfaceMade
<1>5. "surface mesh" \in Vectors
  BY DEF Vectors
<1>6. CASE BeginStep
  <2>1. UNCHANGED <<mesh, snap>> /\ (pc' = "laser" => ~case.advect) /\ pc' \in {"level set", "laser"}
    BY <1>6 DEF BeginStep
  <2>2. x' = x
    BY <1>5, <1>6, BeginStepVectors DEF Apart
  <2>3. QED
    BY <1>1, <1>3, <2>1, <2>2
<1>7. CASE Advect
  <2>1. pc = "level set" /\ UNCHANGED <<mesh, snap, pc>>
    BY <1>7 DEF Advect
  <2>2. x' = x
    BY <1>5, <1>7, AdvectVectors DEF Apart
  <2>3. QED
    BY <1>1, <2>1, <2>2
<1>8. CASE FinishLevelSet
  <2>1. case.advect /\ UNCHANGED mesh
    BY <1>8 DEF FinishLevelSet, TypeInv, Counters
  <2>2. case.sharp => x' \in Value /\ x'.mesh = mesh
    BY <1>8, FinishLevelSetVectors
  <2>3. QED
    BY <2>1, <2>2
<1>9. CASE SolveHeat
  <2>1. UNCHANGED <<mesh, snap, pc>>
    BY <1>9 DEF SolveHeat
  <2>2. x' = x
    BY <1>5, <1>9, SolveHeatVectors DEF Apart
  <2>3. QED
    BY <1>1, <2>1, <2>2
<1>10. CASE FinishHeat
  <2>1. AtWork /\ UNCHANGED <<mesh, snap>>
    BY <1>10 DEF FinishHeat
  <2>2. x' = x
    BY <1>5, <1>10, FinishHeatVectors DEF Apart
  <2>3. QED
    BY <1>1, <2>1, <2>2
<1>11. CASE ComputeFluxes
  <2>1. AtWork /\ UNCHANGED <<mesh, snap>>
    BY <1>11 DEF ComputeFluxes
  <2>2. x' = x
    BY <1>5, <1>11, ComputeFluxesVectors DEF Apart
  <2>3. QED
    BY <1>1, <2>1, <2>2
<1>12. CASE SolveFlow
  <2>1. UNCHANGED <<mesh, snap>> /\ ~AtWork'
    BY <1>12 DEF SolveFlow
  <2>2. x' = x
    BY <1>5, <1>12, SolveFlowVectors DEF Apart
  <2>3. QED
    BY <1>1, <2>1, <2>2
<1>13. CASE RefineMesh
  <2>1. case \in Cases /\ case.amr /\ ~AtWork' /\ UNCHANGED snap
    BY <1>13 DEF RefineMesh, TypeInv, Counters
  <2>2. ~(case.sharp /\ ~case.advect)
    BY <2>1 DEF FixedSharpIsNotRefined
  <2>3. QED
    BY <2>1, <2>2
<1>14. CASE Save
  <2>1. ~AtWork' /\ UNCHANGED <<f, mesh>> /\ (snap' = Snapshot \/ snap' = snap)
    BY <1>14 DEF Save
  <2>2. Snapshot.mesh = mesh
    BY DEF Snapshot
  <2>3. QED
    BY <1>1, <2>1, <2>2
<1>15. CASE Stop
  BY <1>1, <1>15 DEF Stop
<1>16. CASE Restart
  <2>1. ~AtWork' /\ mesh' = snap.mesh /\ UNCHANGED snap
    BY <1>16 DEF Restart
  <2>2. x' = y
    BY <1>16, RestartVectors
  <2>3. QED
    BY <1>1, <2>1, <2>2
<1>17. CASE Irradiate
  BY <1>1, <1>17 DEF Irradiate
<1>18. CASE UNCHANGED vars
  BY <1>1, <1>18 DEF vars
<1>19. QED
  BY <1>6, <1>7, <1>8, <1>9, <1>10, <1>11, <1>12, <1>13, <1>14, <1>15, <1>16, <1>17, <1>18
     DEF Next

(* What the next part of the step reads is attached, or made before.       *)
LEMMA MadeIsNotStale == TypeInv /\ FluidMade /\ SurfaceMade => NothingStale
<1> SUFFICES ASSUME TypeInv, FluidMade, SurfaceMade, NEW v \in ReadNext
             PROVE f[v] # Blank /\ f[v].mesh = mesh
  BY DEF NothingStale
<1>1. CASE v \in Attached
  BY <1>1, FieldTypes DEF TypeInv
<1>2. CASE v \notin Attached
  <2>1. \/ v = "fluid" /\ pc = "solve flow"
        \/ v = "surface mesh" /\ case.sharp /\ pc \in {"heat", "flow"}
    BY <1>2 DEF ReadNext, Reads, AtInterface, OnSurface, Attached
  <2>2. f[v] \in Value /\ f[v].mesh = mesh
    BY <2>1 DEF FluidMade, SurfaceMade
  <2>3. QED
    BY <2>2, ValueFacts
<1>3. QED
  BY <1>1, <1>2

(* Nothing stale is read, in the first step after a refinement or a        *)
(* restart as in any other, for every parameter file but those with a      *)
(* fixed interface, sharp fluxes and a mesh that is refined: there the     *)
(* surface mesh is never made again.                                       *)
THEOREM NothingStaleIsRead ==
  ASSUME FixedSharpIsNotRefined
  PROVE Spec => []NothingStale
<1>1. ASSUME Init PROVE FluidMade /\ SurfaceMade
  <2>1. pc = "step"
    BY <1>1 DEF Init
  <2>2. f = InitialFields
    BY <1>1 DEF Init
  <2>3. mesh = 0
    BY <1>1 DEF Init
  <2>4. snap.mesh = 0
    BY <1>1, <2>3 DEF Init, Snapshot
  <2>5. QED
    BY <2>1, <2>2, <2>3, <2>4 DEF FluidMade, SurfaceMade
<1>2. TypeInv /\ SurfaceMade /\ [Next]_vars => SurfaceMade'
  BY SurfaceStep
<1>3. QED
  BY <1>1, <1>2, FluidStep, TypeAlways, MadeIsNotStale, PTL DEF Spec

-----------------------------------------------------------------------------
(* Normals, heaviside and curvature belong to the current level set except *)
(* between its solution and finish_time_advance().                         *)
LevelSetRead ==
  pc = "level set" =>
    /\ lsIter = 0 /\ ~case.extrapolate => Same(f)
    /\ lsIter \in 1 .. case.ls - 1 => f["heaviside"].ls = phi(f) /\ f["normal"].ls = phi(f)

Coherent ==
  /\ pc \notin {"level set", "down"} => Same(f)
  /\ Same(snap.f)
  /\ LevelSetRead
  /\ pc = "heat" => load.laser = LaserSource(f)

LEMMA SameKept ==
  ASSUME NEW g, NEW h, Same(g),
         \A v \in {"level set", "heaviside", "normal", "curvature"} : h[v].ls = g[v].ls
  PROVE Same(h) /\ phi(h) = phi(g)
BY DEF Same, phi

LEMMA CoherentStep ==
  ASSUME ExtrapolatedIsAdvected, TypeInv, Coherent, [Next]_vars
  PROVE Coherent'
<1> DEFINE Still == {"level set", "heaviside", "normal", "curvature"}
<1>1. /\ pc \notin {"level set", "down"} => Same(f)
      /\ Same(snap.f) /\ LevelSetRead
      /\ pc = "heat" => load.laser = LaserSource(f)
  BY DEF Coherent
<1>2. case' = case
  BY DEF Next, vars, BeginStep, Advect, FinishLevelSet, Irradiate, SolveHeat, FinishHeat,
         ComputeFluxes, SolveFlow, RefineMesh, Save, Stop, Restart
<1>3. \A v \in Still : v \in Vectors /\ v \in Attached
  BY DEF Vectors, Attached
<1>4. CASE BeginStep
  <2>1. /\ pc = "step" /\ UNCHANGED snap /\ lsIter' = 0 /\ pc' \in {"level set", "laser"}
        /\ pc' = "laser" => ~case.advect
    BY <1>4 DEF BeginStep
  <2>2. pc' = "laser" => ~case.extrapolate
    BY <2>1 DEF ExtrapolatedIsAdvected, TypeInv, Counters
  <2>3. ~case.extrapolate => Same(f')
    BY <1>1, <1>4, <2>1, BeginStepVectors
  <2>4. LevelSetRead'
    <3>1. lsIter' \notin 1 .. case.ls - 1
      <4>1. lsIter' = 0 /\ case.ls \in Nat
        BY <2>1, Numbers
      <4>2. QED
        BY <4>1
    <3>2. QED
      BY <1>2, <2>3, <3>1 DEF LevelSetRead
  <2>5. QED
    BY <1>1, <2>1, <2>2, <2>3, <2>4 DEF Coherent
<1>5. CASE Advect
  <2>1. pc = "level set" /\ pc' = "level set" /\ UNCHANGED snap /\ lsIter' = lsIter + 1
    BY <1>5 DEF Advect
  <2>2. lsIter \in Nat /\ case.ls \in Nat
    BY Numbers, Bounds
  <2>3. lsIter' # 0
    <3>1. lsIter' = lsIter + 1
      BY <2>1
    <3>2. QED
      BY <2>2, <3>1
  <2>4. lsIter' \in 1 .. case.ls - 1 => case.ls # 1
    BY <2>2
  <2>5. case.ls # 1 => f'["heaviside"].ls = phi(f') /\ f'["normal"].ls = phi(f')
    BY <1>5, AdvectVectors
  <2>6. LevelSetRead'
    BY <1>2, <2>3, <2>4, <2>5 DEF LevelSetRead
  <2>7. QED
    BY <1>1, <2>1, <2>6 DEF Coherent
<1>6. CASE FinishLevelSet
  <2>1. pc' = "laser" /\ UNCHANGED snap
    BY <1>6 DEF FinishLevelSet
  <2>2. Same(f')
    BY <1>6, FinishLevelSetVectors
  <2>3. QED
    BY <1>1, <2>1, <2>2 DEF Coherent, LevelSetRead
<1>7. CASE Irradiate
  <2>1. /\ pc = "laser" /\ pc' = "heat" /\ UNCHANGED <<f, step, snap>>
        /\ load' = [load EXCEPT !.laser = LaserSource(f)]
    BY <1>7 DEF Irradiate
  <2>2. load = [force |-> load.force, balance |-> load.balance, laser |-> load.laser]
    BY DEF TypeInv, Loads
  <2>3. load'.laser = LaserSource(f)
    BY <2>1, <2>2
  <2>4. LaserSource(f)' = LaserSource(f)
    BY <2>1 DEF LaserSource, Term
  <2>5. QED
    BY <1>1, <2>1, <2>3, <2>4 DEF Coherent, LevelSetRead
<1>8. CASE SolveHeat
  <2>1. pc = "heat" /\ pc' = "heat" /\ UNCHANGED <<snap, load, step>>
    BY <1>8 DEF SolveHeat
  <2>2. \A v \in Still : f'[v] = f[v]
    BY <1>3, <1>8, SolveHeatVectors DEF Apart
  <2>3. Same(f')
    BY <1>1, <2>1, <2>2, SameKept
  <2>4. LaserSource(f)' = LaserSource(f)
    <3>1. [v \in {"heaviside", "normal"} |-> f'[v]] = [v \in {"heaviside", "normal"} |-> f[v]]
      BY <2>2
    <3>2. QED
      BY <2>1, <3>1 DEF LaserSource, Term
  <2>5. QED
    BY <1>1, <2>1, <2>3, <2>4 DEF Coherent, LevelSetRead
<1>9. CASE FinishHeat
  <2>1. pc = "heat" /\ pc' = "flow" /\ UNCHANGED snap
    BY <1>9 DEF FinishHeat
  <2>2. \A v \in Still : f'[v] = f[v]
    BY <1>3, <1>9, FinishHeatVectors DEF Apart
  <2>3. Same(f')
    BY <1>1, <2>1, <2>2, SameKept
  <2>4. QED
    BY <1>1, <2>1, <2>3 DEF Coherent, LevelSetRead
<1>10. CASE ComputeFluxes
  <2>1. pc = "flow" /\ pc' = "solve flow" /\ UNCHANGED snap
    BY <1>10 DEF ComputeFluxes
  <2>2. \A v \in Still : f'[v] = f[v]
    BY <1>3, <1>10, ComputeFluxesVectors DEF Apart
  <2>3. Same(f')
    BY <1>1, <2>1, <2>2, SameKept
  <2>4. QED
    BY <1>1, <2>1, <2>3 DEF Coherent, LevelSetRead
<1>11. CASE SolveFlow
  <2>1. pc = "solve flow" /\ pc' \in {"refine", "save"} /\ UNCHANGED snap
    BY <1>11 DEF SolveFlow
  <2>2. \A v \in Still : f'[v] = f[v]
    BY <1>3, <1>11, SolveFlowVectors DEF Apart
  <2>3. Same(f')
    BY <1>1, <2>1, <2>2, SameKept
  <2>4. QED
    BY <1>1, <2>1, <2>3 DEF Coherent, LevelSetRead
<1>12. CASE RefineMesh
  <2>1. pc = "refine" /\ pc' = "save" /\ UNCHANGED snap
    BY <1>12 DEF RefineMesh
  <2>2. \A v \in Still : f'[v].ls = f[v].ls
    BY <1>3, <1>12, RefineMeshVectors
  <2>3. Same(f')
    BY <1>1, <2>1, <2>2, SameKept
  <2>4. QED
    BY <1>1, <2>1, <2>3 DEF Coherent, LevelSetRead
<1>13. CASE Save
  <2>1. pc = "save" /\ pc' = "step" /\ UNCHANGED f /\ (snap' = Snapshot \/ snap' = snap)
    BY <1>13 DEF Save
  <2>2. Snapshot.f = f
    BY DEF Snapshot
  <2>3. Same(f') /\ Same(snap'.f)
    BY <1>1, <2>1, <2>2
  <2>4. QED
    BY <2>1, <2>3 DEF Coherent, LevelSetRead
<1>14. CASE Stop
  <2>1. pc' = "down" /\ UNCHANGED snap
    BY <1>14 DEF Stop
  <2>2. QED
    BY <1>1, <2>1 DEF Coherent, LevelSetRead
<1>15. CASE Restart
  <2>1. pc' = "step" /\ UNCHANGED snap
    BY <1>15 DEF Restart
  <2>2. \A v \in Still : f'[v] = snap.f[v]
    BY <1>3, <1>15, RestartVectors
  <2>3. Same(f')
    BY <1>1, <2>2, SameKept
  <2>4. QED
    BY <1>1, <2>1, <2>3 DEF Coherent, LevelSetRead
<1>16. CASE UNCHANGED vars
  <2>1. LaserSource(f)' = LaserSource(f)
    BY <1>16 DEF vars, LaserSource, Term
  <2>2. UNCHANGED <<pc, f, snap, load, lsIter, case>>
    BY <1>16 DEF vars
  <2>3. QED
    BY <1>1, <2>1, <2>2 DEF Coherent, LevelSetRead
<1>17. QED
  BY <1>4, <1>5, <1>6, <1>7, <1>8, <1>9, <1>10, <1>11, <1>12, <1>13, <1>14, <1>15, <1>16
     DEF Next

LEMMA CoherentInit == Init => Coherent
<1> SUFFICES ASSUME Init PROVE Coherent
  OBVIOUS
<1>1. pc = "step"
  BY DEF Init
<1>2. f = InitialFields /\ snap.f = f
  BY DEF Init, Snapshot
<1>3. QED
  BY <1>1, <1>2, InitialFieldsTyped DEF Coherent, LevelSetRead

LEMMA CoherentAlways ==
  ASSUME ExtrapolatedIsAdvected
  PROVE Spec => []Coherent
<1>1. TypeInv /\ Coherent /\ [Next]_vars => Coherent'
  BY CoherentStep
<1>2. QED
  BY <1>1, CoherentInit, TypeAlways, PTL DEF Spec

(* The heat source has one contribution, of this step and of what the      *)
(* vectors still hold.                                                     *)
LEMMA LaserHeld ==
  ASSUME load.laser = LaserSource(f)
  PROVE Holds(load.laser, {"laser"})
<1> DEFINE read == {"heaviside", "normal"}
           term == Term("laser", f, read)
<1>1. load.laser = {term}
  BY DEF LaserSource
<1>2. /\ term.of = "laser" /\ term.step = step
      /\ \A v \in DOMAIN term.from : term.from[v] = f[v]
  BY DEF Term
<1> HIDE DEF read, term
<1>3. QED
  BY <1>1, <1>2 DEF Holds

(* The evaporation velocity and the heat source of the laser are put       *)
(* together from normals and heaviside of the current level set: in every  *)
(* coupling iteration, after refinement and after restart, for every       *)
(* parameter file that does not extrapolate a level set it never advects.  *)
THEOREM InterfaceStaysCoherent ==
  ASSUME ExtrapolatedIsAdvected
  PROVE Spec => []InterfaceCoherent
<1>1. ASSUME TypeInv, Coherent PROVE InterfaceCoherent
  <2>1. BothRead => f["heaviside"].ls = phi(f) /\ f["normal"].ls = phi(f)
    BY <1>1 DEF Coherent, LevelSetRead, BothRead, Same
  <2>2. pc = "heat" => Holds(load.laser, {"laser"})
    BY <1>1, LaserHeld DEF Coherent
  <2>3. QED
    BY <2>1, <2>2 DEF InterfaceCoherent
<1>2. QED
  BY <1>1, CoherentAlways, TypeAlways, PTL

-----------------------------------------------------------------------------
(* The forces of the flow.                                                 *)
Late ==
  /\ pc \in {"flow", "solve flow"} =>
       /\ \A v \in {"mass flux", "melt"} \cup AtInterface : f[v].T = f["temperature"].T
       /\ \A v \in AtInterface : f[v].ls = phi(f)
  /\ pc = "solve flow" => load.force = Forces({}, f) /\ load.balance = MassBalance(f)

(* The surface mesh of sharp fluxes is that of the current level set.      *)
OnTheSurface ==
  /\ case.sharp /\ pc \in {"laser", "heat", "flow", "solve flow"} =>
       f["surface mesh"].ls = phi(f)
  /\ ~case.advect =>
       f["surface mesh"].ls = 0 /\ phi(f) = 0 /\ phi(snap.f) = 0

LEMMA SurfaceLevelStep ==
  ASSUME ExtrapolatedIsAdvected, TypeInv, OnTheSurface, [Next]_vars
  PROVE OnTheSurface'
<1> DEFINE x == f["surface mesh"].ls
           AtWork == pc \in {"laser", "heat", "flow", "solve flow"}
<1>1. /\ case.sharp /\ AtWork => x = phi(f)
      /\ ~case.advect => x = 0 /\ phi(f) = 0 /\ phi(snap.f) = 0
  BY DEF OnTheSurface
<1>2. case' = case
  BY DEF Next, vars, BeginStep, Advect, FinishLevelSet, Irradiate, SolveHeat, FinishHeat,
         ComputeFluxes, SolveFlow, RefineMesh, Save, Stop, Restart
<1>3. SUFFICES /\ case.sharp /\ AtWork' => x' = phi(f')
               /\ ~case.advect => x' = 0 /\ phi(f') = 0 /\ phi(snap'.f) = 0
  BY <1>2 DEF OnTheSurface, phi
<1>4. "surface mesh" \in Vectors /\ "level set" \in Vectors /\ "level set" \in Attached
  BY DEF Vectors, Attached
<1>5. CASE x' = x /\ phi(f') = phi(f) /\ UNCHANGED snap /\ (AtWork' => AtWork)
  BY <1>1, <1>5
<1>6. CASE BeginStep
  <2>1. UNCHANGED snap /\ (pc' = "laser" => ~case.advect) /\ pc' \in {"level set", "laser"}
    BY <1>6 DEF BeginStep
  <2>2. ~case.advect => ~case.extrapolate
    BY DEF ExtrapolatedIsAdvected, TypeInv, Counters
  <2>3. ~case.advect => f' = f
    BY <1>6, <2>2, BeginStepVectors
  <2>4. QED
    BY <1>1, <2>1, <2>3
<1>7. CASE Advect
  <2>1. case.advect /\ pc' = "level set"
    BY <1>7 DEF Advect, TypeInv, Counters
  <2>2. QED
    BY <2>1
<1>8. CASE FinishLevelSet
  <2>1. case.advect
    BY <1>8 DEF FinishLevelSet, TypeInv, Counters
  <2>2. case.sharp => x' = phi(f')
    BY <1>8, FinishLevelSetVectors
  <2>3. QED
    BY <2>1, <2>2
<1>9. CASE Irradiate
  <2>1. x' = x /\ phi(f') = phi(f) /\ UNCHANGED snap /\ AtWork
    BY <1>9 DEF Irradiate
  <2>2. QED
    BY <1>5, <2>1
<1>10. CASE SolveHeat
  <2>1. x' = x /\ phi(f') = phi(f)
    BY <1>4, <1>10, SolveHeatVectors DEF Apart, phi
  <2>2. QED
    BY <1>5, <1>10, <2>1 DEF SolveHeat
<1>11. CASE FinishHeat
  <2>1. x' = x /\ phi(f') = phi(f)
    BY <1>4, <1>11, FinishHeatVectors DEF Apart, phi
  <2>2. QED
    BY <1>5, <1>11, <2>1 DEF FinishHeat
<1>12. CASE ComputeFluxes
  <2>1. x' = x /\ phi(f') = phi(f)
    BY <1>4, <1>12, ComputeFluxesVectors DEF Apart, phi
  <2>2. QED
    BY <1>5, <1>12, <2>1 DEF ComputeFluxes
<1>13. CASE SolveFlow
  <2>1. x' = x /\ phi(f') = phi(f)
    BY <1>4, <1>13, SolveFlowVectors DEF Apart, phi
  <2>2. QED
    BY <1>5, <1>13, <2>1 DEF SolveFlow
<1>14. CASE RefineMesh
  <2>1. x' = x /\ phi(f') = phi(f)
    BY <1>4, <1>14, RefineMeshVectors DEF phi
  <2>2. QED
    BY <1>5, <1>14, <2>1 DEF RefineMesh
<1>15. CASE Save
  <2>1. ~AtWork' /\ UNCHANGED f /\ (snap' = Snapshot \/ snap' = snap)
    BY <1>15 DEF Save
  <2>2. Snapshot.f = f
    BY DEF Snapshot
  <2>3. QED
    BY <1>1, <2>1, <2>2
<1>16. CASE Stop
  BY <1>1, <1>16 DEF Stop
<1>17. CASE Restart
  <2>1. ~AtWork' /\ UNCHANGED snap
    BY <1>17 DEF Restart
  <2>2. x' = 0 /\ phi(f') = phi(snap.f)
    BY <1>4, <1>17, RestartVectors, InitialSurface DEF phi
  <2>3. QED
    BY <1>1, <2>1, <2>2
<1>18. CASE UNCHANGED vars
  BY <1>1, <1>18 DEF vars
<1>19. QED
  BY <1>6, <1>7, <1>8, <1>9, <1>10, <1>11, <1>12, <1>13, <1>14, <1>15, <1>16, <1>17, <1>18
     DEF Next

LEMMA LateStep == TypeInv /\ Coherent /\ Late /\ [Next]_vars => Late'
<1> SUFFICES ASSUME TypeInv, Coherent, Late, [Next]_vars PROVE Late'
  OBVIOUS
<1> DEFINE Temps == {"mass flux", "melt"} \cup AtInterface
<1>1. CASE FinishHeat
  <2>1. pc = "heat" /\ pc' = "flow" /\ UNCHANGED case
    BY <1>1 DEF FinishHeat
  <2>2. AtInterface' = AtInterface
    BY <2>1 DEF AtInterface
  <2>3. /\ \A v \in Temps : f'[v].T = f'["temperature"].T
        /\ \A v \in AtInterface : f'[v].ls = f'["normal"].ls
    BY <1>1, FinishHeatVectors
  <2>4. f'["normal"] = f["normal"] /\ phi(f') = phi(f)
    BY <1>1, FinishHeatVectors DEF Apart, Vectors, Attached, phi
  <2>5. f["normal"].ls = phi(f)
    BY <2>1 DEF Coherent, Same
  <2>6. QED
    BY <2>1, <2>2, <2>3, <2>4, <2>5 DEF Late
<1>2. CASE ComputeFluxes
  <2>1. /\ pc = "flow" /\ pc' = "solve flow" /\ UNCHANGED <<case, step>>
        /\ load' = [load EXCEPT !.force = Forces({}, f'), !.balance = MassBalance(f')]
    BY <1>2 DEF ComputeFluxes
  <2>2. AtInterface' = AtInterface
    BY <2>1 DEF AtInterface
  <2>3. /\ \A v \in Temps : f[v].T = f["temperature"].T
        /\ \A v \in AtInterface : f[v].ls = phi(f)
    BY <2>1 DEF Late
  <2>4. \A v \in Temps \cup {"temperature", "level set"} : v \in Vectors \ {"fluid"}
    BY DEF AtInterface, Vectors, Attached
  <2>5. \A v \in Temps \cup {"temperature", "level set"} : f'[v] = f[v]
    BY <1>2, <2>4, ComputeFluxesVectors DEF Apart
  <2>6. /\ \A v \in Temps : f'[v].T = f'["temperature"].T
        /\ \A v \in AtInterface : f'[v].ls = phi(f')
    BY <2>3, <2>5 DEF phi
  <2>7. load = [force |-> load.force, balance |-> load.balance, laser |-> load.laser]
    BY DEF TypeInv, Loads
  <2>8. load'.force = Forces({}, f') /\ load'.balance = MassBalance(f')
    BY <2>1, <2>7
  <2>9. Forces({}, f)' = Forces({}, f') /\ MassBalance(f)' = MassBalance(f')
    BY <2>1 DEF Forces, Gravity, SurfaceTension, RecoilPressure, DarcyDamping, MassBalance,
                Term, OnSurface, SurfaceTemperature
  <2>10. QED
    BY <2>1, <2>2, <2>6, <2>8, <2>9 DEF Late
<1>3. CASE UNCHANGED vars
  <2>1. UNCHANGED <<pc, f, load, case, step>>
    BY <1>3 DEF vars
  <2>2. AtInterface' = AtInterface /\ phi(f)' = phi(f)
    BY <2>1 DEF AtInterface, phi
  <2>3. Forces({}, f)' = Forces({}, f) /\ MassBalance(f)' = MassBalance(f)
    BY <2>1 DEF Forces, Gravity, SurfaceTension, RecoilPressure, DarcyDamping, MassBalance,
                Term, OnSurface, SurfaceTemperature
  <2>4. QED
    BY <2>1, <2>2, <2>3 DEF Late
<1>4. CASE pc' \notin {"flow", "solve flow"}
  BY <1>4 DEF Late
<1>5. pc' \notin {"flow", "solve flow"} \/ FinishHeat \/ ComputeFluxes \/ UNCHANGED vars
  BY DEF Next, BeginStep, Advect, FinishLevelSet, Irradiate, SolveHeat, SolveFlow,
         RefineMesh, Save, Stop, Restart
<1>6. QED
  BY <1>1, <1>2, <1>3, <1>4, <1>5

(* The forces, each once: gravity and damping if there are any.            *)
LEMMA ForcesHeld ==
  ASSUME load.force = Forces({}, f)
  PROVE Holds(load.force, ForcesOn)
<1> DEFINE readS == {"heaviside", "curvature", "normal", "melt", SurfaceTemperature}
           readR == {"heaviside", "mass flux", SurfaceTemperature}
           readG == {"fluid"}
           readD == {"fluid", "velocity"}
           S == Term("surface tension", f, readS)
           R == Term("recoil pressure", f, readR)
           G == Term("gravity", f, readG)
           D == Term("damping", f, readD)
           Now(t) == t.step = step /\ \A v \in DOMAIN t.from : t.from[v] = f[v]
<1>1. load.force = (IF case.gravity THEN {G} ELSE {}) \cup {S} \cup {R}
                     \cup (IF case.explicit THEN {D} ELSE {})
  BY DEF Forces, Gravity, SurfaceTension, RecoilPressure, DarcyDamping
<1> HIDE DEF readS, readR, readG, readD
<1>2. /\ S.of = "surface tension" /\ R.of = "recoil pressure"
      /\ G.of = "gravity" /\ D.of = "damping"
  BY DEF Term
<1>3. Now(S) /\ Now(R) /\ Now(G) /\ Now(D)
  BY DEF Term
<1> HIDE DEF S, R, G, D, Now
<1>4. \A t \in load.force : Now(t)
  BY <1>1, <1>3
<1>5. \A t, u \in load.force : t.of = u.of => t = u
  BY <1>1, <1>2
<1>6. {t.of : t \in load.force} = ForcesOn
  BY <1>1, <1>2 DEF ForcesOn
<1>7. QED
  BY <1>4, <1>5, <1>6 DEF Holds, Now

LEMMA BalanceHeld ==
  ASSUME load.balance = MassBalance(f)
  PROVE Holds(load.balance, {"evaporation"})
<1> DEFINE read == {"heaviside", "mass flux"} \cup OnSurface
           term == Term("evaporation", f, read)
<1>1. load.balance = {term}
  BY DEF MassBalance
<1> HIDE DEF read
<1>2. /\ term.of = "evaporation" /\ term.step = step
      /\ \A v \in DOMAIN term.from : term.from[v] = f[v]
  BY DEF Term
<1> HIDE DEF term
<1>3. QED
  BY <1>1, <1>2 DEF Holds

(* The forces on the flow and its material parameters see the interface    *)
(* and the temperature of their step, and every force is in the right-hand *)
(* side once, none from a step before: for every parameter file that does  *)
(* not extrapolate a level set it never advects, however many iterations   *)
(* the couplings take, with refinement and restart.                        *)
THEOREM FlowAlwaysSeesThisStep ==
  ASSUME ExtrapolatedIsAdvected
  PROVE Spec => []FlowSeesThisStep
<1>1. ASSUME Init PROVE OnTheSurface /\ Late
  <2>1. pc = "step"
    BY <1>1 DEF Init
  <2>2. f = InitialFields /\ snap.f = f
    BY <1>1 DEF Init, Snapshot
  <2>3. f["surface mesh"].ls = 0
    BY <2>2, InitialSurface
  <2>4. QED
    BY <2>1, <2>2, <2>3, InitialFieldsTyped DEF OnTheSurface, Late
<1>2. TypeInv /\ OnTheSurface /\ [Next]_vars => OnTheSurface'
  BY SurfaceLevelStep
<1>3. ASSUME TypeInv, Coherent, OnTheSurface, Late PROVE FlowSeesThisStep
  <2>1. ASSUME pc \in {"flow", "solve flow"}
        PROVE /\ f["curvature"].ls = phi(f) /\ f["heaviside"].ls = phi(f)
              /\ \A v \in {"mass flux", "melt"} \cup AtInterface :
                   f[v].T = f["temperature"].T
              /\ \A v \in OnSurface \cup AtInterface : f[v].ls = phi(f)
    BY <1>3, <2>1 DEF Coherent, Same, OnTheSurface, OnSurface, Late
  <2>2. ASSUME pc = "solve flow"
        PROVE Holds(load.force, ForcesOn) /\ Holds(load.balance, {"evaporation"})
    BY <1>3, <2>2, ForcesHeld, BalanceHeld DEF Late
  <2>3. QED
    BY <2>1, <2>2 DEF FlowSeesThisStep
<1>4. Spec => []Coherent
  BY CoherentAlways
<1>5. QED
  BY <1>1, <1>2, <1>3, <1>4, LateStep, TypeAlways, PTL DEF Spec
=============================================================================

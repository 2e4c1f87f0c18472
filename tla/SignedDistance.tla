--------------------------- MODULE SignedDistance ---------------------------
(***************************************************************************)
(* SignedDistanceSolver::solve() on a distributed mesh, as the geometric   *)
(* reinitialisation calls it: every rank finds the cells the interface     *)
(* cuts, measures the distance of their nodes, shifts it to conserve the   *)
(* volume, and marches it outwards cell by cell until no rank improves a   *)
(* value any more.  Ranks work on their own copies of the nodal values and *)
(* meet in compress() and update_ghost_values().                           *)
(*                                                                         *)
(* Geometry is a graph: a cell is the set of its faces, a face the set of  *)
(* its nodes, and the way from a node to an opposite face is H long.       *)
(***************************************************************************)
EXTENDS Integers, FiniteSets, FiniteSetsExt, Functions

CONSTANTS
  Ranks,        \* the MPI processes
  Nodes,        \* the degrees of freedom of the linear elements
  Faces,        \* cell -> its faces (sets of nodes)
  H,            \* length of a cell, in units of distance
  MaxDistance,  \* max_distance: nodes farther away keep this value
  LevelSets,    \* the level sets handed in: functions Nodes -> Int
  Etas,         \* outcomes of the cell-wise secant: functions Cells -> Int
  Partitions,   \* the owners of the cells after a mesh change
  MaxSolves     \* bound: calls of solve()

Cells == DOMAIN Faces
NodesOf(c) == UNION Faces[c]
OppositeFaces(c, n) == {f \in Faces[c] : n \notin f}

ASSUME MeshAssumption ==
  /\ IsFiniteSet(Ranks) /\ Ranks # {} /\ H \in Nat \ {0} /\ MaxDistance \in Nat
  /\ IsFiniteSet(Cells) /\ IsFiniteSet(Nodes) /\ Nodes = UNION {NodesOf(c) : c \in Cells}
  /\ \A c \in Cells : {} \notin Faces[c] /\ \A n \in NodesOf(c) : OppositeFaces(c, n) # {}
  /\ LevelSets \subseteq [Nodes -> Int]
  /\ Etas \subseteq [Cells -> Int]
  /\ Partitions \subseteq [Cells -> Ranks]
  /\ MaxSolves \in Nat

VARIABLES
  part,         \* cell -> rank that owns it
  ls,           \* level_set - iso_level, the same on every rank after its ghost update
  eta,          \* what the cell-wise secant finds in this solve
  pc,           \* rank -> where it stands in solve()
  cut,          \* rank -> keys of interface_reconstruction_vertices
  intersected,  \* rank -> intersected_dofs
  dist,         \* rank -> distance
  snap,         \* rank -> distance_with_ghost
  signed,       \* rank -> signed_distance_with_ghost
  corr,         \* rank -> volume_correction
  corona,       \* rank -> corona_cell
  change,       \* rank -> change, before the logical_or
  scale,        \* C_n of the global volume correction
  solves        \* number of calls of solve()

vars == <<part, ls, eta, pc, cut, intersected, dist, snap, signed, corr, corona, change, scale, solves>>

-----------------------------------------------------------------------------

Owned(r) == {c \in Cells : part[c] = r}
Active(r) == UNION {NodesOf(c) : c \in Owned(r)}
Neighbours(c) == {d \in Cells : NodesOf(c) \cap NodesOf(d) # {}}
Visible(r) == UNION {Neighbours(c) : c \in Owned(r)}
Sharing(n) == {r \in Ranks : n \in Active(r)}

\* sgn(): a node on the interface has no side.
Sgn(x) == IF x > 0 THEN 1 ELSE IF x < 0 THEN -1 ELSE 0
Abs(x) == IF x < 0 THEN -x ELSE x

\* A cell is cut when its nodes lie on both sides of the interface; a node on it counts as outside.
IsCut(c) == \E m, n \in NodesOf(c) : ls[m] > 0 /\ ls[n] <= 0

\* Distance of a node of a cut cell to the interface inside that cell. A node on the interface has
\* less, but whatever it has is multiplied by its sign, 0, before it is used.
Near == Min({H \div 2, MaxDistance})

\* Mutated: values travel to the owner (the lowest rank) but are inserted, not compared.
ExchangedMin_insert(d) ==
  [r \in Ranks |-> [n \in Nodes |->
     IF n \in Active(r) THEN d[Min(Sharing(n))][n] ELSE d[r][n]]]

\* compress(min) followed by the ghost update: the sharing ranks agree on the least value.
ExchangedMin(d) ==
  [r \in Ranks |-> [n \in Nodes |->
     IF n \in Active(r) THEN Min({d[q][n] : q \in Sharing(n)}) ELSE d[r][n]]]

\* Mutated: the contributions of the other ranks are not collected.
ExchangedSum_own(v) == v

\* compress(add) followed by the ghost update: contributions of all sharing ranks.
ExchangedSum(v) ==
  [r \in Ranks |-> [n \in Nodes |->
     IF n \in Active(r) THEN SumFunctionOnSet([q \in Ranks |-> v[q][n]], Sharing(n)) ELSE v[r][n]]]

All(place) == \A r \in Ranks : pc[r] = place
Idle == All("ready") \/ All("solved")
GoAll(from, to) == All(from) /\ pc' = [r \in Ranks |-> to]
Go(r, from, to) == pc[r] = from /\ pc' = [pc EXCEPT ![r] = to]

Zero == [r \in Ranks |-> [n \in Nodes |-> 0]]
NoCells == [r \in Ranks |-> {}]

Init ==
  /\ part \in Partitions
  /\ ls \in LevelSets
  /\ eta \in Etas
  /\ pc = [r \in Ranks |-> "ready"]
  /\ cut = NoCells /\ intersected = NoCells /\ corona = NoCells
  /\ dist = Zero /\ snap = Zero /\ signed = Zero /\ corr = Zero
  /\ change = [r \in Ranks |-> FALSE]
  /\ scale = 0
  /\ solves = 0

\* reinit() after the mesh was repartitioned: setup_dofs() sets the vectors up anew; the maps of
\* the interface survive until the next solve().
SetupDofs ==
  /\ Idle /\ solves < MaxSolves
  /\ \E p \in Partitions : p # part /\ part' = p
  /\ pc' = [r \in Ranks |-> "ready"]
  /\ dist' = Zero /\ snap' = Zero /\ signed' = Zero /\ corr' = Zero
  /\ UNCHANGED <<ls, eta, cut, intersected, corona, change, scale, solves>>

\* set_initial_condition() and set_level_set_from_background_mesh(), then solve() is entered.
Solve ==
  /\ Idle /\ solves < MaxSolves
  /\ pc' = [r \in Ranks |-> "reconstruct"]
  /\ ls' \in LevelSets
  /\ eta' \in Etas
  /\ solves' = solves + 1
  /\ UNCHANGED <<part, cut, intersected, dist, snap, signed, corr, corona, change, scale>>

\* Mutated: interface_reconstruction_vertices is not cleared when solve() begins.
CutCells_kept(r) == cut[r] \cup {c \in Visible(r) : IsCut(c)}

\* The cut cells a rank sees: its own and its ghost cells.
CutCells(r) == {c \in Visible(r) : IsCut(c)}

\* solve() up to the first compress(): clear the maps, initialize_distance(),
\* reconstruct_interface(), and the loops of compute_first_neighbors_distance().
Reconstruct(r) ==
  LET found == CutCells(r)
      own   == UNION {NodesOf(c) : c \in found \cap Owned(r)}
  IN
  /\ Go(r, "reconstruct", "first")
  /\ cut' = [cut EXCEPT ![r] = found]
  /\ intersected' = [intersected EXCEPT ![r] = own]
  /\ dist' = [dist EXCEPT ![r] = [n \in Nodes |-> IF n \in own THEN Near ELSE MaxDistance]]
  /\ snap' = [snap EXCEPT ![r] = [n \in Nodes |-> MaxDistance]]
  /\ signed' = [signed EXCEPT ![r] = [n \in Nodes |-> Sgn(ls[n]) * MaxDistance]]
  /\ UNCHANGED <<part, ls, eta, corr, corona, change, scale, solves>>

\* compute_signed_distance_from_distance(): the old signed values give the sign.
WithSign(d) == [r \in Ranks |-> [n \in Nodes |-> d[r][n] * Sgn(signed[r][n])]]

ExchangeFirst ==
  /\ GoAll("first", "volume")
  /\ dist' = ExchangedMin(dist)
  /\ snap' = dist'
  /\ signed' = WithSign(dist')
  /\ UNCHANGED <<part, ls, eta, cut, intersected, corr, corona, change, scale, solves>>

\* compute_cell_wise_volume_correction() before compress(add): every own cut cell gives its share
\* to its nodes (in units of a quarter, the weight n_cells_per_dofs_inv).
CellCorrection(r) ==
  /\ Go(r, "volume", "conserve")
  /\ corr' = [corr EXCEPT ![r] = [n \in Nodes |->
       SumFunctionOnSet(eta, {c \in cut[r] \cap Owned(r) : n \in NodesOf(c)})]]
  /\ UNCHANGED <<part, ls, eta, cut, intersected, dist, snap, signed, corona, change, scale, solves>>

\* The corona starts with the cells around the own cut cells.
FirstCorona(r) == UNION {Neighbours(c) : c \in cut[r] \cap Owned(r)}

\* distance = abs(signed distance).
Magnitude(x) == Abs(x)

\* The two compress() calls and conserve_global_volume(): the secant finds a factor, or gives up
\* with C_n = 0; the shifted values are the distances the marching starts from.
ConserveVolume ==
  /\ GoAll("conserve", "march")
  /\ corr' = ExchangedSum(corr)
  /\ scale' \in {0, 1}
  /\ signed' = [r \in Ranks |-> [n \in Nodes |-> signed[r][n] + scale' * corr'[r][n]]]
  /\ dist' = ExchangedMin([r \in Ranks |-> [n \in Nodes |-> Magnitude(signed'[r][n])]])
  /\ snap' = dist'
  /\ corona' = [r \in Ranks |-> FirstCorona(r)]
  /\ UNCHANGED <<part, ls, eta, cut, intersected, change, solves>>

\* Cells with a node whose distance is known already.
Reached(r) == {c \in Owned(r) : \E n \in NodesOf(c) : snap[r][n] < MaxDistance}

\* The way over the best point of a face opposite to n, where the Newton iteration ends.
Via(c, n, d) == H + Min({d[m] : m \in UNION OppositeFaces(c, n)})

\* No Newton iteration for nodes the interface's own cells gave a distance: the face centre.
FaceCentre(f, d) == SumFunctionOnSet(d, f) \div Cardinality(f)
ViaCentre(c, n, d) == H + Min({FaceCentre(f, d) : f \in OppositeFaces(c, n)})

Approx(r, c, n) ==
  IF n \in intersected[r] THEN ViaCentre(c, n, snap[r]) ELSE Via(c, n, snap[r])

\* Every own, uncut cell of the corona offers a distance to each of its nodes.
Offers(r, n) ==
  {Approx(r, c, n) : c \in {x \in (corona[r] \cup Reached(r)) \cap Owned(r) :
                               x \notin cut[r] /\ n \in NodesOf(x)}}

Improves(r) == \E n \in Active(r) : \E a \in Offers(r, n) : dist[r][n] > a

\* One pass of the loop before the exchange.
Sweep(r) ==
  /\ Go(r, "march", "swept")
  /\ corona' = [corona EXCEPT ![r] = @ \cup Reached(r)]
  /\ dist' = [dist EXCEPT ![r] = [n \in Nodes |-> Min({dist[r][n]} \cup Offers(r, n))]]
  /\ change' = [change EXCEPT ![r] = Improves(r)]
  /\ UNCHANGED <<part, ls, eta, cut, intersected, snap, signed, corr, scale, solves>>

\* Mutated: every rank looks at its own change only.
MarchesOn_own(r) == change[r]

\* logical_or over the ranks: all march on as long as one of them improved a value.
MarchesOn(r) == \E q \in Ranks : change[q]

ExchangeSweep ==
  /\ All("swept")
  /\ dist' = ExchangedMin(dist)
  /\ snap' = dist'
  /\ pc' = [r \in Ranks |-> IF MarchesOn(r) THEN "march" ELSE "finish"]
  /\ UNCHANGED <<part, ls, eta, cut, intersected, signed, corr, corona, change, scale, solves>>

\* The last compute_signed_distance_from_distance() and the ghost updates.
Finish ==
  /\ GoAll("finish", "solved")
  /\ signed' = WithSign(dist)
  /\ UNCHANGED <<part, ls, eta, cut, intersected, dist, snap, corr, corona, change, scale, solves>>

RankStep(r) == Reconstruct(r) \/ CellCorrection(r) \/ Sweep(r)
Collective == ExchangeFirst \/ ConserveVolume \/ ExchangeSweep \/ Finish

Next == SetupDofs \/ Solve \/ Collective \/ \E r \in Ranks : RankStep(r)

\* MPI processes keep running, and a collective call returns once all ranks are in it; nothing
\* makes the caller solve again.
Spec == Init /\ [][Next]_vars /\ WF_vars(Collective) /\ \A r \in Ranks : WF_vars(RankStep(r))

-----------------------------------------------------------------------------

TypeOK ==
  /\ part \in Partitions /\ ls \in LevelSets /\ eta \in Etas
  /\ pc \in [Ranks -> {"ready", "reconstruct", "first", "volume", "conserve", "march", "swept",
                       "finish", "solved"}]
  /\ cut \in [Ranks -> SUBSET Cells] /\ corona \in [Ranks -> SUBSET Cells]
  /\ intersected \in [Ranks -> SUBSET Nodes]
  /\ dist \in [Ranks -> [Nodes -> Nat]] /\ snap \in [Ranks -> [Nodes -> Nat]]
  /\ signed \in [Ranks -> [Nodes -> Int]] /\ corr \in [Ranks -> [Nodes -> Int]]
  /\ change \in [Ranks -> BOOLEAN]
  /\ scale \in {0, 1} /\ solves \in 0 .. MaxSolves

\* What the marching starts from, computed as if one process held the whole mesh.
CutAt(n) == {c \in Cells : IsCut(c) /\ n \in NodesOf(c)}
SignedStart(n) ==
  Sgn(ls[n]) * (IF CutAt(n) # {} THEN Near ELSE MaxDistance)
    + scale * SumFunctionOnSet(eta, CutAt(n))

\* d is the shortest way to the interface through uncut cells: no cell offers less, and every
\* value is a start value or a way over a cell.
Shortest(d) ==
  \A n \in Nodes :
    LET start == Abs(SignedStart(n))
        ways  == {Via(c, n, d) : c \in {x \in Cells : ~IsCut(x) /\ n \in NodesOf(x)}}
    IN d[n] \in {start} \cup ways /\ \A w \in {start} \cup ways : d[n] <= w

\* When the loop of compute_second_neighbors_distance() is over, the ranks' copies agree and
\* together they are the distance one process would have found, however the cells were divided
\* and whatever an earlier solve() left in the maps.
DistanceShortest ==
  All("finish") =>
    \E d \in {[n \in Nodes |-> dist[CHOOSE r \in Sharing(n) : TRUE][n]]} :
      /\ \A r \in Ranks : \A n \in Active(r) : dist[r][n] = d[n]
      /\ Shortest(d)

\* The signed distance solve() hands out has the side of the volume-conserving interface on every
\* rank, and the side of the level set at every node no cut cell touches; it vanishes there on the
\* interface and nowhere else. The factor of the volume correction is given.
SideKept ==
  All("solved") =>
    \A r \in Ranks : \A n \in Active(r) :
      /\ signed[r][n] = Sgn(SignedStart(n)) * dist[r][n]
      /\ CutAt(n) = {} => Sgn(signed[r][n]) = Sgn(ls[n])

\* Every solve() ends on all ranks: the layers stop improving values at the latest where
\* max_distance is reached or the mesh ends, and no rank leaves the marching loop while another is
\* still in it and waits in the next exchange for values that will never come.
SolveEnds == All("reconstruct") ~> All("solved")

=============================================================================

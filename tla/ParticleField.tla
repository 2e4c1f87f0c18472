---------------------------- MODULE ParticleField ----------------------------
(***************************************************************************)
(* ObstacleField and its CellListParticleHandler: spherical particles on a *)
(* distributed mesh.  Every rank owns the particles in its active cells    *)
(* and keeps ghosts of the particles around them.  A time step adds up the *)
(* loads, sends what was found on ghosts back to the owners (compress()),  *)
(* moves the particles, and then either refreshes the ghosts in place or   *)
(* sorts all particles anew, as the NeighborListUpdateTracker decides.     *)
(*                                                                         *)
(* The domain is a line.  The caches work with coarser cells (cache cells) *)
(* of several active cells each, so that a particle only meets particles   *)
(* of its own and the adjacent cache cells, as long as none has moved far. *)
(* A load is the bag of its contributions.  Messages between two ranks     *)
(* with one tag arrive in the order they were sent.                        *)
(***************************************************************************)
EXTENDS Integers, Sequences, FiniteSets, Bags, FiniteSetsExt, SequencesExt

CONSTANTS
  Ranks,        \* the MPI processes, numbered
  Particles,    \* the identifiers of the particles
  NCells,       \* number of active cells
  CellSize,     \* length of an active cell
  Children,     \* active cells in a cache cell
  Diameter,     \* of every particle
  Partitions,   \* divisions of the active cells among the ranks
  Starts,       \* initial locations: functions Particles -> Positions
  Moves,        \* what the particles may move in a time step: functions Particles -> Int
  MaxSteps,     \* bound: time steps
  MaxMeshes     \* bound: refinements

ActiveCells == 0 .. NCells - 1
CacheCells == 0 .. (NCells \div Children) - 1
Positions == 0 .. NCells * CellSize - 1

Abs(x) == IF x < 0 THEN -x ELSE x

\* The cell of the cache level that holds an active cell.
find_particle_cache_cell(c) == c \div Children

\* A cache cell and the cells that share a vertex with it.
Around(k) == {j \in CacheCells : Abs(j - k) <= 1}

\* Mutated: the room a particle itself takes is forgotten.
SkinThickness_cell == Children * CellSize

\* How far two particles of cache cells that are not adjacent may come closer without touching.
SkinThickness == Children * CellSize - Diameter

\* The size of the finest cells: a particle that has moved farther may be lost by deal.II.
MaxDisplacement == CellSize

\* minimal_cell_vertex_distance(): a cache cell holds a particle with a fifth to spare.
ASSUME ParticleAssumption ==
  /\ IsFiniteSet(Ranks) /\ Ranks = 0 .. Cardinality(Ranks) - 1 /\ IsFiniteSet(Particles)
  /\ {NCells, CellSize, Children, Diameter} \subseteq Nat \ {0} /\ NCells % Children = 0
  /\ 12 * Diameter <= 10 * Children * CellSize
  /\ Partitions \subseteq [ActiveCells -> Ranks]
  /\ Starts \subseteq [Particles -> Positions] /\ Moves \subseteq [Particles -> Int]
  /\ MaxSteps \in Nat /\ MaxMeshes \in Nat

VARIABLES
  subdomain,  \* active cell -> rank that owns it
  pattern,    \* rank -> rank -> cache cells to send: the LevelCommunicationPattern
  loc,        \* particle -> location, with its owner
  home,       \* particle -> active cell it was sorted into
  previous,   \* particle -> location at the last sorting: previous_obstacle_locations
  load,       \* particle -> contributions to its force and torque, with its owner
  ghosts,     \* rank -> ghost_particles_property_pool
  cached,     \* rank -> accessors in cell_batch_to_particle_cache
  toSend,     \* rank -> rank -> particles_to_send
  count,      \* rank -> rank -> n_particles_to_receive
  start,      \* rank -> rank -> rank_ghost_particle_start_handle
  mail,       \* <<from, to, tag>> -> messages under way
  pc,         \* rank -> where it stands
  tied,       \* two ranks had the same largest displacement since the last sorting
  step,       \* number of time steps made
  meshes      \* number of refinements

vars == <<subdomain, pattern, loc, home, previous, load, ghosts, cached, toSend, count, start, mail, pc,
          tied, step, meshes>>

-----------------------------------------------------------------------------

OwnCells(r) == {c \in ActiveCells : subdomain[c] = r}
Own(r) == {p \in Particles : subdomain[home[p]] = r}

\* owned_active_cells_ancestors()
Ancestors(part, r) == {find_particle_cache_cell(c) : c \in {x \in ActiveCells : part[x] = r}}

\* build_communication_pattern(): a rank sends what it owns in or next to a cache cell of another.
Pattern(part) ==
  [r \in Ranks |-> [q \in Ranks |->
     IF q = r THEN {}
     ELSE {k \in Ancestors(part, r) : Around(k) \cap Ancestors(part, q) # {}}]]

Channels == Ranks \X Ranks \X {0, 1}

\* One message is taken from each channel of a set, and messages are sent.
Arrived(taken) == \A c \in taken : mail[c] # <<>>
Mail(taken, sent) ==
  [c \in Channels |-> (IF c \in taken THEN Tail(mail[c]) ELSE mail[c])
                        \o (IF c \in DOMAIN sent THEN <<sent[c]>> ELSE <<>>)]
Nothing == <<>>

To(r, q, tag) == <<r, q, tag>>
ToAll(r, qs, tag) == {To(r, q, tag) : q \in qs}
FromAll(r, qs, tag) == {To(q, r, tag) : q \in qs}

Neighbours(r) == {q \in Ranks : pattern[r][q] # {}}        \* cells_to_send()
Senders(r) == {q \in Ranks : pattern[q][r] # {}}           \* receive_ranks()
Targets(r) == {q \in Ranks : toSend[r][q] # <<>>}          \* of particles_to_send
Sources(r) == {q \in Ranks : count[r][q] > 0}              \* of n_particles_to_receive

All(place) == \A r \in Ranks : pc[r] = place
GoAll(from, to) == All(from) /\ pc' = [r \in Ranks |-> to]
Go(r, from, to) == pc[r] = from /\ pc' = [pc EXCEPT ![r] = to]

ToEach(x) == [r \in Ranks |-> [q \in Ranks |-> x]]

\* insert_global_particles(), and initialize() up to the sorting.
Init ==
  /\ subdomain \in Partitions
  /\ pattern = Pattern(subdomain)
  /\ loc \in Starts
  /\ home = [p \in Particles |-> loc[p] \div CellSize]
  /\ previous = loc
  /\ load = [p \in Particles |-> EmptyBag]
  /\ ghosts = [r \in Ranks |-> <<>>]
  /\ cached = [r \in Ranks |-> {}]
  /\ toSend = ToEach(<<>>) /\ count = ToEach(0) /\ start = ToEach(0)
  /\ mail = [c \in Channels |-> <<>>]
  /\ pc = [r \in Ranks |-> "sort"]
  /\ tied = FALSE
  /\ step = 0 /\ meshes = 0

-----------------------------------------------------------------------------
(* Particle queries *)

\* The accessors a rank hands out: its own particles and its ghosts.
Visible(r) ==
  {[id |-> p, handle |-> 0, cell |-> find_particle_cache_cell(home[p]), loc |-> loc[p]] : p \in Own(r)}
  \cup
  {[id |-> ghosts[r][i].id, handle |-> i, cell |-> ghosts[r][i].cell, loc |-> ghosts[r][i].loc] :
     i \in DOMAIN ghosts[r]}

find_relevant_particles(r, k) == {v \in Visible(r) : v.cell \in Around(k)}

Touch(x, y) == Abs(x - y) < Diameter

\* find_particles_in_neighborhood() without a tolerance.
Contacts(r, p) ==
  {v \in find_relevant_particles(r, find_particle_cache_cell(home[p])) :
     Touch(loc[p], v.loc) /\ v.id # p}

\* The active cells with a point inside the particle, where the mask of the penalty is not zero.
Overlapped(x) ==
  {c \in ActiveCells : 2 * Max({c * CellSize - x, x - (c + 1) * CellSize, 0}) < Diameter}

\* The particles next to a cell of a batch; one batch takes all cells of a rank.
ListedFor(r, v) == {c \in OwnCells(r) : v \in find_relevant_particles(r, find_particle_cache_cell(c))}

\* Mutated: the list of a batch holds a particle once for every cell that finds it.
Listings_each(r, v) == Cardinality(ListedFor(r, v))

\* get_obstacles_in_cell() adds to the list of a batch what is not in it.
Listings(r, v) == IF ListedFor(r, v) = {} THEN 0 ELSE 1

-----------------------------------------------------------------------------
(* compute_loads_on_obstacles() *)

\* BrinkmanObstacleForce: every own cell adds the fluid's push on what it overlaps, ghost or not.
FluidLoad(r, v) ==
  IF Listings(r, v) = 0 THEN EmptyBag
  ELSE [s \in {<<"cell", c>> : c \in Overlapped(v.loc) \cap OwnCells(r)} |-> Listings(r, v)]

\* SphericalParticleContactForce: one contribution for every contact of an own particle.
ContactLoad(r, p) ==
  [s \in {<<"particle", v.id>> : v \in Contacts(r, p)} |->
     Cardinality({v \in Contacts(r, p) : v.id = s[2]})]

\* Mutated: the loops over the ghosts leave the forces they have.
GhostReset_none(old) == old

\* Forces and torques of the ghosts are reset like those of the own particles.
GhostReset(old) == EmptyBag

View(r, p) == CHOOSE v \in Visible(r) : v.id = p /\ v.handle = 0
GhostView(r, i) == CHOOSE v \in Visible(r) : v.handle = i

\* The ghosts' handles by owner: rank_to_ghost_handle.
Handles(r, q) == {i \in DOMAIN ghosts[r] : start[r][q] < i /\ i <= start[r][q] + count[r][q]}

\* Reset, add_load_to_obstacles() of every load, and compress() up to its sends.
ComputeLoads(r) ==
  LET found == [i \in DOMAIN ghosts[r] |->
                  GhostReset(ghosts[r][i].load) (+) FluidLoad(r, GhostView(r, i))]
      back(q) == {<<ghosts[r][i].id, found[i]>> : i \in Handles(r, q)}
  IN
  /\ step < MaxSteps
  /\ Go(r, "step", "compress")
  /\ load' = [p \in Particles |->
       IF p \in Own(r) THEN ContactLoad(r, p) (+) FluidLoad(r, View(r, p)) ELSE load[p]]
  /\ ghosts' = [ghosts EXCEPT ![r] = [i \in DOMAIN found |-> [ghosts[r][i] EXCEPT !.load = found[i]]]]
  /\ mail' = Mail({}, [c \in ToAll(r, Sources(r), 0) |-> back(c[2])])
  /\ UNCHANGED <<subdomain, pattern, loc, home, previous, cached, toSend, count, start, tied, step,
                 meshes>>

\* compress() from its receives: owners add what the ranks found on their ghosts.
Compress(r) ==
  LET from == FromAll(r, Targets(r), 0)
      all(p) == {x \in {<<c, m>> : c \in from, m \in UNION {Head(mail[c]) : c \in from}} :
                   x[2] \in Head(mail[x[1]]) /\ x[2][1] = p}
  IN
  /\ Arrived(from)
  /\ Go(r, "compress", "move")
  /\ load' = [p \in Particles |-> FoldSet(LAMBDA x, b : b (+) x[2][2], load[p], all(p))]
  /\ mail' = Mail(from, Nothing)
  /\ UNCHANGED <<subdomain, pattern, loc, home, previous, ghosts, cached, toSend, count, start,
                 tied, step, meshes>>

-----------------------------------------------------------------------------
(* Time integration and the decision to sort *)

Displacement(x, p) == Abs(x[p] - previous[p])
Largest(x, S) == Max({0} \cup {Displacement(x, p) : p \in S})
Second(x, S) == Largest(x, S \ {CHOOSE p \in S : Displacement(x, p) = Largest(x, S)})

\* The second largest displacement as a rank sees it: its own second one if it has the largest,
\* its largest otherwise.
Partner(x, r) ==
  IF Own(r) # {} /\ Largest(x, Own(r)) = Largest(x, Particles) THEN Second(x, Own(r))
  ELSE Largest(x, Own(r))

\* update_required(): the ranks agree by logical_or and max.
UpdateRequired(x) ==
  \/ Largest(x, Particles) > MaxDisplacement
  \/ \E r \in Ranks : Largest(x, Particles) + Partner(x, r) > SkinThickness

\* Several ranks hold the largest displacement; each of them adds its own second one only.
Tie(x) ==
  Cardinality({r \in Ranks : \E p \in Own(r) : Displacement(x, p) = Largest(x, Particles)}) > 1

\* symplectic_euler_advance_time_step() on all ranks and auto_update_particle_cache()'s collective
\* decision.  The move that follows from the loads is any of Moves.
AdvanceTime ==
  \E x \in {[p \in Particles |-> loc[p] + d[p]] : d \in Moves} :
    /\ x \in [Particles -> Positions]
    /\ GoAll("move", IF UpdateRequired(x) THEN "sort" ELSE "update")
    /\ loc' = x
    /\ tied' = (tied \/ Tie(x))
    /\ step' = step + 1
    /\ UNCHANGED <<subdomain, pattern, home, previous, load, ghosts, cached, toSend, count, start,
                   mail, meshes>>

-----------------------------------------------------------------------------
(* update_ghost_particle_properties() *)

SendGhostValues(r) ==
  /\ Go(r, "update", "refresh")
  /\ mail' = Mail({}, [c \in ToAll(r, Targets(r), 1) |->
       [i \in DOMAIN toSend[r][c[2]] |->
          [loc |-> loc[toSend[r][c[2]][i]], load |-> load[toSend[r][c[2]][i]]]]])
  /\ UNCHANGED <<subdomain, pattern, loc, home, previous, load, ghosts, cached, toSend, count, start,
                 tied, step, meshes>>

\* Mutated: the handles of every rank are counted from the first slot of the pool.
Handle_first(r, q, i) == i

\* The slot of the i-th particle a rank sends.
Handle(r, q, i) == start[r][q] + i

\* The values carry no identifier: they go where the i-th particle of that rank was put.
TakeGhostValues(r) ==
  LET from == FromAll(r, Sources(r), 1)
      slots == Sources(r) \X DOMAIN ghosts[r]
      for(h) == {s \in slots : s[2] <= count[r][s[1]] /\ Handle(r, s[1], s[2]) = h}
      new(s) == Head(mail[To(s[1], r, 1)])[s[2]]
  IN
  /\ Arrived(from)
  /\ Go(r, "refresh", "step")
  /\ ghosts' = [ghosts EXCEPT ![r] = [h \in DOMAIN ghosts[r] |->
       IF for(h) = {} THEN ghosts[r][h]
       ELSE LET s == CHOOSE s \in for(h) : \A t \in for(h) : t[1] <= s[1]
            IN [ghosts[r][h] EXCEPT !.loc = new(s).loc, !.load = new(s).load]]]
  /\ mail' = Mail(from, Nothing)
  /\ UNCHANGED <<subdomain, pattern, loc, home, previous, load, cached, toSend, count, start, tied, step,
                 meshes>>

-----------------------------------------------------------------------------
(* sort_particles_into_subdomains_and_cells() *)

\* deal.II finds the active cell of every particle and moves it to the cell's owner.
SortIntoCells ==
  /\ GoAll("sort", "counts")
  /\ home' = [p \in Particles |-> loc[p] \div CellSize]
  /\ tied' = FALSE
  /\ UNCHANGED <<subdomain, pattern, loc, previous, load, ghosts, cached, toSend, count, start, mail,
                 step, meshes>>

\* The own particles in the cells another rank needs, in some order (the code goes cell by cell).
Packed(r, q) == SetToSeq({p \in Own(r) : find_particle_cache_cell(home[p]) \in pattern[r][q]})

\* Step 1: the number of particles for each rank.
SendCounts(r) ==
  /\ Go(r, "counts", "particles")
  /\ mail' = Mail({}, [c \in ToAll(r, Neighbours(r), 0) |-> Len(Packed(r, c[2]))])
  /\ UNCHANGED <<subdomain, pattern, loc, home, previous, load, ghosts, cached, toSend, count, start,
                 tied, step, meshes>>

\* Step 2: the numbers are received, the update cache is reset and the particles are sent.
SendParticles(r) ==
  LET from == FromAll(r, Senders(r), 0) IN
  /\ Arrived(from)
  /\ Go(r, "particles", "ghosts")
  /\ count' = [count EXCEPT ![r] =
       [q \in Ranks |-> IF q \in Senders(r) THEN Head(mail[To(q, r, 0)]) ELSE 0]]
  /\ start' = [start EXCEPT ![r] = [q \in Ranks |-> 0]]
  /\ toSend' = [toSend EXCEPT ![r] = [q \in Ranks |-> Packed(r, q)]]
  /\ mail' = Mail(from, [c \in ToAll(r, Neighbours(r), 1) |->
       [i \in DOMAIN Packed(r, c[2]) |->
          LET p == Packed(r, c[2])[i]
          IN [id |-> p, cell |-> find_particle_cache_cell(home[p]), loc |-> loc[p], load |-> load[p]]]])
  /\ UNCHANGED <<subdomain, pattern, loc, home, previous, load, ghosts, cached, tied, step, meshes>>

\* The pool, as it is filled with what one rank after the other has sent.
Pools(sent) ==
  LET pool[q \in 0 .. Cardinality(Ranks)] == IF q = 0 THEN <<>> ELSE pool[q - 1] \o sent[q - 1]
  IN pool

\* What get_obstacles_in_cell() lists for the batch, as accessors: they keep the handle.
Relevant(r) == {[id |-> v.id, handle |-> v.handle] : v \in {x \in Visible(r) : ListedFor(r, x) # {}}}

\* Mutated: only the initialisation of the observer fills the cache.
Refilled_once(old, new) == IF old = {} THEN new ELSE old

\* MatrixFreeCellBatchParticleCache::update(), an observer of the sorting.
Refilled(old, new) == new

\* The pool is filled anew in the order of the ranks, the tracker notes the present locations and
\* the observers are notified.
TakeGhosts(r) ==
  LET from == FromAll(r, Senders(r), 1)
      sent == [q \in Ranks |-> IF q \in Senders(r) THEN Head(mail[To(q, r, 1)]) ELSE <<>>]
  IN
  /\ Arrived(from)
  /\ Go(r, "ghosts", "step")
  /\ ghosts' = [ghosts EXCEPT ![r] = Pools(sent)[Cardinality(Ranks)]]
  /\ start' = [start EXCEPT ![r] =
       [q \in Ranks |-> IF count[r][q] > 0 THEN Len(Pools(sent)[q]) ELSE 0]]
  /\ previous' = [p \in Particles |-> IF p \in Own(r) THEN loc[p] ELSE previous[p]]
  /\ mail' = Mail(from, Nothing)
  /\ UNCHANGED <<subdomain, pattern, loc, home, load, toSend, count, tied, step, meshes>>
  /\ cached' = [cached EXCEPT ![r] = Refilled(@, Relevant(r)')]

\* Mutated: the particles are unpacked, but the caches of the mesh are not built again.
PatternAfter_old(part) == pattern

\* initialize() builds the communication pattern of the new mesh.
PatternAfter(part) == Pattern(part)

\* The mesh is divided anew between two time steps; particles follow their cells, and
\* unpack_after_coarsening_and_refinement() sorts them and initialises the caches.
CoarsenAndRefine ==
  /\ meshes < MaxMeshes
  /\ GoAll("step", "sort")
  /\ \E part \in Partitions \ {subdomain} :
       /\ subdomain' = part
       /\ pattern' = PatternAfter(part)
  /\ meshes' = meshes + 1
  /\ UNCHANGED <<loc, home, previous, load, ghosts, cached, toSend, count, start, mail, tied, step>>

Finished == All("step") /\ step = MaxSteps /\ UNCHANGED vars

Next ==
  \/ \E r \in Ranks :
       \/ ComputeLoads(r) \/ Compress(r)
       \/ SendGhostValues(r) \/ TakeGhostValues(r)
       \/ SendCounts(r) \/ SendParticles(r) \/ TakeGhosts(r)
  \/ AdvanceTime \/ SortIntoCells \/ CoarsenAndRefine
  \/ Finished

Spec == Init /\ [][Next]_vars

-----------------------------------------------------------------------------

TypeOK ==
  /\ subdomain \in Partitions
  /\ pattern \in [Ranks -> [Ranks -> SUBSET CacheCells]]
  /\ loc \in [Particles -> Positions] /\ previous \in [Particles -> Positions]
  /\ home \in [Particles -> ActiveCells]
  /\ \A p \in Particles : IsABag(load[p])
  /\ \A r \in Ranks : \A i \in DOMAIN ghosts[r] : ghosts[r][i].id \in Particles
  /\ cached \in [Ranks -> SUBSET [id : Particles, handle : Nat]]
  /\ toSend \in [Ranks -> [Ranks -> Seq(Particles)]]
  /\ count \in [Ranks -> [Ranks -> Nat]] /\ start \in [Ranks -> [Ranks -> Nat]]
  /\ pc \in [Ranks -> {"step", "compress", "move", "update", "refresh", "sort", "counts", "particles",
                       "ghosts"}]
  /\ tied \in BOOLEAN /\ step \in 0 .. MaxSteps /\ meshes \in 0 .. MaxMeshes

Cache(p) == find_particle_cache_cell(home[p])

\* When a rank begins a time step, its ghosts are exactly the particles of other ranks in or next to
\* a cache cell it has a part of, each of them once, with the location and in the cell its owner has
\* it, although the messages of an update name no particle and the ranks may be in different phases.
GhostsCurrent ==
  \A r \in Ranks :
    pc[r] = "step" =>
      /\ {ghosts[r][i].id : i \in DOMAIN ghosts[r]} =
           {p \in Particles \ Own(r) : Around(Cache(p)) \cap Ancestors(subdomain, r) # {}}
      /\ \A i, j \in DOMAIN ghosts[r] : ghosts[r][i].id = ghosts[r][j].id => i = j
      /\ \A i \in DOMAIN ghosts[r] :
           LET g == ghosts[r][i] IN g.loc = loc[g.id] /\ g.cell = Cache(g.id)

Touching(p) == {q \in Particles \ {p} : Touch(loc[p], loc[q])}

\* The search in the own and the adjacent cache cells finds every particle an own particle touches,
\* and no other, although particles have moved on since they were sorted into cells.  Where two
\* ranks tie for the largest displacement, update_required() may be late: see ContactsFoundInTies.
\* For every particle that overlaps own cells, moved in from other ranks or not, the cell cache of the
\* flow keeps one accessor, and that one leads to the particle where it is now.
NeighboursFound ==
  \A r \in Ranks :
    pc[r] = "step" =>
      /\ ~tied => \A p \in Own(r) : {v.id : v \in Contacts(r, p)} = Touching(p)
      /\ \A p \in Particles :
           Overlapped(loc[p]) \cap OwnCells(r) # {} =>
             /\ Cardinality({a \in cached[r] : a.id = p}) = 1
             /\ \E a \in cached[r], v \in Visible(r) :
                  a.id = p /\ v.id = p /\ v.handle = a.handle /\ v.loc = loc[p]

\* The same without the exception.  It is what the comment of auto_update_particle_cache() promises;
\* TLC refutes it.
ContactsFoundInTies ==
  \A r \in Ranks : pc[r] = "step" => \A p \in Own(r) : Touching(p) \subseteq {v.id : v \in Contacts(r, p)}

\* After compress() the load of a particle holds every contact and the push of every cell it
\* overlaps exactly once, wherever the cells are and however the ranks interleave; nothing of the
\* step before is left in it.
LoadsOnce ==
  All("move") =>
    \A p \in Particles :
      LET found == BagToSet(load[p])
          cells == {<<"cell", c>> : c \in Overlapped(loc[p])}
          others == {<<"particle", q>> : q \in Touching(p)}
      IN /\ \A s \in found : load[p][s] = 1
         /\ cells \subseteq found /\ found \subseteq cells \cup others
         /\ ~tied => others \subseteq found

=============================================================================

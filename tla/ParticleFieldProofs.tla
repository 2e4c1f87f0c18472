------------------------- MODULE ParticleFieldProofs -------------------------
(***************************************************************************)
(* Proofs about ParticleField for every number of ranks and of particles,  *)
(* every division of the mesh, all moves and every order of the messages.  *)
(*                                                                         *)
(* IInv: phases, mail and pools fit together, so that ghosts are current.  *)
(* NInv: the search and the cell cache find all they should, because no    *)
(* particle has moved too far since the last sorting.                      *)
(* LInv: every part of a load has been added once or is under way.         *)
(***************************************************************************)
EXTENDS ParticleField, FiniteSetTheorems, WellFoundedInduction, TLAPS

-----------------------------------------------------------------------------
(* Numbers and sequences                                                   *)

(* Every set of natural numbers has a least one.                           *)
LEMMA LeastNat ==
  ASSUME NEW S \in SUBSET Nat, S # {}
  PROVE \E n \in S : \A m \in S : n <= m
<1>1. PICK x \in S : \A y \in S : ~(<<y, x>> \in OpToRel(<, Nat))
  BY NatLessThanWellFounded, WFMin
<1>2. \A y \in S : ~(y < x)
  BY <1>1 DEF OpToRel
<1>3. \A y \in S : x \in Nat /\ y \in Nat /\ ~(y < x)
  BY <1>2
<1>4. QED
  BY <1>3

(* The sequence a set is turned into holds each of its elements once.      *)
LEMMA SetToSeqFacts ==
  ASSUME NEW S, IsFiniteSet(S)
  PROVE /\ SetToSeq(S) \in Seq(S) /\ Len(SetToSeq(S)) = Cardinality(S) /\ Cardinality(S) \in Nat
        /\ \A i, j \in 1 .. Len(SetToSeq(S)) : SetToSeq(S)[i] = SetToSeq(S)[j] => i = j
        /\ \A x \in S : \E i \in 1 .. Len(SetToSeq(S)) : SetToSeq(S)[i] = x
<1> DEFINE n == Cardinality(S)
           f == SetToSeq(S)
<1>1. n \in Nat /\ ExistsBijection(1 .. n, S)
  BY FS_CardinalityType
<1>2. \E g \in [1 .. n -> S] : IsInjective(g)
  BY <1>1 DEF ExistsBijection, Bijection, Injection
<1>3. f \in [1 .. n -> S] /\ IsInjective(f)
  BY <1>2 DEF SetToSeq
<1>4. IsFiniteSet(1 .. n) /\ Cardinality(1 .. n) = n
  BY <1>1, FS_Interval
<1>5. f \in Injection(1 .. n, S)
  BY <1>3 DEF Injection
<1>6. f \in Surjection(1 .. n, S)
  BY <1>4, <1>5, FS_Injection
<1>7. f \in Seq(S) /\ Len(f) = n
  BY <1>1, <1>3
<1> HIDE DEF f, n
<1>8. DOMAIN f = 1 .. n
  BY <1>3
<1>9. \A i, j \in 1 .. Len(f) : f[i] = f[j] => i = j
  BY <1>3, <1>7, <1>8 DEF IsInjective
<1>10. \A x \in S : \E i \in 1 .. Len(f) : f[i] = x
  BY <1>6, <1>7 DEF Surjection
<1>11. QED
  BY <1>1, <1>7, <1>9, <1>10 DEF f, n

(* The pools as they are filled, one rank after the other.                 *)
Filling(sent, N, pool) == pool = [q \in 0 .. N |-> IF q = 0 THEN <<>> ELSE pool[q - 1] \o sent[q - 1]]

(* The recursive function that fills the pool exists.                      *)
LEMMA PoolsExist ==
  ASSUME NEW sent, NEW N \in Nat
  PROVE \E pool : Filling(sent, N, pool)
<1> DEFINE Bad == {k \in Nat : ~ \E pool : Filling(sent, k, pool)}
<1>1. ASSUME Bad # {} PROVE FALSE
  <2>1. PICK k \in Bad : \A j \in Bad : k <= j
    BY <1>1, LeastNat
  <2>2. Filling(sent, 0, [q \in 0 .. 0 |-> <<>>])
    BY DEF Filling
  <2>3. k # 0 /\ k \in Nat
    BY <2>1, <2>2
  <2>4. k - 1 \in Nat /\ ~(k <= k - 1)
    BY <2>3
  <2>5. PICK g : Filling(sent, k - 1, g)
    BY <2>1, <2>4
  <2> DEFINE next(q) == IF q = 0 THEN <<>> ELSE g[q - 1] \o sent[q - 1]
             h == [q \in 0 .. k |-> next(q)]
  <2>6. ASSUME NEW q \in 0 .. k - 1 PROVE h[q] = g[q]
    <3>1. g[q] = next(q)
      BY <2>5 DEF Filling
    <3>2. q \in 0 .. k
      BY <2>3
    <3>3. QED
      BY <3>1, <3>2
  <2>7. ASSUME NEW q \in 0 .. k PROVE h[q] = IF q = 0 THEN <<>> ELSE h[q - 1] \o sent[q - 1]
    <3>1. h[q] = next(q)
      OBVIOUS
    <3>2. q # 0 => q - 1 \in 0 .. k - 1
      BY <2>3
    <3> HIDE DEF h
    <3>3. QED
      BY <2>6, <3>1, <3>2
  <2>8. h = [q \in 0 .. k |-> h[q]]
    OBVIOUS
  <2> HIDE DEF h
  <2>9. Filling(sent, k, h)
    BY <2>7, <2>8 DEF Filling
  <2>10. QED
    BY <2>1, <2>9
<1>2. QED
  BY <1>1

(* What one rank after the other has sent is appended to the pool.         *)
LEMMA PoolsFill ==
  ASSUME NEW sent, Cardinality(Ranks) \in Nat
  PROVE Filling(sent, Cardinality(Ranks), Pools(sent))
<1>1. Pools(sent) = CHOOSE pool : Filling(sent, Cardinality(Ranks), pool)
  BY DEF Pools, Filling
<1>2. QED
  BY <1>1, PoolsExist

(* Ranks and particles are finitely many.                                  *)
LEMMA RanksFacts ==
  /\ IsFiniteSet(Ranks) /\ Cardinality(Ranks) \in Nat /\ IsFiniteSet(Particles)
  /\ Ranks = 0 .. Cardinality(Ranks) - 1
BY ParticleAssumption, FS_CardinalityType

(* Every sequence is in the last pool from its own start on, and nothing   *)
(* else is.                                                                *)
LEMMA PoolsFacts ==
  ASSUME NEW S, NEW sent, \A q \in Ranks : sent[q] \in Seq(S)
  PROVE LET N == Cardinality(Ranks)
            pool == Pools(sent)
        IN /\ pool[N] \in Seq(S)
           /\ \A q \in Ranks : Len(pool[q]) \in Nat
           /\ \A q \in Ranks : \A i \in 1 .. Len(sent[q]) :
                /\ Len(pool[q]) + i \in 1 .. Len(pool[N])
                /\ pool[N][Len(pool[q]) + i] = sent[q][i]
           /\ \A h \in 1 .. Len(pool[N]) :
                \E q \in Ranks : \E i \in 1 .. Len(sent[q]) : h = Len(pool[q]) + i
<1> DEFINE N == Cardinality(Ranks)
           pool == Pools(sent)
<1>1. N \in Nat /\ Ranks = 0 .. N - 1
  BY RanksFacts
<1>2. pool = [q \in 0 .. N |-> IF q = 0 THEN <<>> ELSE pool[q - 1] \o sent[q - 1]]
  BY <1>1, PoolsFill DEF Filling
<1> HIDE DEF pool, N
<1>3. pool[0] = <<>> /\ \A q \in Ranks : q + 1 \in 0 .. N /\ q \in 0 .. N /\ pool[q + 1] = pool[q] \o sent[q]
  <2>1. pool[0] = <<>>
    BY <1>1, <1>2
  <2>2. ASSUME NEW q \in Ranks PROVE q + 1 \in 0 .. N /\ q \in 0 .. N /\ pool[q + 1] = pool[q] \o sent[q]
    <3>1. q + 1 \in 0 .. N /\ q + 1 # 0 /\ (q + 1) - 1 = q /\ q \in 0 .. N
      BY <1>1
    <3>2. QED
      BY <1>2, <3>1
  <2>3. QED
    BY <2>1, <2>2
<1> DEFINE Good(k) ==
      /\ pool[k] \in Seq(S)
      /\ \A q \in Ranks : q < k => \A i \in 1 .. Len(sent[q]) :
           /\ Len(pool[q]) + i \in 1 .. Len(pool[k])
           /\ pool[k][Len(pool[q]) + i] = sent[q][i]
      /\ \A h \in 1 .. Len(pool[k]) :
           \E q \in Ranks : q < k /\ \E i \in 1 .. Len(sent[q]) : h = Len(pool[q]) + i
<1>4. Good(0)
  <2>1. pool[0] \in Seq(S) /\ Len(pool[0]) = 0 /\ \A q \in Ranks : ~(q < 0)
    BY <1>1, <1>3
  <2>2. QED
    BY <2>1
<1> HIDE DEF Good
<1>5. ASSUME NEW k \in Ranks, Good(k) PROVE Good(k + 1)
  <2> DEFINE old == pool[k]
             new == pool[k + 1]
             s == sent[k]
  <2>1. k \in Nat /\ \A q \in Ranks : q \in Nat
    BY <1>1
  <2>2. old \in Seq(S) /\ s \in Seq(S) /\ new = old \o s
    BY <1>3, <1>5 DEF Good
  <2> HIDE DEF old, new, s
  <2>3. /\ new \in Seq(S) /\ Len(new) = Len(old) + Len(s) /\ Len(old) \in Nat /\ Len(s) \in Nat
        /\ \A i \in 1 .. Len(old) + Len(s) : new[i] = IF i <= Len(old) THEN old[i] ELSE s[i - Len(old)]
    BY <2>2
  <2>4. ASSUME NEW q \in Ranks, q < k + 1, NEW i \in 1 .. Len(sent[q])
        PROVE Len(pool[q]) + i \in 1 .. Len(new) /\ new[Len(pool[q]) + i] = sent[q][i]
    <3>1. CASE q = k
      <4>1. pool[q] = old /\ sent[q] = s
        BY <3>1 DEF old, s
      <4>2. i \in 1 .. Len(s) /\ Len(old) + i \in 1 .. Len(old) + Len(s) /\ ~(Len(old) + i <= Len(old))
        BY <2>3, <4>1
      <4>3. (Len(old) + i) - Len(old) = i
        BY <2>3
      <4>4. new[Len(old) + i] = s[i]
        BY <2>3, <4>2, <4>3
      <4>5. QED
        BY <2>3, <4>1, <4>2, <4>4
    <3>2. CASE q # k
      <4>1. q < k
        BY <2>1, <3>2, <2>4
      <4>2. Len(pool[q]) + i \in 1 .. Len(old) /\ old[Len(pool[q]) + i] = sent[q][i]
        BY <1>5, <4>1 DEF Good, old
      <4>3. Len(pool[q]) + i \in 1 .. Len(old) + Len(s)
        BY <2>3, <4>2
      <4>4. QED
        BY <2>3, <4>2, <4>3
    <3>3. QED
      BY <3>1, <3>2
  <2>5. ASSUME NEW h \in 1 .. Len(new)
        PROVE \E q \in Ranks : q < k + 1 /\ \E i \in 1 .. Len(sent[q]) : h = Len(pool[q]) + i
    <3>1. CASE h \in 1 .. Len(old)
      <4>1. PICK q \in Ranks : q < k /\ \E i \in 1 .. Len(sent[q]) : h = Len(pool[q]) + i
        BY <1>5, <3>1 DEF Good, old
      <4>2. q < k + 1
        BY <2>1, <4>1
      <4>3. QED
        BY <4>1, <4>2
    <3>2. CASE h \notin 1 .. Len(old)
      <4>1. h - Len(old) \in 1 .. Len(s) /\ h = Len(old) + (h - Len(old)) /\ k < k + 1
        BY <2>1, <2>3, <3>2
      <4>2. QED
        BY <4>1 DEF old, s
    <3>3. QED
      BY <3>1, <3>2
  <2>6. QED
    BY <2>3, <2>4, <2>5 DEF Good, new
<1> DEFINE Bad == {k \in 0 .. N : ~Good(k)}
<1>6. ASSUME Bad # {} PROVE FALSE
  <2>1. Bad \in SUBSET Nat
    BY <1>1
  <2>2. PICK k \in Bad : \A j \in Bad : k <= j
    BY <1>6, <2>1, LeastNat
  <2>3. k # 0 /\ k \in 0 .. N
    BY <1>4, <2>2
  <2>4. k - 1 \in Ranks /\ k - 1 \in 0 .. N /\ ~(k <= k - 1) /\ (k - 1) + 1 = k
    BY <1>1, <2>3
  <2>5. Good(k - 1)
    BY <2>2, <2>4
  <2>6. Good((k - 1) + 1)
    BY <1>5, <2>4, <2>5
  <2>7. QED
    BY <2>2, <2>4, <2>6
<1>7. \A k \in 0 .. N : Good(k)
  BY <1>6
<1>8. Good(N) /\ \A q \in Ranks : Good(q) /\ q < N
  BY <1>1, <1>3, <1>7
<1>9. \A q \in Ranks : Len(pool[q]) \in Nat
  BY <1>8 DEF Good
<1>10. QED
  BY <1>8, <1>9 DEF Good, N, pool
-----------------------------------------------------------------------------
(* The invariant                                                           *)

Sorting == {"counts", "particles", "ghosts"}
Updating == {"update", "refresh"}
Working == {"step", "compress", "move"}
Places == {"sort"} \cup Sorting \cup Updating \cup Working

Types ==
  /\ subdomain \in Partitions
  /\ pattern = Pattern(subdomain)
  /\ loc \in [Particles -> Positions] /\ previous \in [Particles -> Positions]
  /\ home \in [Particles -> ActiveCells]
  /\ ghosts = [r \in Ranks |-> ghosts[r]] /\ cached = [r \in Ranks |-> cached[r]]
  /\ toSend \in [Ranks -> [Ranks -> Seq(Particles)]]
  /\ count \in [Ranks -> [Ranks -> Nat]] /\ start \in [Ranks -> [Ranks -> Nat]]
  /\ mail = [c \in Channels |-> mail[c]]
  /\ pc \in [Ranks -> Places]

(* Sorting and moving are collective; what comes in between is not.        *)
Sync ==
  \/ All("sort")
  \/ \A r \in Ranks : pc[r] \in Sorting \cup Working
  \/ \A r \in Ranks : pc[r] \in Updating \cup Working

Sends(q, r) == pattern[q][r] # {}

(* What a rank has told another about its particles, on both sides.        *)
Kept ==
  \A r \in Ranks : pc[r] \in {"ghosts"} \cup Updating \cup Working =>
    \A q \in Ranks : toSend[r][q] = Packed(r, q) /\ count[r][q] = Len(Packed(q, r))

(* The pool: behind the start of a rank are the particles it has sent, in  *)
(* their order, and nothing else is in it.                                 *)
Shaped(g) == g = [id |-> g.id, cell |-> g.cell, loc |-> g.loc, load |-> g.load]

UnpackedAt(r) ==
  /\ \E n \in Nat : DOMAIN ghosts[r] = 1 .. n
  /\ \A h \in DOMAIN ghosts[r] : Shaped(ghosts[r][h]) /\ ghosts[r][h].cell = Cache(ghosts[r][h].id)
  /\ \A q \in Ranks : \A i \in 1 .. count[r][q] :
       /\ start[r][q] + i \in DOMAIN ghosts[r]
       /\ ghosts[r][start[r][q] + i].id = Packed(q, r)[i]
  /\ \A h \in DOMAIN ghosts[r] :
       \E q \in Ranks : \E i \in 1 .. count[r][q] : h = start[r][q] + i

Unpacked == \A r \in Ranks : pc[r] \in Updating \cup Working => UnpackedAt(r)

Fresh ==
  \A r \in Ranks : pc[r] \in Working =>
    \A h \in DOMAIN ghosts[r] : ghosts[r][h].loc = loc[ghosts[r][h].id]

(* How far a rank may be ahead of one it exchanges messages with.          *)
Abreast ==
  \A q, r \in Ranks :
    /\ Sends(q, r) /\ pc[q] = "counts" => pc[r] \in {"counts", "particles"}
    /\ Sends(q, r) /\ pc[q] = "particles" => pc[r] \in Sorting
    /\ Packed(q, r) # <<>> /\ pc[q] = "update" => pc[r] \in Updating
    /\ Packed(q, r) # <<>> /\ pc[q] = "move" => pc[r] \in {"compress", "move"}

(* The messages under way from one rank to another.                        *)
CountsDue(q, r) == Sends(q, r) /\ pc[q] \in {"particles", "ghosts"} /\ pc[r] \in {"counts", "particles"}
LoadsDue(q, r) == Packed(r, q) # <<>> /\ pc[q] \in {"compress", "move"} /\ pc[r] # "move"
ParticlesDue(q, r) == Sends(q, r) /\ pc[q] \in {"ghosts"} \cup Working /\ pc[r] \in Sorting
ValuesDue(q, r) == Packed(q, r) # <<>> /\ pc[q] \in {"refresh"} \cup Working /\ pc[r] \in Updating

AreParticles(m, q, r) ==
  m = [i \in 1 .. Len(Packed(q, r)) |->
        LET p == Packed(q, r)[i] IN [id |-> p, cell |-> Cache(p), loc |-> loc[p], load |-> m[i].load]]
AreValues(m, q, r) ==
  m = [i \in 1 .. Len(Packed(q, r)) |-> [loc |-> loc[Packed(q, r)[i]], load |-> m[i].load]]

(* A single message.                                                       *)
Arrives(c) == mail[c] = <<Head(mail[c])>>

Box0(q, r) ==
  /\ CountsDue(q, r) => mail[To(q, r, 0)] = <<Len(Packed(q, r))>>
  /\ LoadsDue(q, r) => Arrives(To(q, r, 0))
  /\ ~CountsDue(q, r) /\ ~LoadsDue(q, r) => mail[To(q, r, 0)] = <<>>

Box1(q, r) ==
  /\ ParticlesDue(q, r) => Arrives(To(q, r, 1)) /\ AreParticles(Head(mail[To(q, r, 1)]), q, r)
  /\ ValuesDue(q, r) => Arrives(To(q, r, 1)) /\ AreValues(Head(mail[To(q, r, 1)]), q, r)
  /\ ~ParticlesDue(q, r) /\ ~ValuesDue(q, r) => mail[To(q, r, 1)] = <<>>

Mailed == \A q, r \in Ranks : Box0(q, r) /\ Box1(q, r)

IInv == Types /\ Sync /\ Kept /\ Unpacked /\ Fresh /\ Abreast /\ Mailed

-----------------------------------------------------------------------------
(* Cells, patterns and what is packed                                      *)

(* The sizes of the mesh and of the particles.                             *)
LEMMA SizeFacts ==
  /\ NCells \in Nat \ {0} /\ CellSize \in Nat \ {0} /\ Children \in Nat \ {0} /\ Diameter \in Nat \ {0}
  /\ NCells % Children = 0 /\ 12 * Diameter <= 10 * Children * CellSize
BY ParticleAssumption

(* Cells and their neighbours on the cache level.                          *)
LEMMA CacheFacts ==
  /\ \A c \in ActiveCells : find_particle_cache_cell(c) \in CacheCells
  /\ \A k, j \in CacheCells : j \in Around(k) <=> k \in Around(j)
  /\ \A k \in CacheCells : k \in Around(k) /\ Around(k) \subseteq CacheCells
  /\ CacheCells \subseteq Nat
<1>1. ASSUME NEW c \in ActiveCells PROVE find_particle_cache_cell(c) \in CacheCells
  <2>1. c \in Nat /\ c < NCells /\ Children \in Nat \ {0} /\ NCells \in Nat /\ NCells % Children = 0
    BY <1>1, SizeFacts DEF ActiveCells
  <2>2. c \div Children \in Nat /\ c \div Children <= NCells \div Children - 1 /\ NCells \div Children \in Int
    BY <2>1
  <2>3. QED
    BY <2>2 DEF find_particle_cache_cell, CacheCells
<1>2. CacheCells \subseteq Nat
  BY SizeFacts DEF CacheCells
<1>3. QED
  BY <1>1, <1>2 DEF Around, Abs

(* Every particle has one owner, which has its cache cell.                 *)
LEMMA OwnFacts ==
  ASSUME Types
  PROVE /\ subdomain \in [ActiveCells -> Ranks]
        /\ \A p \in Particles : Cache(p) \in CacheCells
        /\ \A p \in Particles : p \in Own(subdomain[home[p]]) /\ subdomain[home[p]] \in Ranks
        /\ \A r \in Ranks : \A p \in Own(r) :
             p \in Particles /\ Cache(p) \in Ancestors(subdomain, r) /\ subdomain[home[p]] = r
        /\ \A r \in Ranks : Ancestors(subdomain, r) \subseteq CacheCells
<1>1. subdomain \in [ActiveCells -> Ranks] /\ home \in [Particles -> ActiveCells]
  BY ParticleAssumption DEF Types
<1>2. QED
  BY <1>1, CacheFacts DEF Cache, Own, Ancestors

(* Communication goes both ways or not at all.                             *)
LEMMA PatternFacts ==
  ASSUME Types, NEW q \in Ranks, NEW r \in Ranks
  PROVE /\ pattern[q][r] = IF q = r THEN {}
             ELSE {k \in Ancestors(subdomain, q) : Around(k) \cap Ancestors(subdomain, r) # {}}
        /\ Sends(q, r) <=> Sends(r, q)
<1>1. \A x, y \in Ranks : pattern[x][y] = IF x = y THEN {}
        ELSE {k \in Ancestors(subdomain, x) : Around(k) \cap Ancestors(subdomain, y) # {}}
  BY DEF Types, Pattern
<1>2. ASSUME NEW x \in Ranks, NEW y \in Ranks, Sends(x, y) PROVE Sends(y, x)
  <2>1. PICK k \in pattern[x][y] : TRUE
    BY <1>2 DEF Sends
  <2>2. x # y /\ pattern[x][y] = {l \in Ancestors(subdomain, x) : Around(l) \cap Ancestors(subdomain, y) # {}}
    <3>1. pattern[x][y] = IF x = y THEN {}
            ELSE {l \in Ancestors(subdomain, x) : Around(l) \cap Ancestors(subdomain, y) # {}}
      BY <1>1
    <3>2. QED
      BY <2>1, <3>1
  <2>3. k \in Ancestors(subdomain, x) /\ \E j \in Around(k) : j \in Ancestors(subdomain, y)
    BY <2>2, <2>1
  <2>4. PICK j \in Around(k) : j \in Ancestors(subdomain, y)
    BY <2>3
  <2>5. k \in CacheCells /\ j \in CacheCells
    BY <2>3, <2>4, OwnFacts
  <2>6. k \in Around(j)
    BY <2>4, <2>5, CacheFacts
  <2>7. j \in pattern[y][x]
    <3>1. Around(j) \cap Ancestors(subdomain, x) # {}
      BY <2>3, <2>6
    <3>2. QED
      BY <1>1, <2>2, <2>4, <3>1
  <2>8. QED
    BY <2>7 DEF Sends
<1>3. QED
  BY <1>1, <1>2

Packable(q, r) == {p \in Own(q) : Cache(p) \in pattern[q][r]}

(* What is packed is every particle in the cells asked for, each once.     *)
LEMMA PackedFacts ==
  ASSUME Types, NEW q \in Ranks, NEW r \in Ranks
  PROVE /\ Packed(q, r) \in Seq(Particles) /\ Len(Packed(q, r)) \in Nat
        /\ DOMAIN Packed(q, r) = 1 .. Len(Packed(q, r))
        /\ \A i \in 1 .. Len(Packed(q, r)) : Packed(q, r)[i] \in Packable(q, r)
        /\ \A i, j \in 1 .. Len(Packed(q, r)) : Packed(q, r)[i] = Packed(q, r)[j] => i = j
        /\ \A p \in Packable(q, r) : \E i \in 1 .. Len(Packed(q, r)) : Packed(q, r)[i] = p
        /\ Packed(q, r) = <<>> <=> Len(Packed(q, r)) = 0
        /\ ~Sends(q, r) => Packed(q, r) = <<>>
<1> DEFINE S == Packable(q, r)
<1>1. S \in SUBSET Particles /\ IsFiniteSet(S)
  BY RanksFacts, FS_Subset DEF Packable, Own
<1>2. Packed(q, r) = SetToSeq(S)
  BY DEF Packed, Packable, Cache
<1> DEFINE s == SetToSeq(S)
<1> HIDE DEF s, S
<1>3. /\ s \in Seq(S) /\ Len(s) \in Nat
      /\ \A i, j \in 1 .. Len(s) : s[i] = s[j] => i = j
      /\ \A x \in S : \E i \in 1 .. Len(s) : s[i] = x
  BY <1>1, SetToSeqFacts DEF s
<1>4. s \in Seq(Particles) /\ \A i \in 1 .. Len(s) : s[i] \in S
  BY <1>1, <1>3
<1>5. DOMAIN s = 1 .. Len(s) /\ (s = <<>> <=> Len(s) = 0)
  BY <1>4
<1>6. ~Sends(q, r) => Len(s) = 0
  <2>1. ~Sends(q, r) => S = {}
    BY DEF Sends, S, Packable
  <2>2. Len(s) # 0 => 1 \in 1 .. Len(s)
    BY <1>3
  <2>3. QED
    BY <1>4, <2>1, <2>2
<1>7. QED
  BY <1>2, <1>3, <1>4, <1>5, <1>6 DEF s, S

-----------------------------------------------------------------------------
(* What all steps between two collective ones have in common               *)

(* Packing depends on the mesh and on the cells of the particles only.     *)
LEMMA PackedStays ==
  ASSUME subdomain' = subdomain, home' = home, pattern' = pattern
  PROVE /\ \A r \in Ranks : Own(r)' = Own(r)
        /\ \A q, r \in Ranks : Packed(q, r)' = Packed(q, r) /\ Sends(q, r)' = Sends(q, r)
        /\ \A p : Cache(p)' = Cache(p)
BY DEF Own, Packed, Sends, Cache

(* A box after messages were taken and sent.                               *)
LEMMA MailAt ==
  ASSUME NEW taken, NEW sent, mail' = Mail(taken, sent), NEW c \in Channels
  PROVE /\ c \notin taken /\ c \notin DOMAIN sent /\ (mail[c] = <<>> \/ Arrives(c)) => mail'[c] = mail[c]
        /\ c \in taken /\ c \notin DOMAIN sent /\ Arrives(c) => mail'[c] = <<>>
        /\ c \notin taken /\ c \in DOMAIN sent /\ mail[c] = <<>> => mail'[c] = <<sent[c]>>
<1>1. mail'[c] = (IF c \in taken THEN Tail(mail[c]) ELSE mail[c])
                   \o (IF c \in DOMAIN sent THEN <<sent[c]>> ELSE <<>>)
  BY DEF Mail
<1>2. \A m : Tail(<<m>>) = <<>> /\ <<m>> \o <<>> = <<m>> /\ <<>> \o <<m>> = <<m>>
  OBVIOUS
<1>3. <<>> \o <<>> = <<>>
  OBVIOUS
<1>4. QED
  BY <1>1, <1>2, <1>3 DEF Arrives

(* Boxes with different ranks or tags are different.                       *)
LEMMA ChannelFacts ==
  /\ \A q, r \in Ranks : \A t \in {0, 1} : To(q, r, t) \in Channels
  /\ \A q, r, x, y : \A t, u : To(q, r, t) = To(x, y, u) <=> q = x /\ r = y /\ t = u
  /\ \A r, q, x, Q : \A t, u : To(q, x, u) \in ToAll(r, Q, t) <=> q = r /\ x \in Q /\ u = t
  /\ \A r, q, x, Q : \A t, u : To(q, x, u) \in FromAll(r, Q, t) <=> x = r /\ q \in Q /\ u = t
BY DEF To, ToAll, FromAll, Channels

(* There is never more than one message in a box.                          *)
LEMMA Slim ==
  ASSUME Mailed, NEW q \in Ranks, NEW r \in Ranks, NEW t \in {0, 1}
  PROVE mail[To(q, r, t)] = <<>> \/ Arrives(To(q, r, t))
<1>1. /\ mail[To(q, r, 0)] = <<>> \/ Arrives(To(q, r, 0))
      /\ mail[To(q, r, 1)] = <<>> \/ Arrives(To(q, r, 1))
  BY DEF Mailed, Box0, Box1, Arrives
<1>2. QED
  BY <1>1

(* A rank takes from some boxes and puts into others.                      *)
Moved(r, In, t, Out, u, sent) ==
  /\ \A q, s \in Ranks : \A v \in {0, 1} :
       ~(s = r /\ q \in In /\ v = t) /\ ~(q = r /\ s \in Out /\ v = u)
         => mail'[To(q, s, v)] = mail[To(q, s, v)]
  /\ \A q \in Ranks : q \in In /\ Arrives(To(q, r, t)) /\ ~(q = r /\ r \in Out /\ t = u)
         => mail'[To(q, r, t)] = <<>>
  /\ \A s \in Ranks : s \in Out /\ mail[To(r, s, u)] = <<>> /\ ~(s = r /\ r \in In /\ t = u)
         => mail'[To(r, s, u)] = <<sent[To(r, s, u)]>>

(* An operation of a rank changes the boxes it takes from and sends to.    *)
LEMMA MailMoves ==
  ASSUME Mailed, NEW r \in Ranks, NEW In, NEW Out, NEW t \in {0, 1}, NEW u \in {0, 1},
         NEW sent, DOMAIN sent = ToAll(r, Out, u), mail' = Mail(FromAll(r, In, t), sent)
  PROVE Moved(r, In, t, Out, u, sent)
<1> DEFINE taken == FromAll(r, In, t)
<1>1. ASSUME NEW q \in Ranks, NEW s \in Ranks, NEW v \in {0, 1}
      PROVE /\ To(q, s, v) \in Channels
            /\ To(q, s, v) \in taken <=> s = r /\ q \in In /\ v = t
            /\ To(q, s, v) \in DOMAIN sent <=> q = r /\ s \in Out /\ v = u
            /\ mail[To(q, s, v)] = <<>> \/ Arrives(To(q, s, v))
  BY ChannelFacts, Slim
<1> HIDE DEF taken
<1>2. mail' = Mail(taken, sent)
  BY DEF taken
<1>3. ASSUME NEW q \in Ranks, NEW s \in Ranks, NEW v \in {0, 1},
             ~(s = r /\ q \in In /\ v = t), ~(q = r /\ s \in Out /\ v = u)
      PROVE mail'[To(q, s, v)] = mail[To(q, s, v)]
  BY <1>1, <1>2, <1>3, MailAt
<1>4. ASSUME NEW q \in Ranks, q \in In, Arrives(To(q, r, t)), ~(q = r /\ r \in Out /\ t = u)
      PROVE mail'[To(q, r, t)] = <<>>
  BY <1>1, <1>2, <1>4, MailAt
<1>5. ASSUME NEW s \in Ranks, s \in Out, mail[To(r, s, u)] = <<>>, ~(s = r /\ r \in In /\ t = u)
      PROVE mail'[To(r, s, u)] = <<sent[To(r, s, u)]>>
  BY <1>1, <1>2, <1>5, MailAt
<1>6. QED
  BY <1>3, <1>4, <1>5 DEF Moved

(* A box nobody touches.                                                   *)
LEMMA Box0Stays ==
  ASSUME NEW q \in Ranks, NEW r \in Ranks, Box0(q, r), mail'[To(q, r, 0)] = mail[To(q, r, 0)],
         subdomain' = subdomain, home' = home, pattern' = pattern,
         CountsDue(q, r)' <=> CountsDue(q, r), LoadsDue(q, r)' <=> LoadsDue(q, r)
  PROVE Box0(q, r)'
BY PackedStays DEF Box0, Arrives

LEMMA Box1Stays ==
  ASSUME NEW q \in Ranks, NEW r \in Ranks, Box1(q, r), mail'[To(q, r, 1)] = mail[To(q, r, 1)],
         subdomain' = subdomain, home' = home, pattern' = pattern, loc' = loc,
         ParticlesDue(q, r)' <=> ParticlesDue(q, r), ValuesDue(q, r)' <=> ValuesDue(q, r)
  PROVE Box1(q, r)'
<1>1. Packed(q, r)' = Packed(q, r) /\ \A p : Cache(p)' = Cache(p)
  BY PackedStays
<1>2. \A m : AreParticles(m, q, r)' <=> AreParticles(m, q, r)
  BY <1>1 DEF AreParticles
<1>3. \A m : AreValues(m, q, r)' <=> AreValues(m, q, r)
  BY <1>1 DEF AreValues
<1>4. QED
  BY <1>2, <1>3 DEF Box1, Arrives

(* A pool in which only locations and loads are overwritten.               *)
LEMMA UnpackedUpdated ==
  ASSUME NEW r \in Ranks, UnpackedAt(r), subdomain' = subdomain, home' = home, pattern' = pattern,
         DOMAIN ghosts'[r] = DOMAIN ghosts[r],
         \A h \in DOMAIN ghosts[r] :
           /\ Shaped(ghosts'[r][h])
           /\ ghosts'[r][h].id = ghosts[r][h].id /\ ghosts'[r][h].cell = ghosts[r][h].cell,
         \A q \in Ranks : count'[r][q] = count[r][q] /\ start'[r][q] = start[r][q]
  PROVE UnpackedAt(r)'
<1>1. \A q \in Ranks : Packed(q, r)' = Packed(q, r)
  BY PackedStays
<1>2. \A p : Cache(p)' = Cache(p)
  BY PackedStays
<1>3. (\E n \in Nat : DOMAIN ghosts[r] = 1 .. n)'
  BY DEF UnpackedAt
<1>4. (\A h \in DOMAIN ghosts[r] : Shaped(ghosts[r][h]) /\ ghosts[r][h].cell = Cache(ghosts[r][h].id))'
  BY <1>2 DEF UnpackedAt, Shaped
<1>5. (\A q \in Ranks : \A i \in 1 .. count[r][q] :
        /\ start[r][q] + i \in DOMAIN ghosts[r]
        /\ ghosts[r][start[r][q] + i].id = Packed(q, r)[i])'
  BY <1>1 DEF UnpackedAt
<1>6. (\A h \in DOMAIN ghosts[r] :
        \E q \in Ranks : \E i \in 1 .. count[r][q] : h = start[r][q] + i)'
  <2>1. ASSUME NEW h \in DOMAIN ghosts[r]
        PROVE \E q \in Ranks : \E i \in 1 .. count'[r][q] : h = start'[r][q] + i
    <3>1. PICK q \in Ranks : \E i \in 1 .. count[r][q] : h = start[r][q] + i
      BY DEF UnpackedAt
    <3>2. \E i \in 1 .. count'[r][q] : h = start'[r][q] + i
      BY <3>1
    <3>3. QED
      BY <3>2
  <2>2. QED
    BY <2>1
<1>7. QED
  BY <1>3, <1>4, <1>5, <1>6 DEF UnpackedAt

(* A pool nobody touches.                                                  *)
LEMMA UnpackedStays ==
  ASSUME NEW r \in Ranks, UnpackedAt(r), subdomain' = subdomain, home' = home, pattern' = pattern,
         ghosts'[r] = ghosts[r],
         \A q \in Ranks : count'[r][q] = count[r][q] /\ start'[r][q] = start[r][q]
  PROVE UnpackedAt(r)'
<1>1. \A h \in DOMAIN ghosts[r] : Shaped(ghosts[r][h])
  BY DEF UnpackedAt
<1>2. QED
  BY <1>1, UnpackedUpdated

(* Sorting, step by step.                                                  *)
LEMMA SendCountsStep ==
  ASSUME IInv, NEW r \in Ranks, SendCounts(r)
  PROVE IInv'
<1> USE DEF Sorting, Updating, Working
<1>1. Types /\ Sync /\ Kept /\ Unpacked /\ Fresh /\ Abreast /\ Mailed
  BY DEF IInv
<1>2. /\ pc[r] = "counts" /\ pc' \in [Ranks -> Places]
      /\ \A q \in Ranks : pc'[q] = IF q = r THEN "particles" ELSE pc[q]
  BY <1>1 DEF SendCounts, Go, Types, Places
<1>3. UNCHANGED <<subdomain, pattern, loc, home, previous, load, ghosts, cached, toSend, count, start>>
  BY DEF SendCounts
<1>4. /\ \A q, s \in Ranks : Packed(q, s)' = Packed(q, s) /\ Sends(q, s)' = Sends(q, s)
      /\ \A p : Cache(p)' = Cache(p)
  BY <1>3, PackedStays
<1> DEFINE sent == [c \in ToAll(r, Neighbours(r), 0) |-> Len(Packed(r, c[2]))]
<1>5. /\ mail' = Mail(FromAll(r, {}, 0), sent) /\ DOMAIN sent = ToAll(r, Neighbours(r), 0)
      /\ \A s \in Ranks : Sends(r, s) <=> s \in Neighbours(r)
      /\ \A s \in Ranks : s \in Neighbours(r) => sent[To(r, s, 0)] = Len(Packed(r, s))
  <2>1. FromAll(r, {}, 0) = {}
    BY DEF FromAll
  <2>2. ASSUME NEW s \in Neighbours(r) PROVE sent[To(r, s, 0)] = Len(Packed(r, s))
    BY DEF To, ToAll
  <2>3. QED
    BY <2>1, <2>2 DEF SendCounts, Neighbours, Sends
<1> HIDE DEF sent
<1>6. Moved(r, {}, 0, Neighbours(r), 0, sent)
  BY <1>1, <1>5, MailMoves
<1>7. Types'
  BY <1>1, <1>2, <1>3, <1>5 DEF Types, Mail
<1>8. Sync'
  BY <1>1, <1>2 DEF Sync, All
<1>9. Kept' /\ Fresh'
  BY <1>1, <1>2, <1>3, <1>4 DEF Kept, Fresh
<1>10. Unpacked'
  BY <1>1, <1>2, <1>3, UnpackedStays DEF Unpacked
<1>11. Abreast'
  BY <1>1, <1>2, <1>4, PatternFacts DEF Abreast
<1>12. ASSUME NEW q \in Ranks, NEW s \in Ranks PROVE Box1(q, s)'
  <2>1. mail'[To(q, s, 1)] = mail[To(q, s, 1)]
    BY <1>6 DEF Moved
  <2>2. (ParticlesDue(q, s)' <=> ParticlesDue(q, s)) /\ (ValuesDue(q, s)' <=> ValuesDue(q, s))
    BY <1>2, <1>4 DEF ParticlesDue, ValuesDue
  <2>3. QED
    BY <1>1, <1>3, <2>1, <2>2, Box1Stays DEF Mailed
<1>13. ASSUME NEW q \in Ranks, NEW s \in Ranks PROVE Box0(q, s)'
  <2>1. CASE q = r /\ Sends(r, s)
    <3>1. r # s /\ pc[s] \in {"counts", "particles"}
      BY <1>1, <1>2, <2>1, PatternFacts DEF Abreast, Sends
    <3>2. CountsDue(r, s)' /\ ~LoadsDue(r, s)' /\ ~CountsDue(r, s) /\ ~LoadsDue(r, s)
      BY <1>2, <1>4, <2>1, <3>1 DEF CountsDue, LoadsDue
    <3>3. mail[To(r, s, 0)] = <<>>
      BY <1>1, <3>2 DEF Mailed, Box0
    <3>4. mail'[To(r, s, 0)] = <<Len(Packed(r, s))>>
      BY <1>5, <1>6, <2>1, <3>3 DEF Moved
    <3>5. QED
      BY <1>4, <2>1, <3>2, <3>4 DEF Box0
  <2>2. CASE ~(q = r /\ Sends(r, s))
    <3>1. mail'[To(q, s, 0)] = mail[To(q, s, 0)]
      BY <1>5, <1>6, <2>2 DEF Moved
    <3>2. (CountsDue(q, s)' <=> CountsDue(q, s)) /\ (LoadsDue(q, s)' <=> LoadsDue(q, s))
      BY <1>2, <1>4, <2>2 DEF CountsDue, LoadsDue
    <3>3. QED
      BY <1>1, <1>3, <3>1, <3>2, Box0Stays DEF Mailed
  <2>3. QED
    BY <2>1, <2>2
<1>14. QED
  BY <1>7, <1>8, <1>9, <1>10, <1>11, <1>12, <1>13 DEF IInv, Mailed

LEMMA SendParticlesStep ==
  ASSUME IInv, NEW r \in Ranks, SendParticles(r)
  PROVE IInv'
<1> USE DEF Sorting, Updating, Working
<1>1. Types /\ Sync /\ Kept /\ Unpacked /\ Fresh /\ Abreast /\ Mailed
  BY DEF IInv
<1>2. /\ pc[r] = "particles" /\ pc' \in [Ranks -> Places]
      /\ \A q \in Ranks : pc'[q] = IF q = r THEN "ghosts" ELSE pc[q]
  BY <1>1 DEF SendParticles, Go, Types, Places
<1>3. UNCHANGED <<subdomain, pattern, loc, home, previous, load, ghosts, cached>>
  BY DEF SendParticles
<1>4. /\ \A q, s \in Ranks : Packed(q, s)' = Packed(q, s) /\ Sends(q, s)' = Sends(q, s)
      /\ \A p : Cache(p)' = Cache(p)
  BY <1>3, PackedStays
<1> DEFINE sent == [c \in ToAll(r, Neighbours(r), 1) |->
                     [i \in DOMAIN Packed(r, c[2]) |->
                        LET p == Packed(r, c[2])[i]
                        IN [id |-> p, cell |-> find_particle_cache_cell(home[p]), loc |-> loc[p],
                            load |-> load[p]]]]
<1>5. /\ mail' = Mail(FromAll(r, Senders(r), 0), sent) /\ DOMAIN sent = ToAll(r, Neighbours(r), 1)
      /\ \A q \in Ranks : (Sends(r, q) <=> q \in Neighbours(r)) /\ (Sends(q, r) <=> q \in Senders(r))
  BY DEF SendParticles, Neighbours, Senders, Sends
<1>6. ASSUME NEW s \in Ranks, Sends(r, s)
      PROVE AreParticles(sent[To(r, s, 1)], r, s)
  <2>1. To(r, s, 1) \in DOMAIN sent /\ To(r, s, 1)[2] = s
    BY <1>5, <1>6, ChannelFacts DEF To
  <2>2. sent[To(r, s, 1)] = [i \in DOMAIN Packed(r, s) |->
          LET p == Packed(r, s)[i]
          IN [id |-> p, cell |-> find_particle_cache_cell(home[p]), loc |-> loc[p], load |-> load[p]]]
    BY <2>1
  <2> HIDE DEF sent
  <2>3. DOMAIN Packed(r, s) = 1 .. Len(Packed(r, s))
    BY <1>1, PackedFacts
  <2>4. QED
    BY <2>2, <2>3 DEF AreParticles, Cache
<1> HIDE DEF sent
<1>7. Moved(r, Senders(r), 0, Neighbours(r), 1, sent)
  BY <1>1, <1>5, MailMoves
<1>8. ASSUME NEW q \in Ranks, Sends(q, r)
      PROVE /\ q # r /\ pc[q] \in {"particles", "ghosts"} /\ Sends(r, q)
            /\ mail[To(q, r, 0)] = <<Len(Packed(q, r))>>
  <2>1. Sends(r, q) /\ q # r
    BY <1>1, <1>8, PatternFacts DEF Sends
  <2>2. pc[q] \in Sorting
    BY <1>1, <1>2, <2>1 DEF Abreast
  <2>3. mail[To(q, r, 0)] # <<>>
    BY <1>5, <1>8, ChannelFacts DEF SendParticles, Arrived
  <2>4. CountsDue(q, r)
    BY <1>1, <2>2, <2>3 DEF Mailed, Box0, LoadsDue
  <2>5. QED
    BY <1>1, <2>1, <2>4 DEF Mailed, Box0, CountsDue
<1>9. /\ toSend' \in [Ranks -> [Ranks -> Seq(Particles)]]
      /\ count' \in [Ranks -> [Ranks -> Nat]] /\ start' \in [Ranks -> [Ranks -> Nat]]
      /\ \A q, s \in Ranks : s # r => /\ toSend'[s][q] = toSend[s][q] /\ count'[s][q] = count[s][q]
                                      /\ start'[s][q] = start[s][q]
      /\ \A q \in Ranks : toSend'[r][q] = Packed(r, q) /\ count'[r][q] = Len(Packed(q, r))
  <2>1. /\ toSend' = [toSend EXCEPT ![r] = [q \in Ranks |-> Packed(r, q)]]
        /\ start' = [start EXCEPT ![r] = [q \in Ranks |-> 0]]
        /\ count' = [count EXCEPT ![r] =
             [q \in Ranks |-> IF q \in Senders(r) THEN Head(mail[To(q, r, 0)]) ELSE 0]]
    BY DEF SendParticles
  <2>2. \A q \in Ranks : Packed(r, q) \in Seq(Particles) /\ Len(Packed(q, r)) \in Nat
    BY <1>1, PackedFacts
  <2>3. \A q \in Ranks : (IF q \in Senders(r) THEN Head(mail[To(q, r, 0)]) ELSE 0) = Len(Packed(q, r))
    <3>1. ASSUME NEW q \in Ranks, q \in Senders(r) PROVE Head(mail[To(q, r, 0)]) = Len(Packed(q, r))
      BY <1>5, <1>8, <3>1
    <3>2. ASSUME NEW q \in Ranks, q \notin Senders(r) PROVE Len(Packed(q, r)) = 0
      BY <1>1, <1>5, <3>2, PackedFacts
    <3>3. QED
      BY <3>1, <3>2
  <2>4. [q \in Ranks |-> IF q \in Senders(r) THEN Head(mail[To(q, r, 0)]) ELSE 0]
          = [q \in Ranks |-> Len(Packed(q, r))]
    BY <2>3
  <2>5. count' = [count EXCEPT ![r] = [q \in Ranks |-> Len(Packed(q, r))]]
    BY <2>1, <2>4
  <2>6. /\ toSend \in [Ranks -> [Ranks -> Seq(Particles)]]
        /\ count \in [Ranks -> [Ranks -> Nat]] /\ start \in [Ranks -> [Ranks -> Nat]]
    BY <1>1 DEF Types
  <2>7. /\ toSend' \in [Ranks -> [Ranks -> Seq(Particles)]]
        /\ \A q, s \in Ranks : s # r => toSend'[s][q] = toSend[s][q]
        /\ \A q \in Ranks : toSend'[r][q] = Packed(r, q)
    BY <2>1, <2>2, <2>6
  <2>8. /\ count' \in [Ranks -> [Ranks -> Nat]]
        /\ \A q, s \in Ranks : s # r => count'[s][q] = count[s][q]
        /\ \A q \in Ranks : count'[r][q] = Len(Packed(q, r))
    BY <2>2, <2>5, <2>6
  <2>9. /\ start' \in [Ranks -> [Ranks -> Nat]]
        /\ \A q, s \in Ranks : s # r => start'[s][q] = start[s][q]
    BY <2>1, <2>6
  <2>10. QED
    BY <2>7, <2>8, <2>9
<1>10. Types'
  BY <1>1, <1>2, <1>3, <1>5, <1>9 DEF Types, Mail
<1>11. Sync'
  <2>1. \A q \in Ranks : pc[q] \in Sorting \cup Working
    BY <1>1, <1>2 DEF Sync, All
  <2>2. QED
    BY <1>2, <2>1 DEF Sync
<1>12. Kept'
  <2>1. ASSUME NEW s \in Ranks, s # r, pc'[s] \in {"ghosts"} \cup Updating \cup Working, NEW q \in Ranks
        PROVE toSend'[s][q] = Packed(s, q) /\ count'[s][q] = Len(Packed(q, s))
    BY <1>1, <1>2, <1>9, <2>1 DEF Kept
  <2>2. ASSUME NEW s \in Ranks, pc'[s] \in {"ghosts"} \cup Updating \cup Working, NEW q \in Ranks
        PROVE toSend'[s][q] = Packed(s, q) /\ count'[s][q] = Len(Packed(q, s))
    BY <1>9, <2>1, <2>2
  <2>3. \A q, s \in Ranks : Len(Packed(q, s))' = Len(Packed(q, s)) /\ Packed(q, s)' = Packed(q, s)
    BY <1>4
  <2>4. QED
    BY <2>2, <2>3 DEF Kept
<1>13. Fresh'
  BY <1>1, <1>2, <1>3 DEF Fresh
<1>14. Unpacked'
  <2>1. ASSUME NEW s \in Ranks, pc'[s] \in Updating \cup Working PROVE UnpackedAt(s)'
    <3>1. s # r /\ UnpackedAt(s) /\ \A q \in Ranks : count'[s][q] = count[s][q] /\ start'[s][q] = start[s][q]
      BY <1>1, <1>2, <1>9, <2>1 DEF Unpacked
    <3>2. QED
      BY <1>3, <3>1, UnpackedStays
  <2>2. QED
    BY <2>1 DEF Unpacked
<1>15. Abreast'
  BY <1>1, <1>2, <1>4, <1>8 DEF Abreast
<1>16. ASSUME NEW q \in Ranks, NEW s \in Ranks PROVE Box0(q, s)'
  <2>1. CASE s = r /\ Sends(q, r)
    <3>1. ~CountsDue(q, r)' /\ ~LoadsDue(q, r)'
      BY <1>2, <1>8, <2>1 DEF CountsDue, LoadsDue
    <3>2. Arrives(To(q, r, 0)) /\ q # r
      BY <1>8, <2>1 DEF Arrives
    <3>3. mail'[To(q, r, 0)] = <<>>
      BY <1>5, <1>7, <2>1, <3>2 DEF Moved
    <3>4. QED
      BY <2>1, <3>1, <3>3 DEF Box0
  <2>2. CASE ~(s = r /\ Sends(q, r))
    <3>1. mail'[To(q, s, 0)] = mail[To(q, s, 0)]
      BY <1>5, <1>7, <2>2 DEF Moved
    <3>2. (CountsDue(q, s)' <=> CountsDue(q, s)) /\ (LoadsDue(q, s)' <=> LoadsDue(q, s))
      BY <1>2, <1>4, <2>2 DEF CountsDue, LoadsDue
    <3>3. QED
      BY <1>1, <1>3, <3>1, <3>2, Box0Stays DEF Mailed
  <2>3. QED
    BY <2>1, <2>2
<1>17. ASSUME NEW q \in Ranks, NEW s \in Ranks PROVE Box1(q, s)'
  <2>1. CASE q = r /\ Sends(r, s)
    <3>1. r # s /\ pc[s] \in Sorting
      BY <1>1, <1>2, <2>1, PatternFacts DEF Abreast, Sends
    <3>2. ParticlesDue(r, s)' /\ ~ValuesDue(r, s)' /\ ~ParticlesDue(r, s) /\ ~ValuesDue(r, s)
      BY <1>2, <1>4, <2>1, <3>1 DEF ParticlesDue, ValuesDue
    <3>3. mail[To(r, s, 1)] = <<>>
      BY <1>1, <3>2 DEF Mailed, Box1
    <3>4. mail'[To(r, s, 1)] = <<sent[To(r, s, 1)]>>
      BY <1>5, <1>7, <2>1, <3>3 DEF Moved
    <3>5. Arrives(To(r, s, 1))' /\ AreParticles(sent[To(r, s, 1)], r, s)
      BY <1>6, <2>1, <3>4 DEF Arrives
    <3>6. Arrives(To(r, s, 1))' /\ AreParticles(Head(mail[To(r, s, 1)]), r, s)'
      BY <1>3, <1>4, <3>4, <3>5 DEF AreParticles
    <3>7. QED
      BY <2>1, <3>2, <3>6 DEF Box1
  <2>2. CASE ~(q = r /\ Sends(r, s))
    <3>1. mail'[To(q, s, 1)] = mail[To(q, s, 1)]
      BY <1>5, <1>7, <2>2 DEF Moved
    <3>2. (ParticlesDue(q, s)' <=> ParticlesDue(q, s)) /\ (ValuesDue(q, s)' <=> ValuesDue(q, s))
      BY <1>2, <1>4, <2>2 DEF ParticlesDue, ValuesDue
    <3>3. QED
      BY <1>1, <1>3, <3>1, <3>2, Box1Stays DEF Mailed
  <2>3. QED
    BY <2>1, <2>2
<1>18. QED
  BY <1>10, <1>11, <1>12, <1>13, <1>14, <1>15, <1>16, <1>17 DEF IInv, Mailed

LEMMA TakeGhostsStep ==
  ASSUME IInv, NEW r \in Ranks, TakeGhosts(r)
  PROVE IInv'
<1> USE DEF Sorting, Updating, Working
<1>1. Types /\ Sync /\ Kept /\ Unpacked /\ Fresh /\ Abreast /\ Mailed
  BY DEF IInv
<1>2. /\ pc[r] = "ghosts" /\ pc' \in [Ranks -> Places]
      /\ \A q \in Ranks : pc'[q] = IF q = r THEN "step" ELSE pc[q]
  BY <1>1 DEF TakeGhosts, Go, Types, Places
<1>3. UNCHANGED <<subdomain, pattern, loc, home, load, toSend, count>>
  BY DEF TakeGhosts
<1>4. /\ \A q, s \in Ranks : Packed(q, s)' = Packed(q, s) /\ Sends(q, s)' = Sends(q, s)
      /\ \A p : Cache(p)' = Cache(p)
  BY <1>3, PackedStays
<1>5. /\ mail' = Mail(FromAll(r, Senders(r), 1), Nothing)
      /\ DOMAIN Nothing = ToAll(r, {}, 1)
      /\ \A q \in Ranks : Sends(q, r) <=> q \in Senders(r)
  <2>1. DOMAIN Nothing = {} /\ ToAll(r, {}, 1) = {}
    BY DEF Nothing, ToAll
  <2>2. QED
    BY <2>1 DEF TakeGhosts, Senders, Sends
<1>6. Moved(r, Senders(r), 1, {}, 1, Nothing)
  BY <1>1, <1>5, MailMoves
<1>7. ASSUME NEW q \in Ranks, Sends(q, r)
      PROVE /\ q # r /\ pc[q] \in {"ghosts"} \cup Working /\ Sends(r, q)
            /\ Arrives(To(q, r, 1)) /\ AreParticles(Head(mail[To(q, r, 1)]), q, r)
  <2>1. Sends(r, q) /\ q # r
    BY <1>1, <1>7, PatternFacts DEF Sends
  <2>2. mail[To(q, r, 1)] # <<>>
    BY <1>5, <1>7, ChannelFacts DEF TakeGhosts, Arrived
  <2>3. ParticlesDue(q, r)
    BY <1>1, <1>2, <2>2 DEF Mailed, Box1, ValuesDue
  <2>4. QED
    BY <1>1, <2>1, <2>3 DEF Mailed, Box1, ParticlesDue
<1>8. \A q \in Ranks : /\ count[r][q] = Len(Packed(q, r)) /\ Len(Packed(q, r)) \in Nat
                       /\ \A i \in 1 .. Len(Packed(q, r)) : Packed(q, r)[i] \in Particles
  <2>1. \A q \in Ranks : count[r][q] = Len(Packed(q, r))
    BY <1>1, <1>2 DEF Kept
  <2>2. QED
    BY <1>1, <2>1, PackedFacts DEF Packable, Own
<1> DEFINE sent == [q \in Ranks |-> IF q \in Senders(r) THEN Head(mail[To(q, r, 1)]) ELSE <<>>]
           N == Cardinality(Ranks)
           pool == Pools(sent)
           S == UNION {{sent[q][i] : i \in 1 .. Len(Packed(q, r))} : q \in Ranks}
<1>9. ASSUME NEW q \in Ranks
      PROVE /\ sent[q] = [i \in 1 .. Len(Packed(q, r)) |-> sent[q][i]]
            /\ \A i \in 1 .. Len(Packed(q, r)) :
                 sent[q][i] = [id |-> Packed(q, r)[i], cell |-> Cache(Packed(q, r)[i]),
                               loc |-> loc[Packed(q, r)[i]], load |-> sent[q][i].load]
  <2>1. CASE q \in Senders(r)
    <3>1. AreParticles(sent[q], q, r)
      BY <1>5, <1>7, <2>1
    <3> HIDE DEF sent
    <3>2. QED
      BY <3>1 DEF AreParticles
  <2>2. CASE q \notin Senders(r)
    <3>1. sent[q] = <<>>
      BY <2>2
    <3>2. Len(Packed(q, r)) = 0
      BY <1>1, <1>5, <2>2, PackedFacts
    <3> HIDE DEF sent
    <3>3. QED
      BY <3>1, <3>2
  <2>3. QED
    BY <2>1, <2>2
<1>10. /\ ghosts' = [ghosts EXCEPT ![r] = pool[N]]
       /\ start' = [start EXCEPT ![r] = [q \in Ranks |-> IF count[r][q] > 0 THEN Len(pool[q]) ELSE 0]]
  BY DEF TakeGhosts
<1> HIDE DEF sent
<1>11. ASSUME NEW q \in Ranks PROVE sent[q] \in Seq(S) /\ Len(sent[q]) = Len(Packed(q, r))
  <2>1. \A i \in 1 .. Len(Packed(q, r)) : sent[q][i] \in S
    OBVIOUS
  <2> HIDE DEF S
  <2> DEFINE n == Len(Packed(q, r))
  <2>2. n \in Nat
    BY <1>8
  <2> HIDE DEF n
  <2>3. [i \in 1 .. n |-> sent[q][i]] \in [1 .. n -> S]
    BY <2>1 DEF n
  <2>4. sent[q] \in [1 .. n -> S]
    BY <1>9, <2>3 DEF n
  <2>5. QED
    BY <2>2, <2>4 DEF n
<1> HIDE DEF S
<1>12. /\ pool[N] \in Seq(S)
       /\ \A q \in Ranks : Len(pool[q]) \in Nat
       /\ \A q \in Ranks : \A i \in 1 .. Len(sent[q]) :
            /\ Len(pool[q]) + i \in 1 .. Len(pool[N])
            /\ pool[N][Len(pool[q]) + i] = sent[q][i]
       /\ \A h \in 1 .. Len(pool[N]) :
            \E q \in Ranks : \E i \in 1 .. Len(sent[q]) : h = Len(pool[q]) + i
  BY <1>11, PoolsFacts
<1> HIDE DEF pool, N
<1>13. /\ ghosts'[r] = pool[N] /\ ghosts' = [q \in Ranks |-> ghosts'[q]]
       /\ \A q \in Ranks : q # r => ghosts'[q] = ghosts[q]
  BY <1>1, <1>10 DEF Types
<1>14. /\ start' \in [Ranks -> [Ranks -> Nat]]
       /\ \A q, s \in Ranks : s # r => start'[s][q] = start[s][q]
       /\ \A q \in Ranks : count[r][q] > 0 => start'[r][q] = Len(pool[q])
  <2>1. start \in [Ranks -> [Ranks -> Nat]]
    BY <1>1 DEF Types
  <2>2. [q \in Ranks |-> IF count[r][q] > 0 THEN Len(pool[q]) ELSE 0] \in [Ranks -> Nat]
    BY <1>12
  <2>3. QED
    BY <1>10, <2>1, <2>2
<1>15. DOMAIN pool[N] = 1 .. Len(pool[N]) /\ Len(pool[N]) \in Nat
  BY <1>12
<1>16. ASSUME NEW q \in Ranks, NEW i \in 1 .. count[r][q]
       PROVE /\ start'[r][q] + i \in 1 .. Len(pool[N]) /\ start'[r][q] = Len(pool[q])
             /\ pool[N][start'[r][q] + i] = sent[q][i]
             /\ sent[q][i] = [id |-> Packed(q, r)[i], cell |-> Cache(Packed(q, r)[i]),
                              loc |-> loc[Packed(q, r)[i]], load |-> sent[q][i].load]
  <2>1. count[r][q] > 0 /\ i \in 1 .. Len(sent[q]) /\ i \in 1 .. Len(Packed(q, r))
    BY <1>8, <1>11
  <2>2. start'[r][q] = Len(pool[q])
    BY <1>14, <2>1
  <2>3. /\ Len(pool[q]) + i \in 1 .. Len(pool[N])
        /\ pool[N][Len(pool[q]) + i] = sent[q][i]
    BY <1>12, <2>1
  <2>4. sent[q][i] = [id |-> Packed(q, r)[i], cell |-> Cache(Packed(q, r)[i]),
                      loc |-> loc[Packed(q, r)[i]], load |-> sent[q][i].load]
    BY <1>9, <2>1
  <2>5. QED
    BY <2>2, <2>3, <2>4
<1>17. ASSUME NEW h \in 1 .. Len(pool[N])
       PROVE \E q \in Ranks : \E i \in 1 .. count[r][q] : h = start'[r][q] + i
  <2>1. PICK q \in Ranks : \E i \in 1 .. Len(sent[q]) : h = Len(pool[q]) + i
    BY <1>12
  <2>2. PICK i \in 1 .. Len(sent[q]) : h = Len(pool[q]) + i
    BY <2>1
  <2>3. i \in 1 .. count[r][q]
    BY <1>8, <1>11
  <2>4. QED
    BY <1>16, <2>2, <2>3
<1>18. ASSUME NEW h \in 1 .. Len(pool[N])
       PROVE /\ Shaped(pool[N][h]) /\ pool[N][h].cell = Cache(pool[N][h].id)
             /\ pool[N][h].loc = loc[pool[N][h].id]
  <2>1. PICK q \in Ranks : \E i \in 1 .. count[r][q] : h = start'[r][q] + i
    BY <1>17
  <2>2. PICK i \in 1 .. count[r][q] : h = start'[r][q] + i
    BY <2>1
  <2> DEFINE p == Packed(q, r)[i]
             l == sent[q][i].load
             g == pool[N][h]
  <2>3. g = [id |-> p, cell |-> Cache(p), loc |-> loc[p], load |-> l]
    BY <1>16, <2>2
  <2> HIDE DEF p, l, g
  <2>4. g.id = p /\ g.cell = Cache(p) /\ g.loc = loc[p] /\ g.load = l
    BY <2>3
  <2>5. QED
    BY <2>3, <2>4 DEF Shaped, g
<1>19. UnpackedAt(r)'
  <2>1. \E n \in Nat : DOMAIN ghosts'[r] = 1 .. n
    BY <1>13, <1>15
  <2>2. ASSUME NEW h \in DOMAIN ghosts'[r]
        PROVE Shaped(ghosts'[r][h]) /\ ghosts'[r][h].cell = Cache(ghosts'[r][h].id)
    <3>1. h \in 1 .. Len(pool[N]) /\ ghosts'[r][h] = pool[N][h]
      BY <1>13, <1>15
    <3>2. Shaped(pool[N][h]) /\ pool[N][h].cell = Cache(pool[N][h].id)
      BY <1>18, <3>1
    <3>3. QED
      BY <3>1, <3>2
  <2>3. ASSUME NEW q \in Ranks, NEW i \in 1 .. count[r][q]
        PROVE /\ start'[r][q] + i \in DOMAIN ghosts'[r]
              /\ ghosts'[r][start'[r][q] + i].id = Packed(q, r)[i]
    <3>1. start'[r][q] + i \in 1 .. Len(pool[N]) /\ pool[N][start'[r][q] + i] = sent[q][i]
      BY <1>16
    <3>2. sent[q][i].id = Packed(q, r)[i]
      <4>1. sent[q][i] = [id |-> Packed(q, r)[i], cell |-> Cache(Packed(q, r)[i]),
                          loc |-> loc[Packed(q, r)[i]], load |-> sent[q][i].load]
        BY <1>16
      <4>2. \A a, b, c, d : [id |-> a, cell |-> b, loc |-> c, load |-> d].id = a
        OBVIOUS
      <4>3. QED
        BY <4>1, <4>2
    <3>3. QED
      BY <1>13, <1>15, <3>1, <3>2
  <2>4. ASSUME NEW h \in DOMAIN ghosts'[r]
        PROVE \E q \in Ranks : \E i \in 1 .. count[r][q] : h = start'[r][q] + i
    BY <1>13, <1>15, <1>17
  <2>5. QED
    BY <1>3, <1>4, <2>1, <2>2, <2>3, <2>4 DEF UnpackedAt, Shaped
<1>20. Unpacked'
  <2>1. ASSUME NEW s \in Ranks, s # r, pc'[s] \in Updating \cup Working PROVE UnpackedAt(s)'
    <3>1. UnpackedAt(s) /\ ghosts'[s] = ghosts[s]
          /\ \A q \in Ranks : start'[s][q] = start[s][q]
      BY <1>1, <1>2, <1>13, <1>14, <2>1 DEF Unpacked
    <3>2. QED
      BY <1>3, <3>1, UnpackedStays
  <2>2. QED
    BY <1>19, <2>1 DEF Unpacked
<1>21. Fresh'
  <2>1. ASSUME NEW h \in DOMAIN ghosts'[r] PROVE ghosts'[r][h].loc = loc[ghosts'[r][h].id]
    <3>1. h \in 1 .. Len(pool[N]) /\ ghosts'[r][h] = pool[N][h]
      BY <1>13, <1>15
    <3>2. pool[N][h].loc = loc[pool[N][h].id]
      BY <1>18, <3>1
    <3>3. QED
      BY <3>1, <3>2
  <2>2. QED
    BY <1>1, <1>2, <1>3, <1>13, <2>1 DEF Fresh
<1>22. Types'
  <2>1. previous' \in [Particles -> Positions]
    BY <1>1 DEF Types, TakeGhosts
  <2>2. cached' = [q \in Ranks |-> cached'[q]]
    BY <1>1 DEF Types, TakeGhosts
  <2>3. QED
    BY <1>1, <1>2, <1>3, <1>5, <1>13, <1>14, <2>1, <2>2 DEF Types, Mail
<1>23. Sync'
  <2>1. \A q \in Ranks : pc[q] \in Sorting \cup Working
    BY <1>1, <1>2 DEF Sync, All
  <2>2. QED
    BY <1>2, <2>1 DEF Sync
<1>24. Kept'
  BY <1>1, <1>2, <1>3, <1>4 DEF Kept
<1>25. Abreast'
  BY <1>1, <1>2, <1>4, <1>7 DEF Abreast
<1>26. ASSUME NEW q \in Ranks, NEW s \in Ranks PROVE Box0(q, s)'
  <2>1. mail'[To(q, s, 0)] = mail[To(q, s, 0)]
    BY <1>6 DEF Moved
  <2>2. CountsDue(q, s)' <=> CountsDue(q, s)
    <3>1. CASE q = r
      <4>1. Sends(r, s) => s # r /\ pc[s] \in {"ghosts"} \cup Working
        <5>1. Sends(r, s) => Sends(s, r)
          BY <1>1, PatternFacts
        <5>2. QED
          BY <1>7, <5>1
      <4>2. QED
        BY <1>2, <1>4, <3>1, <4>1 DEF CountsDue
    <3>2. CASE q # r
      BY <1>2, <1>4, <3>2 DEF CountsDue
    <3>3. QED
      BY <3>1, <3>2
  <2>3. LoadsDue(q, s)' <=> LoadsDue(q, s)
    BY <1>2, <1>4 DEF LoadsDue
  <2>4. QED
    BY <1>1, <1>3, <2>1, <2>2, <2>3, Box0Stays DEF Mailed
<1>27. ASSUME NEW q \in Ranks, NEW s \in Ranks PROVE Box1(q, s)'
  <2>1. CASE s = r /\ Sends(q, r)
    <3>1. ~ParticlesDue(q, r)' /\ ~ValuesDue(q, r)'
      BY <1>2 DEF ParticlesDue, ValuesDue
    <3>2. mail'[To(q, r, 1)] = <<>>
      BY <1>5, <1>6, <1>7, <2>1 DEF Moved
    <3>3. QED
      BY <2>1, <3>1, <3>2 DEF Box1
  <2>2. CASE ~(s = r /\ Sends(q, r))
    <3>1. mail'[To(q, s, 1)] = mail[To(q, s, 1)]
      BY <1>5, <1>6, <2>2 DEF Moved
    <3>2. ParticlesDue(q, s)' <=> ParticlesDue(q, s)
      BY <1>2, <1>4, <2>2 DEF ParticlesDue
    <3>3. ValuesDue(q, s)' <=> ValuesDue(q, s)
      <4>1. \A x \in Ranks : pc[x] \in Sorting \cup Working
        BY <1>1, <1>2 DEF Sync, All
      <4>2. QED
        BY <1>2, <4>1 DEF ValuesDue
    <3>4. QED
      BY <1>1, <1>3, <3>1, <3>2, <3>3, Box1Stays DEF Mailed
  <2>3. QED
    BY <2>1, <2>2
<1>28. QED
  BY <1>20, <1>21, <1>22, <1>23, <1>24, <1>25, <1>26, <1>27 DEF IInv, Mailed

(* The loads, step by step.                                                *)
LEMMA ComputeLoadsStep ==
  ASSUME IInv, NEW r \in Ranks, ComputeLoads(r)
  PROVE IInv'
<1> USE DEF Sorting, Updating, Working
<1>1. Types /\ Sync /\ Kept /\ Unpacked /\ Fresh /\ Abreast /\ Mailed
  BY DEF IInv
<1>2. /\ pc[r] = "step" /\ pc' \in [Ranks -> Places]
      /\ \A q \in Ranks : pc'[q] = IF q = r THEN "compress" ELSE pc[q]
  BY <1>1 DEF ComputeLoads, Go, Types, Places
<1>3. UNCHANGED <<subdomain, pattern, loc, home, previous, cached, toSend, count, start>>
  BY DEF ComputeLoads
<1>4. /\ \A q, s \in Ranks : Packed(q, s)' = Packed(q, s) /\ Sends(q, s)' = Sends(q, s)
      /\ \A p : Cache(p)' = Cache(p)
  BY <1>3, PackedStays
<1> DEFINE found == [i \in DOMAIN ghosts[r] |->
                      GhostReset(ghosts[r][i].load) (+) FluidLoad(r, GhostView(r, i))]
           sent == [c \in ToAll(r, Sources(r), 0) |-> {<<ghosts[r][i].id, found[i]>> : i \in Handles(r, c[2])}]
<1>5. /\ mail' = Mail(FromAll(r, {}, 0), sent) /\ DOMAIN sent = ToAll(r, Sources(r), 0)
      /\ \A q \in Ranks : q \in Sources(r) <=> Packed(q, r) # <<>>
  <2>1. FromAll(r, {}, 0) = {}
    BY DEF FromAll
  <2>2. mail' = Mail({}, sent)
    BY DEF ComputeLoads
  <2>3. ASSUME NEW q \in Ranks PROVE q \in Sources(r) <=> Packed(q, r) # <<>>
    <3>1. count[r][q] = Len(Packed(q, r))
      BY <1>1, <1>2 DEF Kept
    <3>2. QED
      BY <1>1, <3>1, PackedFacts DEF Sources
  <2>4. QED
    BY <2>1, <2>2, <2>3
<1>6. ghosts' = [ghosts EXCEPT ![r] = [i \in DOMAIN found |-> [ghosts[r][i] EXCEPT !.load = found[i]]]]
  BY DEF ComputeLoads
<1>7. DOMAIN found = DOMAIN ghosts[r]
  OBVIOUS
<1> HIDE DEF sent, found
<1>8. Moved(r, {}, 0, Sources(r), 0, sent)
  BY <1>1, <1>5, MailMoves
<1>9. /\ ghosts'[r] = [i \in DOMAIN ghosts[r] |-> [ghosts[r][i] EXCEPT !.load = found[i]]]
      /\ ghosts' = [q \in Ranks |-> ghosts'[q]]
      /\ \A q \in Ranks : q # r => ghosts'[q] = ghosts[q]
  BY <1>1, <1>6, <1>7 DEF Types
<1>10. ASSUME NEW i \in DOMAIN ghosts[r]
       PROVE /\ Shaped(ghosts'[r][i])
             /\ ghosts'[r][i].id = ghosts[r][i].id /\ ghosts'[r][i].cell = ghosts[r][i].cell
             /\ ghosts'[r][i].loc = ghosts[r][i].loc
  <2> DEFINE g == ghosts[r][i]
  <2>1. Shaped(g)
    BY <1>1, <1>2 DEF Unpacked, UnpackedAt
  <2>2. ghosts'[r][i] = [g EXCEPT !.load = found[i]]
    BY <1>9
  <2> HIDE DEF g
  <2>3. [g EXCEPT !.load = found[i]] = [id |-> g.id, cell |-> g.cell, loc |-> g.loc, load |-> found[i]]
    BY <2>1 DEF Shaped
  <2>4. ghosts'[r][i] = [id |-> g.id, cell |-> g.cell, loc |-> g.loc, load |-> found[i]]
    BY <2>2, <2>3
  <2>5. QED
    BY <2>4 DEF Shaped, g
<1>11. Unpacked'
  <2>1. UnpackedAt(r)'
    <3>1. UnpackedAt(r) /\ DOMAIN ghosts'[r] = DOMAIN ghosts[r]
      BY <1>1, <1>2, <1>9 DEF Unpacked
    <3>2. QED
      BY <1>3, <1>10, <3>1, UnpackedUpdated
  <2>2. ASSUME NEW s \in Ranks, s # r, pc'[s] \in Updating \cup Working PROVE UnpackedAt(s)'
    <3>1. UnpackedAt(s) /\ ghosts'[s] = ghosts[s]
      BY <1>1, <1>2, <1>9, <2>2 DEF Unpacked
    <3>2. QED
      BY <1>3, <3>1, UnpackedStays
  <2>3. QED
    BY <2>1, <2>2 DEF Unpacked
<1>12. Fresh'
  <2>1. ASSUME NEW h \in DOMAIN ghosts'[r] PROVE ghosts'[r][h].loc = loc[ghosts'[r][h].id]
    <3>1. h \in DOMAIN ghosts[r]
      BY <1>9
    <3>2. ghosts[r][h].loc = loc[ghosts[r][h].id]
      BY <1>1, <1>2, <3>1 DEF Fresh
    <3>3. QED
      BY <1>10, <3>1, <3>2
  <2>2. ASSUME NEW s \in Ranks, s # r, pc'[s] \in Working, NEW h \in DOMAIN ghosts'[s]
        PROVE ghosts'[s][h].loc = loc[ghosts'[s][h].id]
    BY <1>1, <1>2, <1>9, <2>2 DEF Fresh
  <2>3. QED
    BY <1>3, <2>1, <2>2 DEF Fresh
<1>13. Types'
  BY <1>1, <1>2, <1>3, <1>5, <1>9 DEF Types, Mail
<1>14. Sync'
  BY <1>1, <1>2 DEF Sync, All
<1>15. Kept'
  BY <1>1, <1>2, <1>3, <1>4 DEF Kept
<1>16. Abreast'
  BY <1>1, <1>2, <1>4 DEF Abreast
<1>17. ASSUME NEW q \in Ranks, NEW s \in Ranks PROVE Box1(q, s)'
  <2>1. mail'[To(q, s, 1)] = mail[To(q, s, 1)]
    BY <1>8 DEF Moved
  <2>2. (ParticlesDue(q, s)' <=> ParticlesDue(q, s)) /\ (ValuesDue(q, s)' <=> ValuesDue(q, s))
    BY <1>2, <1>4 DEF ParticlesDue, ValuesDue
  <2>3. QED
    BY <1>1, <1>3, <2>1, <2>2, Box1Stays DEF Mailed
<1>18. ASSUME NEW q \in Ranks, NEW s \in Ranks PROVE Box0(q, s)'
  <2>1. CASE q = r /\ Packed(s, r) # <<>>
    <3>1. s # r /\ pc[s] # "move"
      <4>1. Sends(s, r)
        BY <1>1, <2>1, PackedFacts
      <4>2. s # r
        BY <1>1, <4>1, PatternFacts DEF Sends
      <4>3. QED
        BY <1>1, <1>2, <2>1, <4>2 DEF Abreast
    <3>2. LoadsDue(r, s)' /\ ~CountsDue(r, s)' /\ ~LoadsDue(r, s) /\ ~CountsDue(r, s)
      BY <1>2, <1>4, <2>1, <3>1 DEF LoadsDue, CountsDue
    <3>3. mail[To(r, s, 0)] = <<>>
      BY <1>1, <3>2 DEF Mailed, Box0
    <3>4. mail'[To(r, s, 0)] = <<sent[To(r, s, 0)]>>
      BY <1>5, <1>8, <2>1, <3>3 DEF Moved
    <3>5. Arrives(To(r, s, 0))'
      BY <3>4 DEF Arrives
    <3>6. QED
      BY <2>1, <3>2, <3>5 DEF Box0
  <2>2. CASE ~(q = r /\ Packed(s, r) # <<>>)
    <3>1. mail'[To(q, s, 0)] = mail[To(q, s, 0)]
      BY <1>5, <1>8, <2>2 DEF Moved
    <3>2. (CountsDue(q, s)' <=> CountsDue(q, s)) /\ (LoadsDue(q, s)' <=> LoadsDue(q, s))
      BY <1>2, <1>4, <2>2 DEF CountsDue, LoadsDue
    <3>3. QED
      BY <1>1, <1>3, <3>1, <3>2, Box0Stays DEF Mailed
  <2>3. QED
    BY <2>1, <2>2
<1>19. QED
  BY <1>11, <1>12, <1>13, <1>14, <1>15, <1>16, <1>17, <1>18 DEF IInv, Mailed

LEMMA CompressStep ==
  ASSUME IInv, NEW r \in Ranks, Compress(r)
  PROVE IInv'
<1> USE DEF Sorting, Updating, Working
<1>1. Types /\ Sync /\ Kept /\ Unpacked /\ Fresh /\ Abreast /\ Mailed
  BY DEF IInv
<1>2. /\ pc[r] = "compress" /\ pc' \in [Ranks -> Places]
      /\ \A q \in Ranks : pc'[q] = IF q = r THEN "move" ELSE pc[q]
  BY <1>1 DEF Compress, Go, Types, Places
<1>3. UNCHANGED <<subdomain, pattern, loc, home, previous, ghosts, cached, toSend, count, start>>
  BY DEF Compress
<1>4. /\ \A q, s \in Ranks : Packed(q, s)' = Packed(q, s) /\ Sends(q, s)' = Sends(q, s)
      /\ \A p : Cache(p)' = Cache(p)
  BY <1>3, PackedStays
<1>5. /\ mail' = Mail(FromAll(r, Targets(r), 0), Nothing)
      /\ DOMAIN Nothing = ToAll(r, {}, 0)
      /\ \A q \in Ranks : q \in Targets(r) <=> Packed(r, q) # <<>>
  <2>1. DOMAIN Nothing = {} /\ ToAll(r, {}, 0) = {}
    BY DEF Nothing, ToAll
  <2>2. \A q \in Ranks : toSend[r][q] = Packed(r, q)
    BY <1>1, <1>2 DEF Kept
  <2>3. QED
    BY <2>1, <2>2 DEF Compress, Targets
<1>6. Moved(r, Targets(r), 0, {}, 0, Nothing)
  BY <1>1, <1>5, MailMoves
<1>7. ASSUME NEW q \in Ranks, Packed(r, q) # <<>>
      PROVE pc[q] \in {"compress", "move"} /\ Arrives(To(q, r, 0))
  <2>1. mail[To(q, r, 0)] # <<>>
    BY <1>5, <1>7, ChannelFacts DEF Compress, Arrived
  <2>2. LoadsDue(q, r)
    BY <1>1, <1>2, <2>1 DEF Mailed, Box0, CountsDue
  <2>3. QED
    BY <1>1, <2>2 DEF Mailed, Box0, LoadsDue
<1>8. Unpacked' /\ Fresh'
  <2>1. \A s \in Ranks : pc'[s] \in Updating \cup Working <=> pc[s] \in Updating \cup Working
    BY <1>2
  <2>2. Unpacked'
    BY <1>1, <1>3, <2>1, UnpackedStays DEF Unpacked
  <2>3. Fresh'
    BY <1>1, <1>2, <1>3 DEF Fresh
  <2>4. QED
    BY <2>2, <2>3
<1>9. Types'
  BY <1>1, <1>2, <1>3, <1>5 DEF Types, Mail
<1>10. Sync'
  BY <1>1, <1>2 DEF Sync, All
<1>11. Kept'
  BY <1>1, <1>2, <1>3, <1>4 DEF Kept
<1>12. Abreast'
  BY <1>1, <1>2, <1>4, <1>7 DEF Abreast
<1>13. ASSUME NEW q \in Ranks, NEW s \in Ranks PROVE Box1(q, s)'
  <2>1. mail'[To(q, s, 1)] = mail[To(q, s, 1)]
    BY <1>6 DEF Moved
  <2>2. (ParticlesDue(q, s)' <=> ParticlesDue(q, s)) /\ (ValuesDue(q, s)' <=> ValuesDue(q, s))
    BY <1>2, <1>4 DEF ParticlesDue, ValuesDue
  <2>3. QED
    BY <1>1, <1>3, <2>1, <2>2, Box1Stays DEF Mailed
<1>14. ASSUME NEW q \in Ranks, NEW s \in Ranks PROVE Box0(q, s)'
  <2>1. CASE s = r /\ Packed(r, q) # <<>>
    <3>1. ~LoadsDue(q, r)' /\ ~CountsDue(q, r)'
      BY <1>2 DEF LoadsDue, CountsDue
    <3>2. mail'[To(q, r, 0)] = <<>>
      BY <1>5, <1>6, <1>7, <2>1 DEF Moved
    <3>3. QED
      BY <2>1, <3>1, <3>2 DEF Box0
  <2>2. CASE ~(s = r /\ Packed(r, q) # <<>>)
    <3>1. mail'[To(q, s, 0)] = mail[To(q, s, 0)]
      BY <1>5, <1>6, <2>2 DEF Moved
    <3>2. (CountsDue(q, s)' <=> CountsDue(q, s)) /\ (LoadsDue(q, s)' <=> LoadsDue(q, s))
      BY <1>2, <1>4, <2>2 DEF CountsDue, LoadsDue
    <3>3. QED
      BY <1>1, <1>3, <3>1, <3>2, Box0Stays DEF Mailed
  <2>3. QED
    BY <2>1, <2>2
<1>15. QED
  BY <1>8, <1>9, <1>10, <1>11, <1>12, <1>13, <1>14 DEF IInv, Mailed

(* The update of the ghosts, step by step.                                 *)
LEMMA SendGhostValuesStep ==
  ASSUME IInv, NEW r \in Ranks, SendGhostValues(r)
  PROVE IInv'
<1> USE DEF Sorting, Updating, Working
<1>1. Types /\ Sync /\ Kept /\ Unpacked /\ Fresh /\ Abreast /\ Mailed
  BY DEF IInv
<1>2. /\ pc[r] = "update" /\ pc' \in [Ranks -> Places]
      /\ \A q \in Ranks : pc'[q] = IF q = r THEN "refresh" ELSE pc[q]
  BY <1>1 DEF SendGhostValues, Go, Types, Places
<1>3. UNCHANGED <<subdomain, pattern, loc, home, previous, ghosts, cached, toSend, count, start>>
  BY DEF SendGhostValues
<1>4. /\ \A q, s \in Ranks : Packed(q, s)' = Packed(q, s) /\ Sends(q, s)' = Sends(q, s)
      /\ \A p : Cache(p)' = Cache(p)
  BY <1>3, PackedStays
<1> DEFINE sent == [c \in ToAll(r, Targets(r), 1) |->
                     [i \in DOMAIN toSend[r][c[2]] |->
                        [loc |-> loc[toSend[r][c[2]][i]], load |-> load[toSend[r][c[2]][i]]]]]
<1>5. /\ mail' = Mail(FromAll(r, {}, 0), sent) /\ DOMAIN sent = ToAll(r, Targets(r), 1)
      /\ \A q \in Ranks : toSend[r][q] = Packed(r, q)
      /\ \A q \in Ranks : q \in Targets(r) <=> Packed(r, q) # <<>>
  <2>1. FromAll(r, {}, 0) = {}
    BY DEF FromAll
  <2>2. mail' = Mail({}, sent)
    BY DEF SendGhostValues
  <2>3. \A q \in Ranks : toSend[r][q] = Packed(r, q)
    BY <1>1, <1>2 DEF Kept
  <2>4. QED
    BY <2>1, <2>2, <2>3 DEF Targets
<1>6. ASSUME NEW s \in Ranks, Packed(r, s) # <<>>
      PROVE AreValues(sent[To(r, s, 1)], r, s)
  <2>1. To(r, s, 1) \in DOMAIN sent /\ To(r, s, 1)[2] = s
    BY <1>5, <1>6, ChannelFacts DEF To
  <2>2. sent[To(r, s, 1)] = [i \in DOMAIN toSend[r][s] |->
                               [loc |-> loc[toSend[r][s][i]], load |-> load[toSend[r][s][i]]]]
    BY <2>1
  <2> HIDE DEF sent
  <2>3. toSend[r][s] = Packed(r, s) /\ DOMAIN Packed(r, s) = 1 .. Len(Packed(r, s))
    BY <1>1, <1>5, PackedFacts
  <2>4. sent[To(r, s, 1)] = [i \in 1 .. Len(Packed(r, s)) |->
                               [loc |-> loc[Packed(r, s)[i]], load |-> load[Packed(r, s)[i]]]]
    BY <2>2, <2>3
  <2>5. QED
    BY <2>4 DEF AreValues
<1> HIDE DEF sent
<1>7. Moved(r, {}, 0, Targets(r), 1, sent)
  BY <1>1, <1>5, MailMoves
<1>8. Unpacked' /\ Fresh'
  <2>1. \A s \in Ranks : pc'[s] \in Updating \cup Working <=> pc[s] \in Updating \cup Working
    BY <1>2
  <2>2. Unpacked'
    BY <1>1, <1>3, <2>1, UnpackedStays DEF Unpacked
  <2>3. Fresh'
    BY <1>1, <1>2, <1>3 DEF Fresh
  <2>4. QED
    BY <2>2, <2>3
<1>9. Types'
  BY <1>1, <1>2, <1>3, <1>5 DEF Types, Mail
<1>10. Sync'
  BY <1>1, <1>2 DEF Sync, All
<1>11. Kept'
  BY <1>1, <1>2, <1>3, <1>4 DEF Kept
<1>12. Abreast'
  BY <1>1, <1>2, <1>4 DEF Abreast
<1>13. ASSUME NEW q \in Ranks, NEW s \in Ranks PROVE Box0(q, s)'
  <2>1. mail'[To(q, s, 0)] = mail[To(q, s, 0)]
    BY <1>7 DEF Moved
  <2>2. (CountsDue(q, s)' <=> CountsDue(q, s)) /\ (LoadsDue(q, s)' <=> LoadsDue(q, s))
    BY <1>2, <1>4 DEF CountsDue, LoadsDue
  <2>3. QED
    BY <1>1, <1>3, <2>1, <2>2, Box0Stays DEF Mailed
<1>14. ASSUME NEW q \in Ranks, NEW s \in Ranks PROVE Box1(q, s)'
  <2>1. CASE q = r /\ Packed(r, s) # <<>>
    <3>1. s # r /\ pc[s] \in Updating
      <4>1. Sends(r, s)
        BY <1>1, <2>1, PackedFacts
      <4>2. s # r
        BY <1>1, <4>1, PatternFacts DEF Sends
      <4>3. QED
        BY <1>1, <1>2, <2>1, <4>2 DEF Abreast
    <3>2. ValuesDue(r, s)' /\ ~ParticlesDue(r, s)' /\ ~ValuesDue(r, s) /\ ~ParticlesDue(r, s)
      BY <1>2, <1>4, <2>1, <3>1 DEF ValuesDue, ParticlesDue
    <3>3. mail[To(r, s, 1)] = <<>>
      BY <1>1, <3>2 DEF Mailed, Box1
    <3>4. mail'[To(r, s, 1)] = <<sent[To(r, s, 1)]>>
      BY <1>5, <1>7, <2>1, <3>3 DEF Moved
    <3>5. Arrives(To(r, s, 1))' /\ AreValues(sent[To(r, s, 1)], r, s)
      BY <1>6, <2>1, <3>4 DEF Arrives
    <3>6. AreValues(Head(mail[To(r, s, 1)]), r, s)'
      BY <1>3, <1>4, <3>4, <3>5 DEF AreValues
    <3>7. QED
      BY <2>1, <3>2, <3>5, <3>6 DEF Box1
  <2>2. CASE ~(q = r /\ Packed(r, s) # <<>>)
    <3>1. mail'[To(q, s, 1)] = mail[To(q, s, 1)]
      BY <1>5, <1>7, <2>2 DEF Moved
    <3>2. (ParticlesDue(q, s)' <=> ParticlesDue(q, s)) /\ (ValuesDue(q, s)' <=> ValuesDue(q, s))
      BY <1>2, <1>4, <2>2 DEF ParticlesDue, ValuesDue
    <3>3. QED
      BY <1>1, <1>3, <3>1, <3>2, Box1Stays DEF Mailed
  <2>3. QED
    BY <2>1, <2>2
<1>15. QED
  BY <1>8, <1>9, <1>10, <1>11, <1>12, <1>13, <1>14 DEF IInv, Mailed

(* Every slot of the pool belongs to one particle of one rank.             *)
LEMMA SlotFacts ==
  ASSUME Types, NEW r \in Ranks, UnpackedAt(r), \A q \in Ranks : count[r][q] = Len(Packed(q, r))
  PROVE /\ \A h \in DOMAIN ghosts[r] : \E q \in Ranks : \E i \in 1 .. Len(Packed(q, r)) :
             /\ h = start[r][q] + i /\ ghosts[r][h].id = Packed(q, r)[i]
             /\ i \in DOMAIN ghosts[r]
        /\ \A q, s \in Ranks : \A i \in 1 .. Len(Packed(q, r)), j \in 1 .. Len(Packed(s, r)) :
             start[r][q] + i = start[r][s] + j => q = s /\ i = j
        /\ \A q \in Ranks : \A i \in 1 .. Len(Packed(q, r)) :
             start[r][q] + i \in DOMAIN ghosts[r] /\ ghosts[r][start[r][q] + i].id = Packed(q, r)[i]
<1>1. ASSUME NEW q \in Ranks, NEW i \in 1 .. Len(Packed(q, r))
      PROVE /\ start[r][q] + i \in DOMAIN ghosts[r] /\ ghosts[r][start[r][q] + i].id = Packed(q, r)[i]
            /\ i \in DOMAIN ghosts[r]
            /\ Packed(q, r)[i] \in Particles /\ subdomain[home[Packed(q, r)[i]]] = q
  <2>1. i \in 1 .. count[r][q]
    OBVIOUS
  <2>2. start[r][q] + i \in DOMAIN ghosts[r] /\ ghosts[r][start[r][q] + i].id = Packed(q, r)[i]
    BY <2>1 DEF UnpackedAt
  <2>3. PICK n \in Nat : DOMAIN ghosts[r] = 1 .. n
    BY DEF UnpackedAt
  <2>4. start[r][q] \in Nat /\ i \in Nat /\ i >= 1
    BY PackedFacts DEF Types
  <2>5. i \in DOMAIN ghosts[r]
    BY <2>2, <2>3, <2>4
  <2>6. Packed(q, r)[i] \in Own(q)
    BY PackedFacts DEF Packable
  <2>7. QED
    BY <2>2, <2>5, <2>6 DEF Own
<1>2. ASSUME NEW h \in DOMAIN ghosts[r]
      PROVE \E q \in Ranks : \E i \in 1 .. Len(Packed(q, r)) :
             /\ h = start[r][q] + i /\ ghosts[r][h].id = Packed(q, r)[i]
             /\ i \in DOMAIN ghosts[r]
  <2>1. PICK q \in Ranks : \E i \in 1 .. count[r][q] : h = start[r][q] + i
    BY DEF UnpackedAt
  <2>2. PICK i \in 1 .. Len(Packed(q, r)) : h = start[r][q] + i
    BY <2>1
  <2>3. QED
    BY <1>1, <2>2
<1>3. ASSUME NEW q \in Ranks, NEW s \in Ranks,
             NEW i \in 1 .. Len(Packed(q, r)), NEW j \in 1 .. Len(Packed(s, r)),
             start[r][q] + i = start[r][s] + j
      PROVE q = s /\ i = j
  <2>1. Packed(q, r)[i] = Packed(s, r)[j]
    BY <1>1, <1>3
  <2>2. q = s
    BY <1>1, <2>1
  <2>3. QED
    BY <2>1, <2>2, PackedFacts
<1>4. QED
  BY <1>1, <1>2, <1>3

LEMMA TakeGhostValuesStep ==
  ASSUME IInv, NEW r \in Ranks, TakeGhostValues(r)
  PROVE IInv'
<1> USE DEF Sorting, Updating, Working
<1>1. Types /\ Sync /\ Kept /\ Unpacked /\ Fresh /\ Abreast /\ Mailed
  BY DEF IInv
<1>2. /\ pc[r] = "refresh" /\ pc' \in [Ranks -> Places]
      /\ \A q \in Ranks : pc'[q] = IF q = r THEN "step" ELSE pc[q]
  BY <1>1 DEF TakeGhostValues, Go, Types, Places
<1>3. UNCHANGED <<subdomain, pattern, loc, home, previous, cached, toSend, count, start>>
  BY DEF TakeGhostValues
<1>4. /\ \A q, s \in Ranks : Packed(q, s)' = Packed(q, s) /\ Sends(q, s)' = Sends(q, s)
      /\ \A p : Cache(p)' = Cache(p)
  BY <1>3, PackedStays
<1>5. /\ mail' = Mail(FromAll(r, Sources(r), 1), Nothing)
      /\ DOMAIN Nothing = ToAll(r, {}, 1)
      /\ \A q \in Ranks : count[r][q] = Len(Packed(q, r))
      /\ \A q \in Ranks : q \in Sources(r) <=> Packed(q, r) # <<>>
  <2>1. DOMAIN Nothing = {} /\ ToAll(r, {}, 1) = {}
    BY DEF Nothing, ToAll
  <2>2. \A q \in Ranks : count[r][q] = Len(Packed(q, r))
    BY <1>1, <1>2 DEF Kept
  <2>3. \A q \in Ranks : q \in Sources(r) <=> Packed(q, r) # <<>>
    BY <1>1, <2>2, PackedFacts DEF Sources
  <2>4. QED
    BY <2>1, <2>2, <2>3 DEF TakeGhostValues
<1>6. Moved(r, Sources(r), 1, {}, 1, Nothing)
  BY <1>1, <1>5, MailMoves
<1>7. ASSUME NEW q \in Ranks, Packed(q, r) # <<>>
      PROVE /\ pc[q] \in {"refresh"} \cup Working /\ Arrives(To(q, r, 1))
            /\ AreValues(Head(mail[To(q, r, 1)]), q, r)
  <2>1. mail[To(q, r, 1)] # <<>>
    BY <1>5, <1>7, ChannelFacts DEF TakeGhostValues, Arrived
  <2>2. ValuesDue(q, r)
    BY <1>1, <1>2, <2>1 DEF Mailed, Box1, ParticlesDue
  <2>3. QED
    BY <1>1, <2>2 DEF Mailed, Box1, ValuesDue
<1>8. UnpackedAt(r)
  BY <1>1, <1>2 DEF Unpacked
<1> DEFINE slots == Sources(r) \X DOMAIN ghosts[r]
           for(h) == {s \in slots : s[2] <= count[r][s[1]] /\ Handle(r, s[1], s[2]) = h}
           new(s) == Head(mail[To(s[1], r, 1)])[s[2]]
           chosen(h) == CHOOSE s \in for(h) : \A t \in for(h) : t[1] <= s[1]
<1>9. /\ ghosts' = [q \in Ranks |-> ghosts'[q]]
      /\ \A q \in Ranks : q # r => ghosts'[q] = ghosts[q]
      /\ ghosts'[r] = [h \in DOMAIN ghosts[r] |->
           IF for(h) = {} THEN ghosts[r][h]
           ELSE [ghosts[r][h] EXCEPT !.loc = new(chosen(h)).loc, !.load = new(chosen(h)).load]]
  BY <1>1 DEF Types, TakeGhostValues
<1>10. ASSUME NEW h \in DOMAIN ghosts[r]
       PROVE /\ Shaped(ghosts'[r][h])
             /\ ghosts'[r][h].id = ghosts[r][h].id /\ ghosts'[r][h].cell = ghosts[r][h].cell
             /\ ghosts'[r][h].loc = loc[ghosts[r][h].id]
  <2>1. PICK q \in Ranks : \E i \in 1 .. Len(Packed(q, r)) :
             /\ h = start[r][q] + i /\ ghosts[r][h].id = Packed(q, r)[i]
             /\ i \in DOMAIN ghosts[r]
    BY <1>1, <1>5, <1>8, SlotFacts
  <2>2. PICK i \in 1 .. Len(Packed(q, r)) :
             /\ h = start[r][q] + i /\ ghosts[r][h].id = Packed(q, r)[i]
             /\ i \in DOMAIN ghosts[r]
    BY <2>1
  <2>3. for(h) = {<<q, i>>}
    <3>1. <<q, i>> \in for(h)
      <4>1. Len(Packed(q, r)) \in Nat /\ Packed(q, r) # <<>>
        BY <1>1, PackedFacts
      <4>2. <<q, i>> \in slots
        BY <1>5, <2>2, <4>1
      <4>3. i <= count[r][q] /\ Handle(r, q, i) = h
        BY <1>5, <2>2, <4>1 DEF Handle
      <4>4. QED
        BY <4>2, <4>3
    <3>2. ASSUME NEW s \in for(h) PROVE s = <<q, i>>
      <4>1. /\ s[1] \in Ranks /\ s[2] \in DOMAIN ghosts[r] /\ s = <<s[1], s[2]>>
            /\ s[2] <= count[r][s[1]] /\ start[r][s[1]] + s[2] = h
        BY DEF Sources, Handle
      <4>2. s[2] \in Nat /\ s[2] >= 1
        BY <1>8, <4>1 DEF UnpackedAt
      <4>3. s[2] \in 1 .. Len(Packed(s[1], r))
        BY <1>1, <1>5, <4>1, <4>2, PackedFacts
      <4>4. s[1] = q /\ s[2] = i
        <5>1. start[r][q] + i = start[r][s[1]] + s[2]
          BY <2>2, <4>1
        <5>2. \A x, y \in Ranks : \A a \in 1 .. Len(Packed(x, r)), b \in 1 .. Len(Packed(y, r)) :
                start[r][x] + a = start[r][y] + b => x = y /\ a = b
          BY <1>1, <1>5, <1>8, SlotFacts
        <5>3. QED
          BY <4>1, <4>3, <5>1, <5>2
      <4>5. QED
        BY <4>1, <4>4
    <3>3. QED
      BY <3>1, <3>2
  <2> HIDE DEF for
  <2>4. chosen(h) = <<q, i>>
    <3>1. q <= q
      BY RanksFacts
    <3>2. \E s \in for(h) : \A t \in for(h) : t[1] <= s[1]
      BY <2>3, <3>1
    <3>3. QED
      BY <2>3, <3>2
  <2> HIDE DEF chosen
  <2> DEFINE m == Head(mail[To(q, r, 1)])
             g == ghosts[r][h]
  <2>5. ghosts'[r][h] = [g EXCEPT !.loc = new(chosen(h)).loc, !.load = new(chosen(h)).load]
    BY <1>9, <2>3
  <2>6. new(chosen(h)) = m[i]
    BY <2>4
  <2> HIDE DEF new
  <2>7. ghosts'[r][h] = [g EXCEPT !.loc = m[i].loc, !.load = m[i].load]
    BY <2>5, <2>6
  <2>8. AreValues(m, q, r)
    <3>1. Packed(q, r) # <<>>
      BY <1>1, PackedFacts
    <3>2. QED
      BY <1>7, <3>1
  <2>9. Shaped(g) /\ g.id = Packed(q, r)[i]
    BY <1>8, <2>2 DEF UnpackedAt
  <2> HIDE DEF m, g
  <2>10. m[i].loc = loc[Packed(q, r)[i]]
    <3>1. m[i] = [loc |-> loc[Packed(q, r)[i]], load |-> m[i].load]
      BY <2>8 DEF AreValues
    <3>2. \A a, b : [loc |-> a, load |-> b].loc = a
      OBVIOUS
    <3>3. QED
      BY <3>1, <3>2
  <2>11. ghosts'[r][h] = [id |-> g.id, cell |-> g.cell, loc |-> m[i].loc, load |-> m[i].load]
    BY <2>7, <2>9 DEF Shaped
  <2>12. QED
    BY <2>9, <2>10, <2>11 DEF Shaped, g
<1>11. DOMAIN ghosts'[r] = DOMAIN ghosts[r]
  BY <1>9
<1>12. Unpacked'
  <2>1. UnpackedAt(r)'
    BY <1>3, <1>8, <1>10, <1>11, UnpackedUpdated
  <2>2. ASSUME NEW s \in Ranks, s # r, pc'[s] \in Updating \cup Working PROVE UnpackedAt(s)'
    <3>1. UnpackedAt(s) /\ ghosts'[s] = ghosts[s]
      BY <1>1, <1>2, <1>9, <2>2 DEF Unpacked
    <3>2. QED
      BY <1>3, <3>1, UnpackedStays
  <2>3. QED
    BY <2>1, <2>2 DEF Unpacked
<1>13. Fresh'
  <2>1. ASSUME NEW h \in DOMAIN ghosts'[r] PROVE ghosts'[r][h].loc = loc[ghosts'[r][h].id]
    BY <1>10, <1>11
  <2>2. ASSUME NEW s \in Ranks, s # r, pc'[s] \in Working, NEW h \in DOMAIN ghosts'[s]
        PROVE ghosts'[s][h].loc = loc[ghosts'[s][h].id]
    <3>1. ghosts'[s] = ghosts[s]
      BY <1>9, <2>2
    <3>2. pc[s] \in Working
      BY <1>2, <2>2
    <3>3. \A k \in DOMAIN ghosts[s] : ghosts[s][k].loc = loc[ghosts[s][k].id]
      BY <1>1, <3>2 DEF Fresh
    <3>4. QED
      BY <3>1, <3>3
  <2>3. ASSUME NEW s \in Ranks, pc'[s] \in Working, NEW h \in DOMAIN ghosts'[s]
        PROVE ghosts'[s][h].loc = loc'[ghosts'[s][h].id]
    <3>1. CASE s = r
      BY <1>3, <2>1, <3>1
    <3>2. CASE s # r
      BY <1>3, <2>2, <2>3, <3>2
    <3>3. QED
      BY <3>1, <3>2
  <2>4. QED
    BY <2>3 DEF Fresh
<1>14. Types'
  BY <1>1, <1>2, <1>3, <1>5, <1>9 DEF Types, Mail
<1>15. Sync'
  <2>1. \A q \in Ranks : pc[q] \in Updating \cup Working
    BY <1>1, <1>2 DEF Sync, All
  <2>2. QED
    BY <1>2, <2>1 DEF Sync
<1>16. Kept'
  BY <1>1, <1>2, <1>3, <1>4 DEF Kept
<1>17. Abreast'
  BY <1>1, <1>2, <1>4, <1>7 DEF Abreast
<1>18. ASSUME NEW q \in Ranks, NEW s \in Ranks PROVE Box0(q, s)'
  <2>1. mail'[To(q, s, 0)] = mail[To(q, s, 0)]
    BY <1>6 DEF Moved
  <2>2. (CountsDue(q, s)' <=> CountsDue(q, s)) /\ (LoadsDue(q, s)' <=> LoadsDue(q, s))
    BY <1>2, <1>4 DEF CountsDue, LoadsDue
  <2>3. QED
    BY <1>1, <1>3, <2>1, <2>2, Box0Stays DEF Mailed
<1>19. ASSUME NEW q \in Ranks, NEW s \in Ranks PROVE Box1(q, s)'
  <2>1. CASE s = r /\ Packed(q, r) # <<>>
    <3>1. ~ValuesDue(q, r)' /\ ~ParticlesDue(q, r)'
      BY <1>2 DEF ValuesDue, ParticlesDue
    <3>2. mail'[To(q, r, 1)] = <<>>
      BY <1>5, <1>6, <1>7, <2>1 DEF Moved
    <3>3. QED
      BY <2>1, <3>1, <3>2 DEF Box1
  <2>2. CASE ~(s = r /\ Packed(q, r) # <<>>)
    <3>1. mail'[To(q, s, 1)] = mail[To(q, s, 1)]
      BY <1>5, <1>6, <2>2 DEF Moved
    <3>2. ValuesDue(q, s)' <=> ValuesDue(q, s)
      BY <1>2, <1>4, <2>2 DEF ValuesDue
    <3>3. ParticlesDue(q, s)' <=> ParticlesDue(q, s)
      <4>1. \A x \in Ranks : pc[x] \in Updating \cup Working
        BY <1>1, <1>2 DEF Sync, All
      <4>2. QED
        BY <1>2, <4>1 DEF ParticlesDue
    <3>4. QED
      BY <1>1, <1>3, <3>1, <3>2, <3>3, Box1Stays DEF Mailed
  <2>3. QED
    BY <2>1, <2>2
<1>20. QED
  BY <1>12, <1>13, <1>14, <1>15, <1>16, <1>17, <1>18, <1>19 DEF IInv, Mailed

(* At a collective step no message is under way.                           *)
Meeting == {"sort", "counts", "move", "update", "step"}

(* No message is under way when all ranks are at one of these places.      *)
LEMMA NoneDue ==
  ASSUME NEW place \in Meeting, All(place), Mailed
  PROVE \A q, r \in Ranks : mail[To(q, r, 0)] = <<>> /\ mail[To(q, r, 1)] = <<>>
<1>1. ASSUME NEW q \in Ranks, NEW r \in Ranks
      PROVE ~CountsDue(q, r) /\ ~LoadsDue(q, r) /\ ~ParticlesDue(q, r) /\ ~ValuesDue(q, r)
  <2>1. pc[q] = place /\ pc[r] = place
    BY DEF All
  <2>2. QED
    BY <2>1 DEF Meeting, CountsDue, LoadsDue, ParticlesDue, ValuesDue, Sorting, Updating, Working
<1>2. QED
  BY <1>1 DEF Mailed, Box0, Box1

(* Collective operations send nothing.                                     *)
LEMMA CollectiveMail ==
  ASSUME NEW place \in Meeting, All(place), Mailed, mail' = mail,
         NEW next \in Meeting, All(next)'
  PROVE Mailed' /\ Abreast'
<1>1. \A q \in Ranks : pc'[q] = next
  BY DEF All
<1>2. ASSUME NEW q \in Ranks, NEW r \in Ranks
      PROVE ~CountsDue(q, r)' /\ ~LoadsDue(q, r)' /\ ~ParticlesDue(q, r)' /\ ~ValuesDue(q, r)'
  BY <1>1 DEF Meeting, CountsDue, LoadsDue, ParticlesDue, ValuesDue, Sorting, Updating, Working
<1>3. ASSUME NEW q \in Ranks, NEW r \in Ranks
      PROVE mail'[To(q, r, 0)] = <<>> /\ mail'[To(q, r, 1)] = <<>>
  BY NoneDue
<1>4. ASSUME NEW q \in Ranks, NEW r \in Ranks PROVE (Box0(q, r) /\ Box1(q, r))'
  BY <1>2, <1>3 DEF Box0, Box1
<1>5. Abreast'
  BY <1>1 DEF Meeting, Abreast, Sorting, Updating
<1>6. QED
  BY <1>4, <1>5 DEF Mailed

(* Collective operations, step by step.                                    *)
LEMMA AdvanceTimeStep ==
  ASSUME IInv, AdvanceTime
  PROVE IInv'
<1> USE DEF Sorting, Updating, Working
<1>1. Types /\ Sync /\ Kept /\ Unpacked /\ Fresh /\ Abreast /\ Mailed
  BY DEF IInv
<1>2. PICK x \in {[p \in Particles |-> loc[p] + d[p]] : d \in Moves} :
        /\ x \in [Particles -> Positions]
        /\ GoAll("move", IF UpdateRequired(x) THEN "sort" ELSE "update")
        /\ loc' = x
  BY DEF AdvanceTime
<1>3. UNCHANGED <<subdomain, pattern, home, previous, ghosts, cached, toSend, count, start, mail>>
  BY DEF AdvanceTime
<1>4. /\ \A q, s \in Ranks : Packed(q, s)' = Packed(q, s) /\ Sends(q, s)' = Sends(q, s)
      /\ \A p : Cache(p)' = Cache(p)
  BY <1>3, PackedStays
<1>5. All("move") /\ (All("sort")' \/ All("update")') /\ pc' \in [Ranks -> Places]
  BY <1>2 DEF GoAll, All, Places
<1>6. Types'
  BY <1>1, <1>2, <1>3, <1>5 DEF Types
<1>7. Sync'
  BY <1>5 DEF Sync, All
<1>8. \A r \in Ranks : pc[r] = "move" /\ pc'[r] \in {"sort", "update"}
  BY <1>5 DEF All
<1>9. Kept' /\ Fresh'
  BY <1>1, <1>3, <1>4, <1>8 DEF Kept, Fresh
<1>10. Unpacked'
  BY <1>1, <1>3, <1>8, UnpackedStays DEF Unpacked
<1>11. Mailed' /\ Abreast'
  BY <1>1, <1>3, <1>5, CollectiveMail DEF Meeting
<1>12. QED
  BY <1>6, <1>7, <1>9, <1>10, <1>11 DEF IInv

(* Every place in the domain is in an active cell.                         *)
LEMMA CellFacts == \A x \in Positions : x \div CellSize \in ActiveCells
<1>1. ASSUME NEW x \in Positions PROVE x \div CellSize \in ActiveCells
  <2>1. x \in Nat /\ x < NCells * CellSize /\ CellSize \in Nat \ {0} /\ NCells \in Nat
    BY SizeFacts DEF Positions
  <2> DEFINE k == x \div CellSize
  <2>2. k \in Nat /\ k * CellSize <= x
    BY <2>1
  <2> HIDE DEF k
  <2>3. ASSUME k >= NCells PROVE FALSE
    <3>1. PICK d \in Nat : k = NCells + d
      BY <2>1, <2>2, <2>3
    <3>2. k * CellSize = NCells * CellSize + d * CellSize /\ d * CellSize >= 0
      BY <2>1, <3>1
    <3>3. QED
      BY <2>1, <2>2, <3>2
  <2>4. QED
    BY <2>1, <2>2, <2>3 DEF ActiveCells, k
<1>2. QED
  BY <1>1

LEMMA SortIntoCellsStep ==
  ASSUME IInv, SortIntoCells
  PROVE IInv'
<1> USE DEF Sorting, Updating, Working
<1>1. Types /\ Mailed
  BY DEF IInv
<1>2. UNCHANGED <<subdomain, pattern, loc, previous, ghosts, cached, toSend, count, start, mail>>
  BY DEF SortIntoCells
<1>3. All("sort") /\ All("counts")' /\ pc' \in [Ranks -> Places]
  BY DEF SortIntoCells, GoAll, All, Places
<1>4. home' \in [Particles -> ActiveCells]
  BY <1>1, CellFacts DEF SortIntoCells, Types
<1>5. Types'
  BY <1>1, <1>2, <1>3, <1>4 DEF Types
<1>6. \A r \in Ranks : pc'[r] = "counts"
  BY <1>3 DEF All
<1>7. Sync' /\ Kept' /\ Unpacked' /\ Fresh'
  BY <1>6 DEF Sync, Kept, Unpacked, Fresh
<1>8. Mailed' /\ Abreast'
  BY <1>1, <1>2, <1>3, CollectiveMail DEF Meeting
<1>9. QED
  BY <1>5, <1>7, <1>8 DEF IInv

LEMMA CoarsenAndRefineStep ==
  ASSUME IInv, CoarsenAndRefine
  PROVE IInv'
<1> USE DEF Sorting, Updating, Working
<1>1. Types /\ Mailed
  BY DEF IInv
<1>2. UNCHANGED <<loc, home, previous, ghosts, cached, toSend, count, start, mail>>
  BY DEF CoarsenAndRefine
<1>3. All("step") /\ All("sort")' /\ pc' \in [Ranks -> Places]
  BY DEF CoarsenAndRefine, GoAll, All, Places
<1>4. subdomain' \in Partitions /\ pattern' = Pattern(subdomain')
  BY DEF CoarsenAndRefine, PatternAfter
<1>5. Types'
  BY <1>1, <1>2, <1>3, <1>4 DEF Types
<1>6. \A r \in Ranks : pc'[r] = "sort"
  BY <1>3 DEF All
<1>7. Sync' /\ Kept' /\ Unpacked' /\ Fresh'
  BY <1>6 DEF Sync, Kept, Unpacked, Fresh, All
<1>8. Mailed' /\ Abreast'
  BY <1>1, <1>2, <1>3, CollectiveMail DEF Meeting
<1>9. QED
  BY <1>5, <1>7, <1>8 DEF IInv

(* Before the first sorting nothing is known and nothing sent.             *)
LEMMA InvInit == Init => IInv
<1> SUFFICES ASSUME Init PROVE IInv
  OBVIOUS
<1>1. subdomain \in Partitions /\ pattern = Pattern(subdomain)
  BY DEF Init
<1>2. loc \in [Particles -> Positions] /\ previous \in [Particles -> Positions]
  BY ParticleAssumption DEF Init
<1>3. home \in [Particles -> ActiveCells]
  BY <1>2, CellFacts DEF Init
<1>4. /\ ghosts = [r \in Ranks |-> ghosts[r]] /\ cached = [r \in Ranks |-> cached[r]]
      /\ mail = [c \in Channels |-> mail[c]] /\ pc \in [Ranks -> Places]
  BY DEF Init, Places
<1>5. /\ toSend \in [Ranks -> [Ranks -> Seq(Particles)]]
      /\ count \in [Ranks -> [Ranks -> Nat]] /\ start \in [Ranks -> [Ranks -> Nat]]
  BY DEF Init, ToEach
<1>6. Types
  BY <1>1, <1>2, <1>3, <1>4, <1>5 DEF Types
<1>7. \A r \in Ranks : pc[r] = "sort"
  BY DEF Init
<1>8. Sync /\ Kept /\ Unpacked /\ Fresh /\ Abreast
  BY <1>7 DEF Sync, All, Kept, Unpacked, Fresh, Abreast, Sorting, Updating, Working
<1>9. ASSUME NEW q \in Ranks, NEW r \in Ranks PROVE Box0(q, r) /\ Box1(q, r)
  <2>1. mail[To(q, r, 0)] = <<>> /\ mail[To(q, r, 1)] = <<>>
    BY ChannelFacts DEF Init
  <2>2. ~CountsDue(q, r) /\ ~LoadsDue(q, r) /\ ~ParticlesDue(q, r) /\ ~ValuesDue(q, r)
    BY <1>7 DEF CountsDue, LoadsDue, ParticlesDue, ValuesDue, Sorting, Updating, Working
  <2>3. QED
    BY <2>1, <2>2 DEF Box0, Box1
<1>10. QED
  BY <1>6, <1>8, <1>9 DEF IInv, Mailed

(* The invariant only depends on the variables.                            *)
LEMMA InvStutter ==
  ASSUME IInv, UNCHANGED vars
  PROVE IInv'
<1>1. /\ UNCHANGED <<subdomain, pattern, loc, home, previous, load, ghosts, cached, toSend, count,
                     start, mail, pc>>
  BY DEF vars
<1>2. /\ \A q, r \in Ranks : Packed(q, r)' = Packed(q, r) /\ Sends(q, r)' = Sends(q, r)
      /\ \A p : Cache(p)' = Cache(p)
  BY <1>1, PackedStays
<1>3. Types' /\ Sync'
  BY <1>1 DEF IInv, Types, Sync, All
<1>4. Kept' /\ Fresh' /\ Abreast'
  BY <1>1, <1>2 DEF IInv, Kept, Fresh, Abreast
<1>5. Unpacked'
  BY <1>1, UnpackedStays DEF IInv, Unpacked
<1>6. ASSUME NEW q \in Ranks, NEW r \in Ranks PROVE (Box0(q, r) /\ Box1(q, r))'
  <2>1. /\ CountsDue(q, r)' <=> CountsDue(q, r)
        /\ LoadsDue(q, r)' <=> LoadsDue(q, r)
        /\ ParticlesDue(q, r)' <=> ParticlesDue(q, r)
        /\ ValuesDue(q, r)' <=> ValuesDue(q, r)
    BY <1>1, <1>2 DEF CountsDue, LoadsDue, ParticlesDue, ValuesDue
  <2>2. QED
    BY <1>1, <2>1, Box0Stays, Box1Stays DEF IInv, Mailed
<1>7. QED
  BY <1>3, <1>4, <1>5, <1>6 DEF IInv, Mailed

(* Every step keeps the invariant.                                         *)
LEMMA InvStep == IInv /\ [Next]_vars => IInv'
<1> SUFFICES ASSUME IInv, [Next]_vars PROVE IInv'
  OBVIOUS
<1>1. CASE \E r \in Ranks :
             \/ ComputeLoads(r) \/ Compress(r) \/ SendGhostValues(r) \/ TakeGhostValues(r)
             \/ SendCounts(r) \/ SendParticles(r) \/ TakeGhosts(r)
  BY <1>1, ComputeLoadsStep, CompressStep, SendGhostValuesStep, TakeGhostValuesStep, SendCountsStep,
     SendParticlesStep, TakeGhostsStep
<1>2. CASE AdvanceTime
  BY <1>2, AdvanceTimeStep
<1>3. CASE SortIntoCells
  BY <1>3, SortIntoCellsStep
<1>4. CASE CoarsenAndRefine
  BY <1>4, CoarsenAndRefineStep
<1>5. CASE Finished \/ UNCHANGED vars
  BY <1>5, InvStutter DEF Finished
<1>6. QED
  BY <1>1, <1>2, <1>3, <1>4, <1>5 DEF Next

(* A particle in or next to a cache cell of a rank; a rank that has its    *)
(* ghosts.                                                                 *)
Beside(r, p) == Around(Cache(p)) \cap Ancestors(subdomain, r) # {}
Served(r) == pc[r] \in Updating \cup Working

(* The ghosts of a rank are the particles of others beside its cells.      *)
LEMMA GhostIds ==
  ASSUME IInv, NEW r \in Ranks, Served(r)
  PROVE /\ \A h \in DOMAIN ghosts[r] :
             /\ h \in Nat \ {0} /\ ghosts[r][h].id \in Particles \ Own(r) /\ Beside(r, ghosts[r][h].id)
             /\ ghosts[r][h].cell = Cache(ghosts[r][h].id)
        /\ \A p \in Particles \ Own(r) : Beside(r, p) => \E h \in DOMAIN ghosts[r] : ghosts[r][h].id = p
        /\ \A h, k \in DOMAIN ghosts[r] : ghosts[r][h].id = ghosts[r][k].id => h = k
<1>1. Types /\ UnpackedAt(r) /\ \A q \in Ranks : count[r][q] = Len(Packed(q, r))
  BY DEF IInv, Kept, Unpacked, Served
<1>2. ASSUME NEW q \in Ranks, NEW p \in Own(q) PROVE p \in Packable(q, r) <=> q # r /\ Beside(r, p)
  <2>1. Cache(p) \in Ancestors(subdomain, q)
    BY <1>1, OwnFacts
  <2>2. pattern[q][r] = IF q = r THEN {}
          ELSE {k \in Ancestors(subdomain, q) : Around(k) \cap Ancestors(subdomain, r) # {}}
    BY <1>1, PatternFacts
  <2>3. QED
    BY <2>1, <2>2 DEF Packable, Beside
<1>3. ASSUME NEW h \in DOMAIN ghosts[r]
      PROVE \E q \in Ranks : \E i \in 1 .. Len(Packed(q, r)) :
              h = start[r][q] + i /\ ghosts[r][h].id = Packed(q, r)[i] /\ Packed(q, r)[i] \in Packable(q, r)
  <2>1. PICK q \in Ranks : \E i \in 1 .. Len(Packed(q, r)) :
          h = start[r][q] + i /\ ghosts[r][h].id = Packed(q, r)[i]
    <3>1. \A k \in DOMAIN ghosts[r] : \E q \in Ranks : \E i \in 1 .. Len(Packed(q, r)) :
            k = start[r][q] + i /\ ghosts[r][k].id = Packed(q, r)[i] /\ i \in DOMAIN ghosts[r]
      BY <1>1, SlotFacts
    <3>2. QED
      BY <3>1
  <2>2. PICK i \in 1 .. Len(Packed(q, r)) :
          h = start[r][q] + i /\ ghosts[r][h].id = Packed(q, r)[i]
    BY <2>1
  <2>3. Packed(q, r)[i] \in Packable(q, r)
    BY <1>1, PackedFacts
  <2>4. QED
    BY <2>2, <2>3
<1>4. ASSUME NEW h \in DOMAIN ghosts[r]
      PROVE /\ ghosts[r][h].id \in Particles \ Own(r) /\ Beside(r, ghosts[r][h].id)
  <2>1. PICK q \in Ranks : ghosts[r][h].id \in Packable(q, r)
    BY <1>3
  <2>2. ghosts[r][h].id \in Own(q)
    BY <2>1 DEF Packable
  <2>3. q # r /\ Beside(r, ghosts[r][h].id)
    BY <1>2, <2>1, <2>2
  <2>4. QED
    BY <2>2, <2>3 DEF Own
<1>5. ASSUME NEW p \in Particles \ Own(r), Beside(r, p)
      PROVE \E h \in DOMAIN ghosts[r] : ghosts[r][h].id = p
  <2>1. PICK q \in Ranks : p \in Own(q)
    BY <1>1, OwnFacts
  <2>2. p \in Packable(q, r)
    BY <1>2, <1>5, <2>1
  <2>3. PICK i \in 1 .. Len(Packed(q, r)) : Packed(q, r)[i] = p
    BY <1>1, <2>2, PackedFacts
  <2>4. start[r][q] + i \in DOMAIN ghosts[r] /\ ghosts[r][start[r][q] + i].id = p
    <3>1. \A x \in Ranks : \A j \in 1 .. Len(Packed(x, r)) :
            start[r][x] + j \in DOMAIN ghosts[r] /\ ghosts[r][start[r][x] + j].id = Packed(x, r)[j]
      BY <1>1, SlotFacts
    <3>2. QED
      BY <2>3, <3>1
  <2>5. QED
    BY <2>4
<1>6. ASSUME NEW h \in DOMAIN ghosts[r], NEW k \in DOMAIN ghosts[r], ghosts[r][h].id = ghosts[r][k].id
      PROVE h = k
  <2>1. PICK q \in Ranks : \E i \in 1 .. Len(Packed(q, r)) :
          h = start[r][q] + i /\ ghosts[r][h].id = Packed(q, r)[i] /\ Packed(q, r)[i] \in Packable(q, r)
    BY <1>3
  <2>2. PICK i \in 1 .. Len(Packed(q, r)) :
          h = start[r][q] + i /\ ghosts[r][h].id = Packed(q, r)[i] /\ Packed(q, r)[i] \in Packable(q, r)
    BY <2>1
  <2>3. PICK s \in Ranks : \E j \in 1 .. Len(Packed(s, r)) :
          k = start[r][s] + j /\ ghosts[r][k].id = Packed(s, r)[j] /\ Packed(s, r)[j] \in Packable(s, r)
    BY <1>3
  <2>4. PICK j \in 1 .. Len(Packed(s, r)) :
          k = start[r][s] + j /\ ghosts[r][k].id = Packed(s, r)[j] /\ Packed(s, r)[j] \in Packable(s, r)
    BY <2>3
  <2>5. q = s
    BY <1>6, <2>2, <2>4 DEF Packable, Own
  <2>6. i = j
    BY <1>1, <1>6, <2>2, <2>4, <2>5, PackedFacts
  <2>7. QED
    BY <2>2, <2>4, <2>5, <2>6
<1>7. ASSUME NEW h \in DOMAIN ghosts[r] PROVE h \in Nat \ {0} /\ ghosts[r][h].cell = Cache(ghosts[r][h].id)
  BY <1>1 DEF UnpackedAt
<1>8. QED
  BY <1>4, <1>5, <1>6, <1>7

(* The invariant says what the property asks.                              *)
LEMMA GhostsFollow == IInv => GhostsCurrent
<1> SUFFICES ASSUME IInv, NEW r \in Ranks, pc[r] = "step"
             PROVE /\ {ghosts[r][i].id : i \in DOMAIN ghosts[r]} =
                        {p \in Particles \ Own(r) : Around(Cache(p)) \cap Ancestors(subdomain, r) # {}}
                   /\ \A i, j \in DOMAIN ghosts[r] : ghosts[r][i].id = ghosts[r][j].id => i = j
                   /\ \A i \in DOMAIN ghosts[r] :
                        /\ ghosts[r][i].loc = loc[ghosts[r][i].id]
                        /\ ghosts[r][i].cell = Cache(ghosts[r][i].id)
  BY DEF GhostsCurrent
<1>1. Served(r) /\ \A h \in DOMAIN ghosts[r] : ghosts[r][h].loc = loc[ghosts[r][h].id]
  BY DEF IInv, Fresh, Working, Served
<1>2. /\ \A h \in DOMAIN ghosts[r] :
           /\ ghosts[r][h].id \in Particles \ Own(r) /\ Beside(r, ghosts[r][h].id)
           /\ ghosts[r][h].cell = Cache(ghosts[r][h].id)
      /\ \A p \in Particles \ Own(r) : Beside(r, p) => \E h \in DOMAIN ghosts[r] : ghosts[r][h].id = p
      /\ \A h, k \in DOMAIN ghosts[r] : ghosts[r][h].id = ghosts[r][k].id => h = k
  BY <1>1, GhostIds
<1>3. {ghosts[r][i].id : i \in DOMAIN ghosts[r]} =
        {p \in Particles \ Own(r) : Around(Cache(p)) \cap Ancestors(subdomain, r) # {}}
  BY <1>2 DEF Beside
<1>4. QED
  BY <1>1, <1>2, <1>3

(* When a rank begins a time step, its ghosts are exactly the particles of *)
(* other ranks around its cells, each once and with its present location   *)
(* and cell (update_ghost_particle_properties, sort_particles_into_...).   *)
THEOREM GhostsAreCurrent == Spec => []GhostsCurrent
<1>1. Init => IInv
  BY InvInit
<1>2. IInv /\ [Next]_vars => IInv'
  BY InvStep
<1>3. IInv => GhostsCurrent
  BY GhostsFollow
<1>4. QED
  BY <1>1, <1>2, <1>3, PTL DEF Spec

-----------------------------------------------------------------------------
(* The search among the neighbours                                         *)

(* The length of a cache cell.                                             *)
Width == Children * CellSize

(* A cache cell is wider than a particle, with a fifth to spare.           *)
LEMMA WidthFacts ==
  /\ Width \in Nat /\ Width > 0 /\ Diameter \in Nat /\ Diameter > 0 /\ 12 * Diameter <= 10 * Width
  /\ SkinThickness = Width - Diameter /\ SkinThickness \in Int
<1>1. Width \in Nat /\ Width > 0
  BY SizeFacts DEF Width
<1>2. 12 * Diameter <= 10 * Width
  <2>1. 10 * Children * CellSize = 10 * (Children * CellSize)
    BY SizeFacts
  <2>2. QED
    BY <2>1, SizeFacts DEF Width
<1>3. SkinThickness = Width - Diameter
  BY DEF SkinThickness, Width
<1>4. QED
  BY <1>1, <1>2, <1>3, SizeFacts

(* Where a cell and a location lie in their cache cell.                    *)
LEMMA CellInCache ==
  ASSUME NEW c \in ActiveCells
  PROVE LET k == find_particle_cache_cell(c)
        IN /\ k \in Nat /\ c \in Nat /\ k * Width \in Nat /\ c * CellSize \in Nat
           /\ k * Width <= c * CellSize /\ c * CellSize + CellSize <= k * Width + Width
<1> DEFINE k == find_particle_cache_cell(c)
<1>1. c \in Nat /\ k = c \div Children
  BY SizeFacts DEF ActiveCells, find_particle_cache_cell
<1>2. k \in Nat /\ k * Children <= c /\ c + 1 <= k * Children + Children
  BY <1>1, SizeFacts
<1> HIDE DEF k
<1>3. PICK d \in Nat, e \in Nat : c = k * Children + d /\ k * Children + Children = c + 1 + e
  <2>1. c - k * Children \in Nat /\ k * Children + Children - (c + 1) \in Nat
    BY <1>1, <1>2, SizeFacts
  <2>2. c = k * Children + (c - k * Children)
        /\ k * Children + Children = c + 1 + (k * Children + Children - (c + 1))
    BY <1>1, <1>2, SizeFacts
  <2>3. QED
    BY <2>1, <2>2
<1>4. c * CellSize = (k * Children) * CellSize + d * CellSize /\ d * CellSize \in Nat
  BY <1>1, <1>2, <1>3, SizeFacts
<1>5. (k * Children + Children) * CellSize = c * CellSize + CellSize + e * CellSize /\ e * CellSize \in Nat
  BY <1>1, <1>2, <1>3, SizeFacts
<1>6. /\ (k * Children) * CellSize = k * Width /\ k * Width \in Nat /\ Width \in Nat
      /\ (k * Children + Children) * CellSize = k * Width + Width
  BY <1>2, SizeFacts DEF Width
<1>7. c * CellSize \in Nat /\ CellSize \in Nat
  BY <1>1, SizeFacts
<1>8. k * Width <= c * CellSize
  BY <1>4, <1>6, <1>7
<1>9. c * CellSize + CellSize <= k * Width + Width
  BY <1>5, <1>6, <1>7
<1>10. QED
  BY <1>1, <1>2, <1>6, <1>7, <1>8, <1>9 DEF k

(* A place is within the bounds of its cache cell.                         *)
LEMMA PlaceInCache ==
  ASSUME NEW x \in Positions
  PROVE LET k == find_particle_cache_cell(x \div CellSize)
        IN k \in Nat /\ x \in Nat /\ k * Width \in Nat /\ k * Width <= x /\ x < k * Width + Width
<1> DEFINE c == x \div CellSize
           k == find_particle_cache_cell(c)
<1>1. x \in Nat
  BY SizeFacts DEF Positions
<1>2. c \in ActiveCells /\ c * CellSize <= x /\ x < c * CellSize + CellSize
  BY <1>1, CellFacts, SizeFacts
<1> HIDE DEF c
<1>3. /\ k \in Nat /\ k * Width \in Nat /\ c * CellSize \in Nat
      /\ k * Width <= c * CellSize /\ c * CellSize + CellSize <= k * Width + Width
  BY <1>2, CellInCache
<1> HIDE DEF k
<1>4. k * Width <= x /\ x < k * Width + Width
  BY <1>1, <1>2, <1>3, WidthFacts, SizeFacts
<1>5. QED
  BY <1>1, <1>3, <1>4 DEF c, k

(* Cache cells that are not adjacent.                                      *)
LEMMA CachesApart ==
  ASSUME NEW k \in Nat, NEW l \in Nat, k + 2 <= l
  PROVE k * Width + 2 * Width <= l * Width /\ k * Width \in Nat /\ l * Width \in Nat
<1>1. PICK d \in Nat : l = k + 2 + d
  <2>1. l - k - 2 \in Nat /\ l = k + 2 + (l - k - 2)
    OBVIOUS
  <2>2. QED
    BY <2>1
<1>2. l * Width = k * Width + 2 * Width + d * Width /\ d * Width \in Nat /\ k * Width \in Nat
  BY <1>1, WidthFacts
<1>3. QED
  BY <1>2, WidthFacts

(* Particles that have not come closer than the skin to each other touch   *)
(* only in adjacent cache cells.                                           *)
LEMMA TouchNear ==
  ASSUME NEW a \in Positions, NEW b \in Positions, NEW x \in Positions, NEW y \in Positions,
         Abs(x - a) + Abs(y - b) <= SkinThickness, Touch(x, y)
  PROVE Abs(find_particle_cache_cell(a \div CellSize) - find_particle_cache_cell(b \div CellSize)) <= 1
<1> DEFINE k == find_particle_cache_cell(a \div CellSize)
           l == find_particle_cache_cell(b \div CellSize)
<1>1. k \in Nat /\ a \in Nat /\ k * Width \in Nat /\ k * Width <= a /\ a < k * Width + Width
  BY PlaceInCache
<1>2. l \in Nat /\ b \in Nat /\ l * Width \in Nat /\ l * Width <= b /\ b < l * Width + Width
  BY PlaceInCache
<1>3. x \in Nat /\ y \in Nat
  BY PlaceInCache
<1> HIDE DEF k, l
<1>4. Abs(x - a) + Abs(y - b) <= Width - Diameter /\ Abs(x - y) < Diameter
  BY WidthFacts DEF Touch
<1>5. ASSUME k + 2 <= l PROVE FALSE
  <2>1. k * Width + 2 * Width <= l * Width
    BY <1>1, <1>2, <1>5, CachesApart
  <2>2. QED
    BY <1>1, <1>2, <1>3, <1>4, <2>1, WidthFacts DEF Abs
<1>6. ASSUME l + 2 <= k PROVE FALSE
  <2>1. l * Width + 2 * Width <= k * Width
    BY <1>1, <1>2, <1>6, CachesApart
  <2>2. QED
    BY <1>1, <1>2, <1>3, <1>4, <2>1, WidthFacts DEF Abs
<1>7. QED
  BY <1>1, <1>2, <1>5, <1>6 DEF Abs, k, l

(* The greatest of bounded numbers.                                        *)
LEMMA GreatestNat ==
  ASSUME NEW S \in SUBSET Nat, S # {}, NEW B \in Nat, \A s \in S : s <= B
  PROVE Max(S) \in S /\ \A s \in S : s <= Max(S)
<1>1. \E m \in S : \A s \in S : m >= s
  <2> DEFINE T == {B - s : s \in S}
  <2>1. \A s \in S : B - s \in Nat
    OBVIOUS
  <2>2. T \in SUBSET Nat /\ T # {}
    BY <2>1
  <2>3. PICK t \in T : \A u \in T : t <= u
    BY <2>2, LeastNat
  <2>4. PICK m \in S : t = B - m
    BY <2>3
  <2>5. \A s \in S : B - m <= B - s
    BY <2>3, <2>4
  <2>6. QED
    BY <2>5
<1>2. Max(S) \in S /\ \A s \in S : Max(S) >= s
  BY <1>1 DEF Max
<1>3. QED
  BY <1>2

(* A cell with a point in a particle is next to the particle's cache cell. *)
LEMMA OverlapNear ==
  ASSUME NEW a \in Positions, NEW x \in Positions, Abs(x - a) <= SkinThickness, NEW c \in Overlapped(x)
  PROVE Abs(find_particle_cache_cell(c) - find_particle_cache_cell(a \div CellSize)) <= 1
<1> DEFINE k == find_particle_cache_cell(a \div CellSize)
           l == find_particle_cache_cell(c)
           S == {c * CellSize - x, x - (c + 1) * CellSize, 0}
<1>1. k \in Nat /\ a \in Nat /\ k * Width \in Nat /\ k * Width <= a /\ a < k * Width + Width
  BY PlaceInCache
<1>2. c \in ActiveCells
  BY DEF Overlapped
<1>3. /\ l \in Nat /\ c \in Nat /\ l * Width \in Nat /\ c * CellSize \in Nat
      /\ l * Width <= c * CellSize /\ c * CellSize + CellSize <= l * Width + Width
  BY <1>2, CellInCache
<1>4. x \in Nat /\ CellSize \in Nat /\ (c + 1) * CellSize = c * CellSize + CellSize
  BY <1>3, PlaceInCache, SizeFacts
<1>5. 2 * Max(S) < Diameter
  BY DEF Overlapped
<1> HIDE DEF k, l
<1>6. \E m \in S : \A s \in S : m >= s
  BY <1>3, <1>4
<1>7. Max(S) \in S /\ \A s \in S : Max(S) >= s
  BY <1>6 DEF Max
<1>8. 2 * (c * CellSize - x) < Diameter /\ 2 * (x - (c * CellSize + CellSize)) < Diameter
  <2> DEFINE m == Max(S)
  <2>1. m >= c * CellSize - x /\ m >= x - (c * CellSize + CellSize) /\ m \in Int
    BY <1>3, <1>4, <1>7
  <2>2. 2 * m < Diameter
    BY <1>5
  <2> HIDE DEF m
  <2>3. QED
    BY <1>3, <1>4, <2>1, <2>2, WidthFacts
<1>9. Abs(x - a) <= Width - Diameter
  BY WidthFacts
<1>10. ASSUME k + 2 <= l PROVE FALSE
  <2>1. k * Width + 2 * Width <= l * Width
    BY <1>1, <1>3, <1>10, CachesApart
  <2>2. QED
    BY <1>1, <1>3, <1>4, <1>8, <1>9, <2>1, WidthFacts DEF Abs
<1>11. ASSUME l + 2 <= k PROVE FALSE
  <2>1. l * Width + 2 * Width <= k * Width
    BY <1>1, <1>3, <1>11, CachesApart
  <2>2. QED
    BY <1>1, <1>3, <1>4, <1>8, <1>9, <2>1, WidthFacts DEF Abs
<1>12. QED
  BY <1>1, <1>3, <1>10, <1>11 DEF Abs, k, l

(* The largest displacement of a set of particles.                         *)
LEMMA LargestFacts ==
  ASSUME Types, NEW x \in [Particles -> Positions], NEW S \in SUBSET Particles
  PROVE /\ Largest(x, S) \in Nat
        /\ \A p \in S : Displacement(x, p) \in Nat /\ Displacement(x, p) <= Largest(x, S)
        /\ S # {} => \E p \in S : Displacement(x, p) = Largest(x, S)
<1> DEFINE D == {0} \cup {Displacement(x, p) : p \in S}
           B == NCells * CellSize
<1>1. B \in Nat /\ \A y \in Positions : y \in Nat /\ y <= B
  BY SizeFacts DEF Positions
<1> HIDE DEF B
<1>2. ASSUME NEW p \in S PROVE Displacement(x, p) \in Nat /\ Displacement(x, p) <= B
  <2>1. x[p] \in Positions /\ previous[p] \in Positions
    BY DEF Types
  <2>2. QED
    BY <1>1, <2>1 DEF Displacement, Abs
<1>3. D \in SUBSET Nat /\ D # {} /\ \A d \in D : d <= B
  BY <1>1, <1>2
<1>4. Max(D) \in D /\ \A d \in D : d <= Max(D)
  BY <1>1, <1>3, GreatestNat
<1>5. Largest(x, S) = Max(D)
  BY DEF Largest
<1>6. ASSUME S # {} PROVE \E p \in S : Displacement(x, p) = Max(D)
  <2>1. CASE Max(D) = 0
    <3>1. PICK p \in S : TRUE
      BY <1>6
    <3>2. Displacement(x, p) \in Nat /\ Displacement(x, p) <= 0
      BY <1>2, <1>4, <2>1
    <3>3. Displacement(x, p) = Max(D)
      BY <2>1, <3>2
    <3>4. QED
      BY <3>3
  <2>2. CASE Max(D) # 0
    BY <1>4, <2>2
  <2>3. QED
    BY <2>1, <2>2
<1>7. QED
  BY <1>2, <1>3, <1>4, <1>5, <1>6

(* Of two own particles one moved no farther than the partner says.        *)
LEMMA PartnerFacts ==
  ASSUME Types, NEW x \in [Particles -> Positions], NEW r \in Ranks
  PROVE /\ Partner(x, r) \in Nat
        /\ \A p \in Own(r) : Largest(x, Own(r)) # Largest(x, Particles) =>
             Displacement(x, p) <= Partner(x, r)
        /\ \A p, q \in Own(r) : p # q =>
             Displacement(x, p) <= Partner(x, r) \/ Displacement(x, q) <= Partner(x, r)
<1> DEFINE w == CHOOSE p \in Own(r) : Displacement(x, p) = Largest(x, Own(r))
           O == Own(r) \ {w}
<1>1. Own(r) \in SUBSET Particles /\ O \in SUBSET Particles
  BY DEF Own
<1>2. Partner(x, r) = IF Own(r) # {} /\ Largest(x, Own(r)) = Largest(x, Particles) THEN Largest(x, O)
                     ELSE Largest(x, Own(r))
  BY DEF Partner, Second
<1>3. Largest(x, Own(r)) \in Nat /\ \A p \in Own(r) : Displacement(x, p) <= Largest(x, Own(r))
  BY <1>1, LargestFacts
<1>4. Largest(x, O) \in Nat /\ \A p \in Own(r) : p # w => Displacement(x, p) <= Largest(x, O)
  <2>1. Largest(x, O) \in Nat /\ \A p \in O : Displacement(x, p) <= Largest(x, O)
    BY <1>1, LargestFacts
  <2>2. QED
    BY <2>1
<1> HIDE DEF w, O
<1>5. QED
  BY <1>2, <1>3, <1>4

(* What update_required() has looked at bounds the way of every particle   *)
(* and, without a tie, the ways of any two.                                *)
LEMMA MovesBounded ==
  ASSUME Types, NEW x \in [Particles -> Positions], ~UpdateRequired(x), NEW p \in Particles
  PROVE /\ Displacement(x, p) <= SkinThickness
        /\ ~Tie(x) => \A q \in Particles \ {p} :
                        Displacement(x, p) + Displacement(x, q) <= SkinThickness
<1> DEFINE L == Largest(x, Particles)
<1>1. L \in Nat /\ \A q \in Particles : Displacement(x, q) \in Nat /\ Displacement(x, q) <= L
  BY LargestFacts
<1>2. \A r \in Ranks : Partner(x, r) \in Nat /\ L + Partner(x, r) <= SkinThickness
  <2>1. \A r \in Ranks : Partner(x, r) \in Nat /\ ~(L + Partner(x, r) > SkinThickness)
    BY PartnerFacts DEF UpdateRequired
  <2>2. QED
    BY <1>1, <2>1, WidthFacts
<1>3. ASSUME NEW q \in Particles
      PROVE subdomain[home[q]] \in Ranks /\ q \in Own(subdomain[home[q]])
  BY OwnFacts
<1>4. Displacement(x, p) <= SkinThickness
  <2>1. PICK r \in Ranks : p \in Own(r)
    BY <1>3
  <2> HIDE DEF L
  <2>2. QED
    BY <1>1, <1>2, WidthFacts
<1>5. ASSUME ~Tie(x), NEW q \in Particles, q # p
      PROVE Displacement(x, p) + Displacement(x, q) <= SkinThickness
  <2> DEFINE a == subdomain[home[p]]
             b == subdomain[home[q]]
             H == {r \in Ranks : \E o \in Own(r) : Displacement(x, o) = L}
  <2>1. a \in Ranks /\ p \in Own(a) /\ b \in Ranks /\ q \in Own(b)
    BY <1>3
  <2> HIDE DEF a, b
  <2>2. ASSUME NEW r \in Ranks, r \notin H, Own(r) # {} PROVE Largest(x, Own(r)) # L
    <3>1. PICK o \in Own(r) : Displacement(x, o) = Largest(x, Own(r))
      <4>1. Own(r) \in SUBSET Particles
        BY DEF Own
      <4>2. QED
        BY <2>2, <4>1, LargestFacts
    <3>2. QED
      BY <2>2, <3>1
  <2>3. ASSUME a # b PROVE a \notin H \/ b \notin H
    <3>1. IsFiniteSet(H)
      BY RanksFacts, FS_Subset
    <3>2. ~(Cardinality(H) > 1)
      BY <1>5 DEF Tie
    <3> HIDE DEF H
    <3>3. ASSUME a \in H, b \in H PROVE FALSE
      <4>1. {a, b} \subseteq H
        BY <3>3
      <4>2. Cardinality({a, b}) <= Cardinality(H) /\ Cardinality(H) \in Nat
        BY <3>1, <4>1, FS_Subset, FS_CardinalityType
      <4>3. Cardinality({a, b}) = 2
        <5>1. IsFiniteSet({b}) /\ Cardinality({b}) = 1
          BY FS_Singleton
        <5>2. {a, b} = {b} \cup {a}
          OBVIOUS
        <5>3. Cardinality({b} \cup {a}) = IF a \in {b} THEN Cardinality({b}) ELSE Cardinality({b}) + 1
          BY <5>1, FS_AddElement
        <5>4. QED
          BY <2>3, <5>1, <5>2, <5>3
      <4>4. QED
        BY <3>2, <4>2, <4>3
    <3>4. QED
      BY <3>3
  <2>4. \E r \in Ranks : Displacement(x, p) <= Partner(x, r) \/ Displacement(x, q) <= Partner(x, r)
    <3>1. CASE a = b
      BY <1>5, <2>1, <3>1, PartnerFacts
    <3>2. CASE a # b /\ a \notin H
      <4>1. Largest(x, Own(a)) # L
        BY <2>1, <2>2, <3>2
      <4>2. QED
        BY <2>1, <4>1, PartnerFacts
    <3>3. CASE a # b /\ b \notin H
      <4>1. Largest(x, Own(b)) # L
        BY <2>1, <2>2, <3>3
      <4>2. QED
        BY <2>1, <4>1, PartnerFacts
    <3>4. QED
      BY <2>3, <3>1, <3>2, <3>3
  <2>5. PICK r \in Ranks : Displacement(x, p) <= Partner(x, r) \/ Displacement(x, q) <= Partner(x, r)
    BY <2>4
  <2> HIDE DEF L
  <2>6. QED
    BY <1>1, <1>2, <2>5, WidthFacts
<1>6. QED
  BY <1>4, <1>5

(* What a rank keeps in cell_batch_to_particle_cache: everything it sees.  *)
Accessors(r) ==
  {[id |-> p, handle |-> 0] : p \in Own(r)}
    \cup {[id |-> ghosts[r][h].id, handle |-> h] : h \in DOMAIN ghosts[r]}

Listed == \A r \in Ranks : Served(r) => cached[r] = Accessors(r)

(* Own particles are where they were sorted, or the tracker knows where    *)
(* they were then.                                                         *)
Placed ==
  \A p \in Particles :
    LET place == pc[subdomain[home[p]]]
    IN /\ place \in Sorting => home[p] = loc[p] \div CellSize
       /\ place \in Updating \cup Working => home[p] = previous[p] \div CellSize

(* Touching particles were sorted into adjacent cache cells, and a         *)
(* particle into one adjacent to all it overlaps; ties spoil the first.    *)
Close ==
  \A p, q \in Particles : p # q /\ Touch(loc[p], loc[q]) => Abs(Cache(p) - Cache(q)) <= 1
Reached ==
  \A p \in Particles : \A c \in Overlapped(loc[p]) : Abs(find_particle_cache_cell(c) - Cache(p)) <= 1

Near == ~All("sort") => (tied \/ Close) /\ Reached

NInv == Listed /\ Placed /\ Near

(* The accessors a rank hands out.                                         *)
LEMMA SeesFacts ==
  ASSUME IInv, NEW r \in Ranks, Served(r)
  PROVE /\ \A p \in Own(r) : [id |-> p, handle |-> 0, cell |-> Cache(p), loc |-> loc[p]] \in Visible(r)
        /\ \A h \in DOMAIN ghosts[r] :
             [id |-> ghosts[r][h].id, handle |-> h, cell |-> Cache(ghosts[r][h].id),
              loc |-> ghosts[r][h].loc] \in Visible(r)
        /\ \A v \in Visible(r) :
             /\ v.id \in Particles /\ v.cell = Cache(v.id) /\ ListedFor(r, v) # {}
             /\ \/ v.id \in Own(r) /\ v = [id |-> v.id, handle |-> 0, cell |-> v.cell, loc |-> loc[v.id]]
                \/ /\ v.handle \in DOMAIN ghosts[r] /\ v.id = ghosts[r][v.handle].id
                   /\ v = [id |-> v.id, handle |-> v.handle, cell |-> v.cell,
                           loc |-> ghosts[r][v.handle].loc]
<1>1. Types
  BY DEF IInv
<1>2. ASSUME NEW h \in DOMAIN ghosts[r]
      PROVE /\ ghosts[r][h].id \in Particles /\ Beside(r, ghosts[r][h].id)
            /\ ghosts[r][h].cell = Cache(ghosts[r][h].id)
  BY GhostIds
<1>3. ASSUME NEW v \in Visible(r), v.cell \in CacheCells,
             Around(v.cell) \cap Ancestors(subdomain, r) # {}
      PROVE ListedFor(r, v) # {}
  <2>1. PICK j \in Around(v.cell) : j \in Ancestors(subdomain, r)
    BY <1>3
  <2>2. PICK c \in ActiveCells : subdomain[c] = r /\ j = find_particle_cache_cell(c)
    BY <2>1 DEF Ancestors
  <2>3. v.cell \in Around(j)
    BY <1>3, <2>1, CacheFacts
  <2>4. c \in ListedFor(r, v)
    BY <2>2, <2>3 DEF ListedFor, OwnCells, find_relevant_particles
  <2>5. QED
    BY <2>4
<1>4. ASSUME NEW v \in Visible(r), NEW p \in Own(r),
             v = [id |-> p, handle |-> 0, cell |-> find_particle_cache_cell(home[p]), loc |-> loc[p]]
      PROVE /\ v.id = p /\ p \in Particles /\ v.cell = Cache(p) /\ ListedFor(r, v) # {}
            /\ v = [id |-> v.id, handle |-> 0, cell |-> v.cell, loc |-> loc[v.id]]
  <2>1. v.id = p /\ v.cell = Cache(p) /\ v = [id |-> v.id, handle |-> 0, cell |-> v.cell, loc |-> loc[v.id]]
    BY <1>4 DEF Cache
  <2>2. p \in Particles /\ Cache(p) \in CacheCells /\ Cache(p) \in Ancestors(subdomain, r)
    BY <1>1, OwnFacts
  <2>3. Cache(p) \in Around(Cache(p))
    BY <2>2, CacheFacts
  <2>4. Around(v.cell) \cap Ancestors(subdomain, r) # {}
    BY <2>1, <2>2, <2>3
  <2>5. ListedFor(r, v) # {}
    BY <1>3, <2>1, <2>2, <2>4
  <2>6. QED
    BY <2>1, <2>2, <2>5
<1>5. ASSUME NEW v \in Visible(r), NEW h \in DOMAIN ghosts[r],
             v = [id |-> ghosts[r][h].id, handle |-> h, cell |-> ghosts[r][h].cell, loc |-> ghosts[r][h].loc]
      PROVE /\ v.id = ghosts[r][h].id /\ v.handle = h /\ v.id \in Particles /\ v.cell = Cache(v.id)
            /\ ListedFor(r, v) # {}
            /\ v = [id |-> v.id, handle |-> v.handle, cell |-> v.cell, loc |-> ghosts[r][v.handle].loc]
  <2>1. /\ v.id = ghosts[r][h].id /\ v.handle = h /\ v.cell = ghosts[r][h].cell
        /\ v = [id |-> v.id, handle |-> v.handle, cell |-> v.cell, loc |-> ghosts[r][v.handle].loc]
    BY <1>5
  <2>2. v.id \in Particles /\ v.cell = Cache(v.id) /\ Beside(r, v.id)
    BY <1>2, <2>1
  <2>3. v.cell \in CacheCells
    BY <1>1, <2>2, OwnFacts
  <2>4. ListedFor(r, v) # {}
    BY <1>3, <2>2, <2>3 DEF Beside
  <2>5. QED
    BY <2>1, <2>2, <2>4
<1>6. ASSUME NEW v \in Visible(r)
      PROVE \/ \E p \in Own(r) :
                 v = [id |-> p, handle |-> 0, cell |-> find_particle_cache_cell(home[p]), loc |-> loc[p]]
            \/ \E h \in DOMAIN ghosts[r] :
                 v = [id |-> ghosts[r][h].id, handle |-> h, cell |-> ghosts[r][h].cell,
                      loc |-> ghosts[r][h].loc]
  BY DEF Visible
<1>7. \A p \in Own(r) : [id |-> p, handle |-> 0, cell |-> Cache(p), loc |-> loc[p]] \in Visible(r)
  BY DEF Visible, Cache
<1>8. \A h \in DOMAIN ghosts[r] :
        [id |-> ghosts[r][h].id, handle |-> h, cell |-> Cache(ghosts[r][h].id),
         loc |-> ghosts[r][h].loc] \in Visible(r)
  BY <1>2 DEF Visible
<1>9. ASSUME NEW v \in Visible(r)
      PROVE /\ v.id \in Particles /\ v.cell = Cache(v.id) /\ ListedFor(r, v) # {}
            /\ \/ v.id \in Own(r) /\ v = [id |-> v.id, handle |-> 0, cell |-> v.cell, loc |-> loc[v.id]]
               \/ /\ v.handle \in DOMAIN ghosts[r] /\ v.id = ghosts[r][v.handle].id
                  /\ v = [id |-> v.id, handle |-> v.handle, cell |-> v.cell,
                          loc |-> ghosts[r][v.handle].loc]
  <2>1. CASE \E p \in Own(r) :
               v = [id |-> p, handle |-> 0, cell |-> find_particle_cache_cell(home[p]), loc |-> loc[p]]
    <3>1. PICK p \in Own(r) :
               v = [id |-> p, handle |-> 0, cell |-> find_particle_cache_cell(home[p]), loc |-> loc[p]]
      BY <2>1
    <3>2. QED
      BY <1>4, <3>1
  <2>2. CASE \E h \in DOMAIN ghosts[r] :
               v = [id |-> ghosts[r][h].id, handle |-> h, cell |-> ghosts[r][h].cell,
                    loc |-> ghosts[r][h].loc]
    <3>1. PICK h \in DOMAIN ghosts[r] :
               v = [id |-> ghosts[r][h].id, handle |-> h, cell |-> ghosts[r][h].cell,
                    loc |-> ghosts[r][h].loc]
      BY <2>2
    <3>2. QED
      BY <1>5, <3>1
  <2>3. QED
    BY <1>6, <2>1, <2>2
<1>10. QED
  BY <1>7, <1>8, <1>9

AllListed == \A r \in Ranks : Served(r) => Relevant(r) = Accessors(r)

(* What a batch lists is what the rank sees: every ghost is beside a cell. *)
LEMMA ListedNow == IInv => AllListed
<1> SUFFICES ASSUME IInv, NEW r \in Ranks, Served(r) PROVE Relevant(r) = Accessors(r)
  BY DEF AllListed
<1>1. ASSUME NEW v \in Visible(r) PROVE [id |-> v.id, handle |-> v.handle] \in Accessors(r)
  <2>1. CASE v.id \in Own(r) /\ v = [id |-> v.id, handle |-> 0, cell |-> v.cell, loc |-> loc[v.id]]
    <3>1. v.handle = 0
      BY <2>1
    <3>2. QED
      BY <2>1, <3>1 DEF Accessors
  <2>2. CASE v.handle \in DOMAIN ghosts[r] /\ v.id = ghosts[r][v.handle].id
    BY <2>2 DEF Accessors
  <2>3. QED
    BY <2>1, <2>2, SeesFacts
<1>2. ASSUME NEW a \in Accessors(r) PROVE a \in Relevant(r)
  <2>1. \E v \in Visible(r) : a = [id |-> v.id, handle |-> v.handle]
    <3>1. CASE \E p \in Own(r) : a = [id |-> p, handle |-> 0]
      <4>1. PICK p \in Own(r) : a = [id |-> p, handle |-> 0]
        BY <3>1
      <4> DEFINE v == [id |-> p, handle |-> 0, cell |-> Cache(p), loc |-> loc[p]]
      <4>2. v \in Visible(r) /\ a = [id |-> v.id, handle |-> v.handle]
        BY <4>1, SeesFacts
      <4>3. QED
        BY <4>2
    <3>2. CASE \E h \in DOMAIN ghosts[r] : a = [id |-> ghosts[r][h].id, handle |-> h]
      <4>1. PICK h \in DOMAIN ghosts[r] : a = [id |-> ghosts[r][h].id, handle |-> h]
        BY <3>2
      <4> DEFINE v == [id |-> ghosts[r][h].id, handle |-> h, cell |-> Cache(ghosts[r][h].id),
                       loc |-> ghosts[r][h].loc]
      <4>2. v \in Visible(r) /\ a = [id |-> v.id, handle |-> v.handle]
        BY <4>1, SeesFacts
      <4>3. QED
        BY <4>2
    <3>3. QED
      BY <3>1, <3>2 DEF Accessors
  <2>2. PICK v \in Visible(r) : a = [id |-> v.id, handle |-> v.handle]
    BY <2>1
  <2>3. ListedFor(r, v) # {}
    BY SeesFacts
  <2>4. QED
    BY <2>2, <2>3 DEF Relevant
<1>3. QED
  BY <1>1, <1>2 DEF Relevant

(* The same after a step.                                                  *)
LEMMA ListedNext == IInv' => AllListed'
BY ListedNow, PTL

(* The steps between two collective ones leave alone where the particles   *)
(* are and how they were sorted.                                           *)
LEMMA PlacesStay ==
  ASSUME Types, Placed, Near, UNCHANGED <<subdomain, loc, home, previous, tied>>,
         \A q \in Ranks :
           /\ pc'[q] \in Sorting => pc[q] \in Sorting
           /\ pc'[q] \in Updating \cup Working => pc[q] \in Updating \cup Working
           /\ pc[q] = "sort" => pc'[q] = "sort"
  PROVE Placed' /\ Near'
<1>1. \A p \in Particles : subdomain[home[p]] \in Ranks
  BY OwnFacts
<1>2. Placed'
  BY <1>1 DEF Placed
<1>3. Close' <=> Close
  BY DEF Close, Cache
<1>4. Reached' <=> Reached
  BY DEF Reached, Cache
<1>5. All("sort") => All("sort")'
  BY DEF All
<1>6. QED
  BY <1>2, <1>3, <1>4, <1>5 DEF Near

(* The cache stays right as long as the handles do.                        *)
LEMMA ListedStays ==
  ASSUME Listed, UNCHANGED <<subdomain, home, cached>>,
         \A r \in Ranks : Served(r)' =>
           /\ Served(r) /\ DOMAIN ghosts'[r] = DOMAIN ghosts[r]
           /\ \A h \in DOMAIN ghosts[r] : ghosts'[r][h].id = ghosts[r][h].id
  PROVE Listed'
<1>1. ASSUME NEW r \in Ranks, Served(r)' PROVE cached'[r] = Accessors(r)'
  <2>1. Own(r)' = Own(r)
    BY DEF Own
  <2>2. Accessors(r)' = Accessors(r)
    BY <1>1, <2>1 DEF Accessors
  <2>3. QED
    BY <1>1, <2>2 DEF Listed
<1>2. QED
  BY <1>1 DEF Listed

(* The steps that write ghosts leave their identifiers alone.              *)
LEMMA IdsStay ==
  ASSUME IInv, NEW r \in Ranks, ComputeLoads(r) \/ TakeGhostValues(r)
  PROVE \A s \in Ranks : /\ DOMAIN ghosts'[s] = DOMAIN ghosts[s]
                         /\ \A h \in DOMAIN ghosts[s] : ghosts'[s][h].id = ghosts[s][h].id
<1>1. ghosts = [s \in Ranks |-> ghosts[s]] /\ \A h \in DOMAIN ghosts[r] : Shaped(ghosts[r][h])
  <2>1. pc[r] \in {"step", "refresh"}
    BY DEF ComputeLoads, TakeGhostValues, Go
  <2>2. QED
    BY <2>1 DEF IInv, Types, Unpacked, UnpackedAt, Updating, Working
<1>2. \A g, l, m : Shaped(g) => [g EXCEPT !.load = m].id = g.id /\ [g EXCEPT !.loc = l, !.load = m].id = g.id
  <2>1. SUFFICES ASSUME NEW g, NEW l, NEW m, Shaped(g)
                 PROVE [g EXCEPT !.load = m].id = g.id /\ [g EXCEPT !.loc = l, !.load = m].id = g.id
    OBVIOUS
  <2>2. \A a, b, c, d : /\ [[id |-> a, cell |-> b, loc |-> c, load |-> d] EXCEPT !.load = m].id = a
                        /\ [[id |-> a, cell |-> b, loc |-> c, load |-> d] EXCEPT !.loc = l, !.load = m].id = a
    OBVIOUS
  <2>3. QED
    BY <2>1, <2>2 DEF Shaped
<1>3. CASE ComputeLoads(r)
  <2> DEFINE found == [i \in DOMAIN ghosts[r] |->
                        GhostReset(ghosts[r][i].load) (+) FluidLoad(r, GhostView(r, i))]
  <2>1. ghosts' = [ghosts EXCEPT ![r] = [i \in DOMAIN found |-> [ghosts[r][i] EXCEPT !.load = found[i]]]]
    BY <1>3 DEF ComputeLoads
  <2>2. DOMAIN found = DOMAIN ghosts[r]
    OBVIOUS
  <2> HIDE DEF found
  <2>3. /\ ghosts'[r] = [i \in DOMAIN ghosts[r] |-> [ghosts[r][i] EXCEPT !.load = found[i]]]
        /\ \A s \in Ranks : s # r => ghosts'[s] = ghosts[s]
    BY <1>1, <2>1, <2>2
  <2>4. DOMAIN ghosts'[r] = DOMAIN ghosts[r]
    BY <2>3
  <2>5. ASSUME NEW h \in DOMAIN ghosts[r] PROVE ghosts'[r][h].id = ghosts[r][h].id
    <3>1. ghosts'[r][h] = [ghosts[r][h] EXCEPT !.load = found[h]] /\ Shaped(ghosts[r][h])
      BY <1>1, <2>3
    <3>2. QED
      BY <1>2, <3>1
  <2>6. QED
    BY <2>3, <2>4, <2>5
<1>4. CASE TakeGhostValues(r)
  <2> DEFINE slots == Sources(r) \X DOMAIN ghosts[r]
             for(h) == {s \in slots : s[2] <= count[r][s[1]] /\ Handle(r, s[1], s[2]) = h}
             new(s) == Head(mail[To(s[1], r, 1)])[s[2]]
             chosen(h) == CHOOSE s \in for(h) : \A t \in for(h) : t[1] <= s[1]
             l(h) == new(chosen(h)).loc
             m(h) == new(chosen(h)).load
  <2>1. /\ \A q \in Ranks : q # r => ghosts'[q] = ghosts[q]
        /\ ghosts'[r] = [h \in DOMAIN ghosts[r] |->
             IF for(h) = {} THEN ghosts[r][h] ELSE [ghosts[r][h] EXCEPT !.loc = l(h), !.load = m(h)]]
    BY <1>1, <1>4 DEF TakeGhostValues
  <2> HIDE DEF for, l, m
  <2>2. DOMAIN ghosts'[r] = DOMAIN ghosts[r]
    BY <2>1
  <2>3. ASSUME NEW h \in DOMAIN ghosts[r] PROVE ghosts'[r][h].id = ghosts[r][h].id
    <3>1. /\ \/ ghosts'[r][h] = ghosts[r][h]
             \/ ghosts'[r][h] = [ghosts[r][h] EXCEPT !.loc = l(h), !.load = m(h)]
          /\ Shaped(ghosts[r][h])
      BY <1>1, <2>1
    <3>2. \/ ghosts'[r][h] = ghosts[r][h]
          \/ \E x, y : ghosts'[r][h] = [ghosts[r][h] EXCEPT !.loc = x, !.load = y]
      BY <3>1
    <3>3. \A x, y : [ghosts[r][h] EXCEPT !.loc = x, !.load = y].id = ghosts[r][h].id
      BY <1>2, <3>1
    <3>4. QED
      BY <3>2, <3>3
  <2>4. QED
    BY <2>1, <2>2, <2>3
<1>5. QED
  BY <1>3, <1>4

(* The end of a sorting fills the cache and notes the locations.           *)
LEMMA TakeGhostsListed ==
  ASSUME IInv, IInv', NInv, NEW r \in Ranks, TakeGhosts(r)
  PROVE NInv'
<1> USE DEF Sorting, Updating, Working
<1>1. Types /\ Listed /\ Placed /\ Near
  BY DEF IInv, NInv
<1>2. /\ pc[r] = "ghosts" /\ \A q \in Ranks : pc'[q] = IF q = r THEN "step" ELSE pc[q]
  BY <1>1 DEF TakeGhosts, Go, Types
<1>3. UNCHANGED <<subdomain, pattern, loc, home, tied>>
  BY DEF TakeGhosts
<1>4. \A p \in Particles : /\ subdomain[home[p]] \in Ranks
                           /\ previous'[p] = IF subdomain[home[p]] = r THEN loc[p] ELSE previous[p]
  BY <1>1, OwnFacts DEF TakeGhosts, Own
<1>5. Placed'
  <2>1. ASSUME NEW p \in Particles, subdomain[home[p]] = r
        PROVE pc'[r] = "step" /\ home[p] = previous'[p] \div CellSize
    BY <1>1, <1>2, <1>4, <2>1 DEF Placed
  <2>2. ASSUME NEW p \in Particles, subdomain[home[p]] # r
        PROVE pc'[subdomain[home[p]]] = pc[subdomain[home[p]]] /\ previous'[p] = previous[p]
    BY <1>2, <1>4, <2>2
  <2>3. QED
    BY <1>1, <1>3, <2>1, <2>2 DEF Placed
<1>6. Near'
  <2>1. (Close' <=> Close) /\ (Reached' <=> Reached)
    BY <1>3 DEF Close, Reached, Cache
  <2>2. ~All("sort")
    BY <1>2 DEF All
  <2>3. QED
    BY <1>1, <1>3, <2>1, <2>2 DEF Near
<1>7. Listed'
  <2>1. /\ cached = [q \in Ranks |-> cached[q]] /\ ghosts = [q \in Ranks |-> ghosts[q]]
        /\ cached' = [cached EXCEPT ![r] = Refilled(@, Relevant(r)')]
    BY <1>1 DEF Types, TakeGhosts
  <2>2. cached'[r] = Relevant(r)' /\ \A s \in Ranks : s # r => cached'[s] = cached[s]
    BY <2>1 DEF Refilled
  <2>3. cached'[r] = Accessors(r)'
    <3>1. Served(r)'
      BY <1>2 DEF Served
    <3>2. AllListed'
      BY ListedNext
    <3>3. QED
      BY <2>2, <3>1, <3>2 DEF AllListed
  <2>4. ASSUME NEW s \in Ranks, s # r, Served(s)' PROVE cached'[s] = Accessors(s)'
    <3>1. ghosts'[s] = ghosts[s]
      BY <2>1, <2>4 DEF TakeGhosts
    <3>2. Own(s)' = Own(s)
      BY <1>3 DEF Own
    <3>3. Accessors(s)' = Accessors(s)
      BY <3>1, <3>2 DEF Accessors
    <3>4. Served(s)
      BY <1>2, <2>4 DEF Served
    <3>5. QED
      BY <1>1, <2>2, <2>4, <3>3, <3>4 DEF Listed
  <2>5. QED
    BY <2>3, <2>4 DEF Listed
<1>8. QED
  BY <1>5, <1>6, <1>7 DEF NInv

(* No other operation of a rank moves a particle or a handle.              *)
LEMMA RankStepListed ==
  ASSUME IInv, NInv, NEW r \in Ranks,
         \/ ComputeLoads(r) \/ Compress(r) \/ SendGhostValues(r) \/ TakeGhostValues(r)
         \/ SendCounts(r) \/ SendParticles(r)
  PROVE NInv'
<1> USE DEF Sorting, Updating, Working
<1>1. Types /\ Listed /\ Placed /\ Near
  BY DEF IInv, NInv
<1> DEFINE Ways == {<<"step", "compress">>, <<"compress", "move">>, <<"update", "refresh">>,
                     <<"refresh", "step">>, <<"counts", "particles">>, <<"particles", "ghosts">>}
           Keeps == UNCHANGED <<subdomain, loc, home, previous, tied, cached>>
           Known == ComputeLoads(r) \/ TakeGhostValues(r) \/ ghosts' = ghosts
           Goes == \E way \in Ways : Go(r, way[1], way[2])
<1>2. ASSUME ComputeLoads(r) PROVE Keeps /\ Known /\ Goes
  <2>1. Go(r, "step", "compress") /\ Keeps /\ Known
    BY <1>2 DEF ComputeLoads
  <2>2. QED
    BY <2>1
<1>3. ASSUME Compress(r) PROVE Keeps /\ Known /\ Goes
  <2>1. Go(r, "compress", "move") /\ Keeps /\ Known
    BY <1>3 DEF Compress
  <2>2. QED
    BY <2>1
<1>4. ASSUME SendGhostValues(r) PROVE Keeps /\ Known /\ Goes
  <2>1. Go(r, "update", "refresh") /\ Keeps /\ Known
    BY <1>4 DEF SendGhostValues
  <2>2. QED
    BY <2>1
<1>5. ASSUME TakeGhostValues(r) PROVE Keeps /\ Known /\ Goes
  <2>1. Go(r, "refresh", "step") /\ Keeps /\ Known
    BY <1>5 DEF TakeGhostValues
  <2>2. QED
    BY <2>1
<1>6. ASSUME SendCounts(r) PROVE Keeps /\ Known /\ Goes
  <2>1. Go(r, "counts", "particles") /\ Keeps /\ Known
    BY <1>6 DEF SendCounts
  <2>2. QED
    BY <2>1
<1>7. ASSUME SendParticles(r) PROVE Keeps /\ Known /\ Goes
  <2>1. Go(r, "particles", "ghosts") /\ Keeps /\ Known
    BY <1>7 DEF SendParticles
  <2>2. QED
    BY <2>1
<1>8. Keeps /\ Known /\ Goes
  BY <1>2, <1>3, <1>4, <1>5, <1>6, <1>7
<1>9. PICK way \in Ways : Go(r, way[1], way[2])
  BY <1>8
<1>10. \A q \in Ranks :
        /\ pc'[q] \in Sorting => pc[q] \in Sorting
        /\ pc'[q] \in Updating \cup Working => pc[q] \in Updating \cup Working
        /\ pc[q] = "sort" => pc'[q] = "sort"
  BY <1>1, <1>9 DEF Go, Types
<1>11. Placed' /\ Near'
  BY <1>1, <1>8, <1>10, PlacesStay
<1>12. \A s \in Ranks : /\ DOMAIN ghosts'[s] = DOMAIN ghosts[s]
                       /\ \A h \in DOMAIN ghosts[s] : ghosts'[s][h].id = ghosts[s][h].id
  <2>1. CASE ComputeLoads(r) \/ TakeGhostValues(r)
    BY <2>1, IdsStay
  <2>2. CASE ghosts' = ghosts
    BY <2>2
  <2>3. QED
    BY <1>8, <2>1, <2>2
<1>13. Listed'
  BY <1>1, <1>8, <1>10, <1>12, ListedStays DEF Served
<1>14. QED
  BY <1>11, <1>13 DEF NInv

(* Moves keep Near, or all particles are sorted next.                      *)
LEMMA AdvanceTimeListed ==
  ASSUME IInv, NInv, AdvanceTime
  PROVE NInv'
<1> USE DEF Sorting, Updating, Working
<1>1. Types /\ Listed /\ Placed /\ Near
  BY DEF IInv, NInv
<1>2. PICK x \in {[p \in Particles |-> loc[p] + d[p]] : d \in Moves} :
        /\ x \in [Particles -> Positions]
        /\ GoAll("move", IF UpdateRequired(x) THEN "sort" ELSE "update")
        /\ loc' = x /\ tied' = (tied \/ Tie(x))
  BY DEF AdvanceTime
<1>3. UNCHANGED <<subdomain, home, previous, ghosts, cached>>
  BY DEF AdvanceTime
<1>4. \A q \in Ranks : pc[q] = "move" /\ pc'[q] = IF UpdateRequired(x) THEN "sort" ELSE "update"
  BY <1>2 DEF GoAll, All
<1>5. \A p \in Particles : subdomain[home[p]] \in Ranks /\ subdomain'[home'[p]] = subdomain[home[p]]
  BY <1>1, <1>3, OwnFacts
<1>6. \A p \in Particles : home[p] = previous[p] \div CellSize
  BY <1>1, <1>4, <1>5 DEF Placed
<1>7. Placed'
  BY <1>3, <1>4, <1>5, <1>6 DEF Placed
<1>8. Listed'
  BY <1>1, <1>3, <1>4, ListedStays DEF Served
<1>9. CASE UpdateRequired(x)
  <2>1. All("sort")'
    BY <1>4, <1>9 DEF All
  <2>2. QED
    BY <1>7, <1>8, <2>1 DEF NInv, Near
<1>10. CASE ~UpdateRequired(x)
  <2>1. \A p \in Particles : x[p] \in Positions /\ previous[p] \in Positions
    BY <1>1, <1>2 DEF Types
  <2>2. \A p \in Particles : Displacement(x, p) = Abs(x[p] - previous[p])
    BY DEF Displacement
  <2>3. Reached'
    <3>1. ASSUME NEW p \in Particles, NEW c \in Overlapped(x[p])
          PROVE Abs(find_particle_cache_cell(c) - find_particle_cache_cell(home[p])) <= 1
      <4>1. Abs(x[p] - previous[p]) <= SkinThickness
        BY <1>1, <1>2, <1>10, <2>2, MovesBounded
      <4>2. QED
        BY <1>6, <2>1, <4>1, OverlapNear
    <3>2. QED
      BY <1>2, <1>3, <3>1 DEF Reached, Cache
  <2>4. ASSUME ~tied' PROVE Close'
    <3>1. ~Tie(x)
      BY <1>2, <2>4
    <3>2. ASSUME NEW p \in Particles, NEW q \in Particles, p # q, Touch(x[p], x[q])
          PROVE Abs(find_particle_cache_cell(home[p]) - find_particle_cache_cell(home[q])) <= 1
      <4>1. Displacement(x, p) + Displacement(x, q) <= SkinThickness
        BY <1>1, <1>2, <1>10, <3>1, <3>2, MovesBounded
      <4>2. Abs(x[p] - previous[p]) + Abs(x[q] - previous[q]) <= SkinThickness
        BY <2>2, <4>1
      <4>3. QED
        BY <1>6, <2>1, <3>2, <4>2, TouchNear
    <3>3. QED
      BY <1>2, <1>3, <3>2 DEF Close, Cache
  <2>5. QED
    BY <1>7, <1>8, <2>3, <2>4 DEF NInv, Near
<1>11. QED
  BY <1>9, <1>10

(* After the sorting particles are where they are looked for.              *)
LEMMA SortIntoCellsListed ==
  ASSUME IInv, SortIntoCells
  PROVE NInv'
<1> USE DEF Sorting, Updating, Working
<1>1. Types
  BY DEF IInv
<1>2. /\ \A q \in Ranks : pc'[q] = "counts"
      /\ \A p \in Particles : home'[p] = loc[p] \div CellSize
      /\ loc' = loc /\ subdomain' = subdomain
  BY DEF SortIntoCells, GoAll
<1>3. Listed'
  BY <1>2 DEF Listed, Served
<1>4. \A p \in Particles : subdomain'[home'[p]] \in Ranks
  <2>1. subdomain \in [ActiveCells -> Ranks] /\ \A p \in Particles : loc[p] \in Positions
    BY <1>1, OwnFacts DEF Types
  <2>2. \A p \in Particles : home'[p] \in ActiveCells
    BY <1>2, <2>1, CellFacts
  <2>3. QED
    BY <1>2, <2>1, <2>2
<1>5. Placed'
  BY <1>2, <1>4 DEF Placed
<1>6. \A p \in Particles : loc[p] \in Positions /\ Abs(loc[p] - loc[p]) = 0
  BY <1>1, PlaceInCache DEF Types, Abs
<1>7. 0 <= SkinThickness
  BY WidthFacts
<1>8. ASSUME NEW p \in Particles, NEW q \in Particles, Touch(loc[p], loc[q])
      PROVE Abs(find_particle_cache_cell(home'[p]) - find_particle_cache_cell(home'[q])) <= 1
  <2>1. Abs(loc[p] - loc[p]) + Abs(loc[q] - loc[q]) <= SkinThickness
    BY <1>6, <1>7
  <2>2. QED
    BY <1>2, <1>6, <1>8, <2>1, TouchNear
<1>9. ASSUME NEW p \in Particles, NEW c \in Overlapped(loc[p])
      PROVE Abs(find_particle_cache_cell(c) - find_particle_cache_cell(home'[p])) <= 1
  <2>1. Abs(loc[p] - loc[p]) <= SkinThickness
    BY <1>6, <1>7
  <2>2. QED
    BY <1>2, <1>6, <2>1, OverlapNear
<1>10. Near'
  BY <1>2, <1>8, <1>9 DEF Near, Close, Reached, Cache
<1>11. QED
  BY <1>3, <1>5, <1>10 DEF NInv

(* It holds on after every step, given IInv before and after it.           *)
LEMMA NStep == IInv /\ IInv' /\ NInv /\ [Next]_vars => NInv'
<1> SUFFICES ASSUME IInv, IInv', NInv, [Next]_vars PROVE NInv'
  OBVIOUS
<1>1. CASE \E r \in Ranks :
             \/ ComputeLoads(r) \/ Compress(r) \/ SendGhostValues(r) \/ TakeGhostValues(r)
             \/ SendCounts(r) \/ SendParticles(r)
  BY <1>1, RankStepListed
<1>2. CASE \E r \in Ranks : TakeGhosts(r)
  BY <1>2, TakeGhostsListed
<1>3. CASE AdvanceTime
  BY <1>3, AdvanceTimeListed
<1>4. CASE SortIntoCells
  BY <1>4, SortIntoCellsListed
<1>5. CASE CoarsenAndRefine
  <2>1. \A q \in Ranks : pc'[q] = "sort"
    BY <1>5 DEF CoarsenAndRefine, GoAll
  <2>2. Types'
    BY DEF IInv
  <2>3. \A p \in Particles : subdomain'[home'[p]] \in Ranks
    BY <2>2, ParticleAssumption DEF Types
  <2>4. QED
    BY <2>1, <2>3 DEF NInv, Listed, Served, Placed, Near, All, Sorting, Updating, Working
<1>6. CASE Finished \/ UNCHANGED vars
  <2>1. UNCHANGED <<subdomain, loc, home, previous, ghosts, cached, pc, tied>>
    BY <1>6 DEF Finished, vars
  <2>2. Placed' /\ Near'
    BY <2>1, PlacesStay DEF IInv, NInv
  <2>3. Listed'
    BY <2>1, ListedStays DEF NInv, Served
  <2>4. QED
    BY <2>2, <2>3 DEF NInv
<1>7. QED
  BY <1>1, <1>2, <1>3, <1>4, <1>5, <1>6 DEF Next

(* It holds before the first sorting.                                      *)
LEMMA NInit == Init => NInv
<1> SUFFICES ASSUME Init PROVE NInv
  OBVIOUS
<1>1. \A r \in Ranks : pc[r] = "sort"
  BY DEF Init
<1>2. \A p \in Particles : subdomain[home[p]] \in Ranks
  BY InvInit, OwnFacts DEF IInv
<1>3. QED
  BY <1>1, <1>2 DEF NInv, Listed, Served, Placed, Near, All, Sorting, Updating, Working

(* What a rank sees when it begins a step: every particle beside its cells *)
(* once, where it is.                                                      *)
LEMMA SeesAll ==
  ASSUME IInv, NEW r \in Ranks, pc[r] = "step"
  PROVE /\ \A v \in Visible(r) : v.id \in Particles /\ v.cell = Cache(v.id) /\ v.loc = loc[v.id]
        /\ \A p \in Particles : p \in Own(r) \/ Beside(r, p) => \E v \in Visible(r) : v.id = p
        /\ \A v, w \in Visible(r) : v.id = w.id => v = w
<1>1. Served(r) /\ \A h \in DOMAIN ghosts[r] : ghosts[r][h].loc = loc[ghosts[r][h].id]
  BY DEF IInv, Fresh, Working, Served
<1>2. ASSUME NEW v \in Visible(r)
      PROVE /\ v.id \in Particles /\ v.cell = Cache(v.id)
            /\ \/ v.id \in Own(r) /\ v = [id |-> v.id, handle |-> 0, cell |-> v.cell, loc |-> loc[v.id]]
               \/ /\ v.handle \in DOMAIN ghosts[r] /\ v.id = ghosts[r][v.handle].id /\ v.id \notin Own(r)
                  /\ v = [id |-> v.id, handle |-> v.handle, cell |-> v.cell, loc |-> loc[v.id]]
  <2>1. /\ v.id \in Particles /\ v.cell = Cache(v.id)
        /\ \/ v.id \in Own(r) /\ v = [id |-> v.id, handle |-> 0, cell |-> v.cell, loc |-> loc[v.id]]
           \/ /\ v.handle \in DOMAIN ghosts[r] /\ v.id = ghosts[r][v.handle].id
              /\ v = [id |-> v.id, handle |-> v.handle, cell |-> v.cell,
                      loc |-> ghosts[r][v.handle].loc]
    BY <1>1, SeesFacts
  <2>2. \A h \in DOMAIN ghosts[r] : ghosts[r][h].id \notin Own(r)
    BY <1>1, GhostIds
  <2>3. QED
    BY <1>1, <2>1, <2>2
<1>3. ASSUME NEW v \in Visible(r) PROVE v.id \in Particles /\ v.cell = Cache(v.id) /\ v.loc = loc[v.id]
  <2>1. \A a, b, c, d : [id |-> a, handle |-> b, cell |-> c, loc |-> d].loc = d
    OBVIOUS
  <2>2. \E b : v = [id |-> v.id, handle |-> b, cell |-> v.cell, loc |-> loc[v.id]]
    BY <1>2
  <2>3. QED
    BY <1>2, <2>1, <2>2
<1>4. ASSUME NEW p \in Particles, p \in Own(r) \/ Beside(r, p) PROVE \E v \in Visible(r) : v.id = p
  <2>1. CASE p \in Own(r)
    <3>1. [id |-> p, handle |-> 0, cell |-> Cache(p), loc |-> loc[p]] \in Visible(r)
      BY <1>1, <2>1, SeesFacts
    <3>2. QED
      BY <3>1
  <2>2. CASE p \notin Own(r)
    <3>1. PICK h \in DOMAIN ghosts[r] : ghosts[r][h].id = p
      BY <1>1, <1>4, <2>2, GhostIds
    <3>2. [id |-> p, handle |-> h, cell |-> Cache(p), loc |-> ghosts[r][h].loc] \in Visible(r)
      BY <1>1, <3>1, SeesFacts
    <3>3. QED
      BY <3>2
  <2>3. QED
    BY <2>1, <2>2
<1>5. ASSUME NEW v \in Visible(r), NEW w \in Visible(r), v.id = w.id PROVE v = w
  <2>1. CASE v.id \in Own(r)
    <3>1. v = [id |-> v.id, handle |-> 0, cell |-> v.cell, loc |-> loc[v.id]]
      BY <1>2, <2>1
    <3>2. w = [id |-> w.id, handle |-> 0, cell |-> w.cell, loc |-> loc[w.id]]
      BY <1>2, <1>5, <2>1
    <3>3. v.cell = w.cell
      BY <1>2, <1>5
    <3>4. QED
      BY <1>5, <3>1, <3>2, <3>3
  <2>2. CASE v.id \notin Own(r)
    <3>1. /\ v.handle \in DOMAIN ghosts[r] /\ v.id = ghosts[r][v.handle].id
          /\ v = [id |-> v.id, handle |-> v.handle, cell |-> v.cell, loc |-> loc[v.id]]
      BY <1>2, <2>2
    <3>2. /\ w.handle \in DOMAIN ghosts[r] /\ w.id = ghosts[r][w.handle].id
          /\ w = [id |-> w.id, handle |-> w.handle, cell |-> w.cell, loc |-> loc[w.id]]
      BY <1>2, <1>5, <2>2
    <3>3. v.cell = w.cell
      BY <1>2, <1>5
    <3>4. v.handle = w.handle
      BY <1>1, <1>5, <3>1, <3>2, GhostIds
    <3>5. QED
      BY <1>5, <3>1, <3>2, <3>3, <3>4
  <2>3. QED
    BY <2>1, <2>2
<1>6. QED
  BY <1>3, <1>4, <1>5

(* What the contact search of a rank finds.                                *)
LEMMA ContactsFacts ==
  ASSUME IInv, NInv, NEW r \in Ranks, pc[r] = "step", NEW p \in Own(r)
  PROVE /\ \A v \in Contacts(r, p) : v \in Visible(r) /\ v.id \in Touching(p)
        /\ ~tied => \A q \in Touching(p) : \E v \in Contacts(r, p) : v.id = q
<1>1. Types /\ p \in Particles
  BY DEF IInv, Own
<1>2. /\ \A v \in Visible(r) : v.id \in Particles /\ v.cell = Cache(v.id) /\ v.loc = loc[v.id]
      /\ \A q \in Particles : q \in Own(r) \/ Beside(r, q) => \E v \in Visible(r) : v.id = q
  BY SeesAll
<1>3. ASSUME NEW v \in Contacts(r, p) PROVE v \in Visible(r) /\ v.id \in Touching(p)
  <2>1. v \in Visible(r) /\ Touch(loc[p], v.loc) /\ v.id # p
    BY DEF Contacts, find_relevant_particles
  <2>2. QED
    BY <1>2, <2>1 DEF Touching
<1>4. ASSUME ~tied, NEW q \in Touching(p) PROVE \E v \in Contacts(r, p) : v.id = q
  <2>1. q \in Particles /\ q # p /\ Touch(loc[p], loc[q])
    BY DEF Touching
  <2>2. ~All("sort")
    BY DEF All
  <2>3. Close
    BY <1>4, <2>2 DEF NInv, Near
  <2>4. Abs(Cache(p) - Cache(q)) <= 1
    BY <1>1, <2>1, <2>3 DEF Close
  <2>5. Cache(p) \in CacheCells /\ Cache(q) \in CacheCells /\ Cache(p) \in Ancestors(subdomain, r)
    BY <1>1, <2>1, OwnFacts
  <2>6. Cache(q) \in Around(Cache(p)) /\ Cache(p) \in Around(Cache(q))
    BY <2>4, <2>5, CacheFacts DEF Around, Abs
  <2>7. Beside(r, q)
    BY <2>5, <2>6 DEF Beside
  <2>8. PICK v \in Visible(r) : v.id = q
    BY <1>2, <2>1, <2>7
  <2>9. v.cell = Cache(q) /\ v.loc = loc[q]
    BY <1>2, <2>8
  <2>10. v \in find_relevant_particles(r, find_particle_cache_cell(home[p]))
    BY <2>6, <2>9 DEF find_relevant_particles, Cache
  <2>11. v \in Contacts(r, p)
    BY <2>1, <2>8, <2>9, <2>10 DEF Contacts
  <2>12. QED
    BY <2>8, <2>11
<1>5. QED
  BY <1>3, <1>4

(* A particle that overlaps a cell of a rank is beside its cells.          *)
LEMMA OverlapBeside ==
  ASSUME IInv, NInv, ~All("sort"), NEW r \in Ranks, NEW p \in Particles,
         Overlapped(loc[p]) \cap OwnCells(r) # {}
  PROVE Beside(r, p)
<1>1. PICK c \in Overlapped(loc[p]) : c \in OwnCells(r)
  OBVIOUS
<1>2. Abs(find_particle_cache_cell(c) - Cache(p)) <= 1
  BY DEF NInv, Near, Reached
<1>3. c \in ActiveCells /\ find_particle_cache_cell(c) \in Ancestors(subdomain, r)
  BY <1>1 DEF OwnCells, Ancestors
<1>4. find_particle_cache_cell(c) \in CacheCells
  BY <1>3, CacheFacts
<1>5. find_particle_cache_cell(c) \in Around(Cache(p))
  BY <1>2, <1>4 DEF Around
<1>6. QED
  BY <1>3, <1>5 DEF Beside

(* The invariants say what the property asks.                              *)
LEMMA NeighboursFollow == IInv /\ NInv => NeighboursFound
<1> SUFFICES ASSUME IInv, NInv, NEW r \in Ranks, pc[r] = "step"
             PROVE /\ ~tied => \A p \in Own(r) : {v.id : v \in Contacts(r, p)} = Touching(p)
                   /\ \A p \in Particles :
                        Overlapped(loc[p]) \cap OwnCells(r) # {} =>
                          /\ Cardinality({a \in cached[r] : a.id = p}) = 1
                          /\ \E a \in cached[r], v \in Visible(r) :
                               a.id = p /\ v.id = p /\ v.handle = a.handle /\ v.loc = loc[p]
  BY DEF NeighboursFound
<1>1. Served(r) /\ ~All("sort")
  BY DEF Served, Working, All
<1>2. cached[r] = Accessors(r)
  BY <1>1 DEF NInv, Listed
<1>3. ASSUME ~tied, NEW p \in Own(r) PROVE {v.id : v \in Contacts(r, p)} = Touching(p)
  BY <1>3, ContactsFacts
<1>4. ASSUME NEW p \in Particles, Overlapped(loc[p]) \cap OwnCells(r) # {}
      PROVE /\ Cardinality({a \in cached[r] : a.id = p}) = 1
            /\ \E a \in cached[r], v \in Visible(r) :
                 a.id = p /\ v.id = p /\ v.handle = a.handle /\ v.loc = loc[p]
  <2>1. Beside(r, p)
    BY <1>1, <1>4, OverlapBeside
  <2>2. PICK v \in Visible(r) : v.id = p
    BY <2>1, SeesAll
  <2>3. v.loc = loc[p]
    BY <2>2, SeesAll
  <2> DEFINE a == [id |-> p, handle |-> v.handle]
  <2>4. a \in Accessors(r) /\ a.id = p /\ a.handle = v.handle
    <3>1. \/ v.id \in Own(r) /\ v = [id |-> v.id, handle |-> 0, cell |-> v.cell, loc |-> loc[v.id]]
          \/ v.handle \in DOMAIN ghosts[r] /\ v.id = ghosts[r][v.handle].id
      BY <1>1, SeesFacts
    <3>2. \A x, y, z, w : [id |-> x, handle |-> y, cell |-> z, loc |-> w].handle = y
      OBVIOUS
    <3>3. \/ p \in Own(r) /\ v.handle = 0
          \/ v.handle \in DOMAIN ghosts[r] /\ p = ghosts[r][v.handle].id
      BY <2>2, <3>1, <3>2
    <3>4. QED
      BY <3>3 DEF Accessors
  <2> HIDE DEF a
  <2>5. ASSUME NEW b \in Accessors(r), b.id = p PROVE b = a
    <3>1. \/ p \in Own(r) /\ b = [id |-> p, handle |-> 0]
          \/ \E h \in DOMAIN ghosts[r] : p = ghosts[r][h].id /\ b = [id |-> p, handle |-> h]
      BY <2>5 DEF Accessors
    <3>2. \/ p \in Own(r) /\ a = [id |-> p, handle |-> 0]
          \/ \E h \in DOMAIN ghosts[r] : p = ghosts[r][h].id /\ a = [id |-> p, handle |-> h]
      BY <2>4 DEF Accessors
    <3>3. /\ \A h \in DOMAIN ghosts[r] : ghosts[r][h].id \notin Own(r)
          /\ \A h, k \in DOMAIN ghosts[r] : ghosts[r][h].id = ghosts[r][k].id => h = k
      BY <1>1, GhostIds
    <3>4. QED
      BY <3>1, <3>2, <3>3
  <2>6. {b \in cached[r] : b.id = p} = {a}
    BY <1>2, <2>4, <2>5
  <2>7. Cardinality({a}) = 1
    BY FS_Singleton
  <2>8. QED
    BY <1>2, <2>2, <2>3, <2>4, <2>6, <2>7
<1>5. QED
  BY <1>3, <1>4

(* An own particle's search finds the particles it touches and no other,   *)
(* and the cell cache leads to every particle that overlaps own cells.     *)
THEOREM NeighboursAreFound == Spec => []NeighboursFound
<1>1. Init => IInv /\ NInv
  BY InvInit, NInit
<1>2. IInv /\ [Next]_vars => IInv'
  BY InvStep
<1>3. IInv /\ IInv' /\ NInv /\ [Next]_vars => NInv'
  BY NStep
<1>4. IInv /\ NInv => NeighboursFound
  BY NeighboursFollow
<1>5. QED
  BY <1>1, <1>2, <1>3, <1>4, PTL DEF Spec

-----------------------------------------------------------------------------
(* The loads                                                               *)

OneEach(S) == [s \in S |-> 1]

(* One of each of two disjoint sets is one of each of their union.         *)
LEMMA OneEachFacts ==
  /\ \A S : DOMAIN OneEach(S) = S /\ \A s \in S : OneEach(S)[s] = 1
  /\ EmptyBag = OneEach({})
  /\ \A S, T : S \cap T = {} => OneEach(S) (+) OneEach(T) = OneEach(S \cup T)
<1>1. \A S : DOMAIN OneEach(S) = S /\ \A s \in S : OneEach(S)[s] = 1
  BY DEF OneEach
<1>2. EmptyBag = OneEach({})
  BY DEF EmptyBag, SetToBag, OneEach
<1>3. ASSUME NEW S, NEW T, S \cap T = {} PROVE OneEach(S) (+) OneEach(T) = OneEach(S \cup T)
  <2>1. OneEach(S) (+) OneEach(T) =
          [e \in S \cup T |-> (IF e \in S THEN OneEach(S)[e] ELSE 0) + (IF e \in T THEN OneEach(T)[e] ELSE 0)]
    BY <1>1 DEF (+)
  <2>2. \A e \in S \cup T :
          (IF e \in S THEN OneEach(S)[e] ELSE 0) + (IF e \in T THEN OneEach(T)[e] ELSE 0) = 1
    BY <1>1, <1>3
  <2>3. [e \in S \cup T |-> (IF e \in S THEN OneEach(S)[e] ELSE 0) + (IF e \in T THEN OneEach(T)[e] ELSE 0)]
          = [e \in S \cup T |-> 1]
    BY <2>2
  <2>4. QED
    BY <2>1, <2>3 DEF OneEach
<1>4. QED
  BY <1>1, <1>2, <1>3

(* Adding up the loads that have come for a particle.                      *)
Pick(s) == CHOOSE x \in s : TRUE
Gathering(A, base, g) ==
  g = [s \in SUBSET A |-> IF s = {} THEN base ELSE g[s \ {Pick(s)}] (+) Pick(s)[2][2]]
Gathered(base, A) == FoldSet(LAMBDA x, b : b (+) x[2][2], base, A)
Marks(A) == UNION {DOMAIN x[2][2] : x \in A}

(* The fold, by its definition.                                            *)
LEMMA GatheredIs ==
  ASSUME NEW A, NEW base
  PROVE Gathered(base, A) = (CHOOSE g : Gathering(A, base, g))[A]
BY DEF Gathered, FoldSet, MapThenFoldSet, Gathering, Pick

(* Loads that share nothing add up to one of each.                         *)
LEMMA GatheredOnce ==
  ASSUME NEW A, IsFiniteSet(A), NEW D,
         \A x \in A : x[2][2] = OneEach(DOMAIN x[2][2]) /\ D \cap DOMAIN x[2][2] = {},
         \A x, y \in A : x # y => DOMAIN x[2][2] \cap DOMAIN y[2][2] = {}
  PROVE Gathered(OneEach(D), A) = OneEach(D \cup Marks(A))
<1> DEFINE sum(s) == OneEach(D \cup Marks(s))
<1>1. ASSUME NEW s \in SUBSET A, s # {}
      PROVE Pick(s) \in s /\ sum(s) = sum(s \ {Pick(s)}) (+) Pick(s)[2][2]
  <2> DEFINE x == Pick(s)
             t == s \ {x}
  <2>1. x \in s /\ x \in A /\ s = t \cup {x}
    BY <1>1 DEF Pick
  <2> HIDE DEF x
  <2>2. Marks(s) = Marks(t) \cup DOMAIN x[2][2]
    BY <2>1 DEF Marks
  <2>3. (D \cup Marks(t)) \cap DOMAIN x[2][2] = {}
    BY <2>1 DEF Marks
  <2>4. x[2][2] = OneEach(DOMAIN x[2][2])
    BY <2>1
  <2> HIDE DEF t
  <2>5. OneEach(D \cup Marks(t)) (+) OneEach(DOMAIN x[2][2]) = OneEach((D \cup Marks(t)) \cup DOMAIN x[2][2])
    BY <2>3, OneEachFacts
  <2>6. (D \cup Marks(t)) \cup DOMAIN x[2][2] = D \cup Marks(s)
    BY <2>2
  <2>7. QED
    BY <2>1, <2>4, <2>5, <2>6 DEF x, t
<1>2. sum({}) = OneEach(D)
  BY DEF Marks
<1> HIDE DEF sum
<1>3. Gathering(A, OneEach(D), [s \in SUBSET A |-> sum(s)])
  <2> DEFINE g == [s \in SUBSET A |-> sum(s)]
  <2>1. ASSUME NEW s \in SUBSET A
        PROVE sum(s) = IF s = {} THEN OneEach(D) ELSE g[s \ {Pick(s)}] (+) Pick(s)[2][2]
    <3>1. g[s \ {Pick(s)}] = sum(s \ {Pick(s)})
      OBVIOUS
    <3>2. QED
      BY <1>1, <1>2, <3>1
  <2> HIDE DEF g
  <2>2. [s \in SUBSET A |-> sum(s)] =
          [s \in SUBSET A |-> IF s = {} THEN OneEach(D) ELSE g[s \ {Pick(s)}] (+) Pick(s)[2][2]]
    BY <2>1
  <2>3. QED
    BY <2>2 DEF Gathering, g
<1> DEFINE f == CHOOSE g : Gathering(A, OneEach(D), g)
<1>4. Gathering(A, OneEach(D), f)
  BY <1>3
<1> HIDE DEF f
<1>5. \A s \in SUBSET A : f[s] = IF s = {} THEN OneEach(D) ELSE f[s \ {Pick(s)}] (+) Pick(s)[2][2]
  BY <1>4 DEF Gathering
<1> DEFINE Bad == {n \in Nat : \E s \in SUBSET A : Cardinality(s) = n /\ f[s] # sum(s)}
<1>6. ASSUME Bad # {} PROVE FALSE
  <2>1. PICK n \in Bad : \A m \in Bad : n <= m
    BY <1>6, LeastNat
  <2>2. PICK s \in SUBSET A : Cardinality(s) = n /\ f[s] # sum(s)
    BY <2>1
  <2>3. s # {}
    BY <1>2, <1>5, <2>2
  <2> DEFINE t == s \ {Pick(s)}
  <2>4. /\ Pick(s) \in s /\ t \in SUBSET A /\ sum(s) = sum(t) (+) Pick(s)[2][2]
        /\ f[s] = f[t] (+) Pick(s)[2][2]
    BY <1>1, <1>5, <2>3
  <2>5. f[t] # sum(t)
    BY <2>2, <2>4
  <2>6. Cardinality(t) \in Nat /\ Cardinality(t) = n - 1
    <3>1. IsFiniteSet(s)
      BY FS_Subset
    <3>2. IsFiniteSet(t) /\ Cardinality(t) = Cardinality(s) - 1
      BY <2>4, <3>1, FS_RemoveElement
    <3>3. QED
      BY <2>2, <3>2, FS_CardinalityType
  <2> HIDE DEF t
  <2>7. Cardinality(t) \in Bad
    BY <2>4, <2>5, <2>6
  <2>8. QED
    BY <2>1, <2>6, <2>7
<1>7. \A s \in SUBSET A : f[s] = sum(s)
  <2>1. \A s \in SUBSET A : Cardinality(s) \in Nat
    BY FS_Subset, FS_CardinalityType
  <2>2. QED
    BY <1>6, <2>1
<1>8. Gathered(OneEach(D), A) = f[A]
  BY GatheredIs DEF f
<1>9. QED
  BY <1>7, <1>8 DEF sum

(* What the cells of a rank push on a particle, and what its neighbours do.*)
CellsOf(p, r) == {<<"cell", c>> : c \in Overlapped(loc[p]) \cap OwnCells(r)}
AllCells(p) == {<<"cell", c>> : c \in Overlapped(loc[p])}
Others(p) == {<<"particle", q>> : q \in Touching(p)}

Holds(p, cells) ==
  LET found == DOMAIN load[p]
  IN /\ load[p] = OneEach(found) /\ cells \subseteq found /\ found \subseteq cells \cup Others(p)
     /\ tied \/ Others(p) \subseteq found

(* Before compress() a particle has its contacts and the push of its       *)
(* owner's cells, and the push of the others' cells is under way.          *)
Added ==
  \A p \in Particles :
    LET r == subdomain[home[p]]
    IN /\ pc[r] = "compress" => Holds(p, CellsOf(p, r))
       /\ pc[r] = "move" => Holds(p, AllCells(p))

AreLoads(m, q, r) == m = {<<p, OneEach(CellsOf(p, q))>> : p \in Packable(r, q)}
LoadsSent == \A q, r \in Ranks : LoadsDue(q, r) => AreLoads(Head(mail[To(q, r, 0)]), q, r)

LInv == Added /\ LoadsSent

(* Every overlapped cell pushes once: it has one owner.                    *)
LEMMA CellsFacts ==
  ASSUME IInv
  PROVE /\ \A p \in Particles, r \in Ranks : CellsOf(p, r) \subseteq AllCells(p)
        /\ \A p \in Particles : \A s \in AllCells(p) : \E q \in Ranks : s \in CellsOf(p, q)
        /\ \A p \in Particles, q, r \in Ranks : q # r => CellsOf(p, q) \cap CellsOf(p, r) = {}
        /\ \A p \in Particles : AllCells(p) \cap Others(p) = {}
<1>1. subdomain \in [ActiveCells -> Ranks]
  BY OwnFacts DEF IInv
<1>2. ASSUME NEW p \in Particles, NEW s \in AllCells(p) PROVE \E q \in Ranks : s \in CellsOf(p, q)
  <2>1. PICK c \in Overlapped(loc[p]) : s = <<"cell", c>>
    BY DEF AllCells
  <2>2. c \in ActiveCells
    BY DEF Overlapped
  <2>3. subdomain[c] \in Ranks /\ c \in OwnCells(subdomain[c])
    BY <1>1, <2>2 DEF OwnCells
  <2>4. s \in CellsOf(p, subdomain[c])
    BY <2>1, <2>3 DEF CellsOf
  <2>5. QED
    BY <2>3, <2>4
<1>3. \A p \in Particles, r \in Ranks : CellsOf(p, r) \subseteq AllCells(p)
  BY DEF CellsOf, AllCells
<1>4. \A p \in Particles, q, r \in Ranks : q # r => CellsOf(p, q) \cap CellsOf(p, r) = {}
  BY DEF CellsOf, OwnCells
<1>5. \A p \in Particles : AllCells(p) \cap Others(p) = {}
  <2>1. \A c, q : <<"cell", c>> # <<"particle", q>>
    OBVIOUS
  <2>2. QED
    BY <2>1 DEF AllCells, Others
<1>6. QED
  BY <1>2, <1>3, <1>4, <1>5

(* What does not touch the particles keeps what is known of their loads.   *)
LEMMA HoldsStays ==
  ASSUME UNCHANGED <<subdomain, home, loc, tied>>
  PROVE /\ \A p : load'[p] = load[p] =>
             /\ \A r : Holds(p, CellsOf(p, r))' <=> Holds(p, CellsOf(p, r))
             /\ Holds(p, AllCells(p))' <=> Holds(p, AllCells(p))
        /\ \A p, r : CellsOf(p, r)' = CellsOf(p, r)
        /\ \A p : AllCells(p)' = AllCells(p) /\ Others(p)' = Others(p)
<1>1. \A r : OwnCells(r)' = OwnCells(r)
  BY DEF OwnCells
<1>2. /\ \A p, r : CellsOf(p, r)' = CellsOf(p, r)
      /\ \A p : AllCells(p)' = AllCells(p) /\ Others(p)' = Others(p)
  BY <1>1 DEF CellsOf, AllCells, Others, Touching
<1>3. QED
  BY <1>2 DEF Holds

(* A message of loads that stays under way.                                *)
LEMMA LoadsStay ==
  ASSUME IInv, IInv', LoadsSent, UNCHANGED <<subdomain, pattern, home, loc>>,
         NEW taken, NEW sent, mail' = Mail(taken, sent),
         NEW q \in Ranks, NEW r \in Ranks, LoadsDue(q, r), LoadsDue(q, r)',
         To(q, r, 0) \notin DOMAIN sent
  PROVE AreLoads(Head(mail[To(q, r, 0)]), q, r)'
<1> DEFINE c == To(q, r, 0)
<1>1. c \in Channels /\ mail[c] # <<>> /\ (mail[c] = <<>> \/ Arrives(c)) /\ mail'[c] # <<>>
  <2>1. c \in Channels
    BY ChannelFacts
  <2>2. Arrives(c) /\ Arrives(c)'
    BY DEF IInv, Mailed, Box0
  <2>3. \A m : <<m>> # <<>>
    OBVIOUS
  <2>4. QED
    BY <2>1, <2>2, <2>3 DEF Arrives
<1>2. mail'[c] = mail[c]
  BY <1>1, MailAt
<1>3. AreLoads(Head(mail[c]), q, r)
  BY DEF LoadsSent
<1>4. Packable(r, q)' = Packable(r, q) /\ \A p : CellsOf(p, q)' = CellsOf(p, q)
  BY DEF Packable, Own, Cache, CellsOf, OwnCells
<1> HIDE DEF c
<1>5. {<<p, OneEach(CellsOf(p, q))>> : p \in Packable(r, q)}' =
        {<<p, OneEach(CellsOf(p, q))>> : p \in Packable(r, q)}
  BY <1>4 DEF OneEach
<1>6. QED
  BY <1>2, <1>3, <1>5 DEF AreLoads, c

(* Operations that touch no load.                                          *)
LEMMA OtherStepsLoads ==
  ASSUME IInv, IInv', LInv, NEW r \in Ranks,
         \/ SendGhostValues(r) \/ TakeGhostValues(r)
         \/ SendCounts(r) \/ SendParticles(r) \/ TakeGhosts(r)
  PROVE LInv'
<1>1. Types /\ Added /\ LoadsSent
  BY DEF IInv, LInv
<1> DEFINE Ways == {<<"update", "refresh">>, <<"refresh", "step">>, <<"counts", "particles">>,
                     <<"particles", "ghosts">>, <<"ghosts", "step">>}
           Keeps == UNCHANGED <<subdomain, pattern, loc, home, tied, load>>
           Goes == \E way \in Ways : Go(r, way[1], way[2])
           Mails == \E taken, sent : /\ mail' = Mail(taken, sent)
                                     /\ \A q, s \in Ranks : q # r => To(q, s, 0) \notin DOMAIN sent
<1>2. ASSUME SendGhostValues(r) PROVE Keeps /\ Goes /\ Mails
  <2>1. Go(r, "update", "refresh") /\ Keeps
    BY <1>2 DEF SendGhostValues
  <2> DEFINE sent == [c \in ToAll(r, Targets(r), 1) |->
                       [i \in DOMAIN toSend[r][c[2]] |->
                          [loc |-> loc[toSend[r][c[2]][i]], load |-> load[toSend[r][c[2]][i]]]]]
  <2>2. mail' = Mail({}, sent) /\ \A q, s \in Ranks : q # r => To(q, s, 0) \notin DOMAIN sent
    BY <1>2, ChannelFacts DEF SendGhostValues
  <2> HIDE DEF sent
  <2>3. QED
    BY <2>1, <2>2
<1>3. ASSUME TakeGhostValues(r) PROVE Keeps /\ Goes /\ Mails
  <2>1. Go(r, "refresh", "step") /\ Keeps /\ mail' = Mail(FromAll(r, Sources(r), 1), Nothing)
    BY <1>3 DEF TakeGhostValues
  <2>2. QED
    BY <2>1 DEF Nothing
<1>4. ASSUME SendCounts(r) PROVE Keeps /\ Goes /\ Mails
  <2>1. Go(r, "counts", "particles") /\ Keeps
    BY <1>4 DEF SendCounts
  <2> DEFINE sent == [c \in ToAll(r, Neighbours(r), 0) |-> Len(Packed(r, c[2]))]
  <2>2. mail' = Mail({}, sent) /\ \A q, s \in Ranks : q # r => To(q, s, 0) \notin DOMAIN sent
    BY <1>4, ChannelFacts DEF SendCounts
  <2> HIDE DEF sent
  <2>3. QED
    BY <2>1, <2>2
<1>5. ASSUME SendParticles(r) PROVE Keeps /\ Goes /\ Mails
  <2>1. Go(r, "particles", "ghosts") /\ Keeps
    BY <1>5 DEF SendParticles
  <2> DEFINE sent == [c \in ToAll(r, Neighbours(r), 1) |->
                       [i \in DOMAIN Packed(r, c[2]) |->
                          LET p == Packed(r, c[2])[i]
                          IN [id |-> p, cell |-> find_particle_cache_cell(home[p]), loc |-> loc[p],
                              load |-> load[p]]]]
  <2>2. mail' = Mail(FromAll(r, Senders(r), 0), sent)
    BY <1>5 DEF SendParticles
  <2>3. \A q, s \in Ranks : q # r => To(q, s, 0) \notin DOMAIN sent
    BY ChannelFacts
  <2> HIDE DEF sent
  <2>4. QED
    BY <2>1, <2>2, <2>3
<1>6. ASSUME TakeGhosts(r) PROVE Keeps /\ Goes /\ Mails
  <2>1. Go(r, "ghosts", "step") /\ Keeps /\ mail' = Mail(FromAll(r, Senders(r), 1), Nothing)
    BY <1>6 DEF TakeGhosts
  <2>2. QED
    BY <2>1 DEF Nothing
<1>7. Keeps /\ Goes /\ Mails
  BY <1>2, <1>3, <1>4, <1>5, <1>6
<1>8. \A q \in Ranks : /\ pc'[q] \in {"compress", "move"} => q # r /\ pc'[q] = pc[q]
                       /\ pc[q] = "move" => pc'[q] = "move"
  <2>1. PICK way \in Ways : Go(r, way[1], way[2])
    BY <1>7
  <2>2. QED
    BY <1>1, <2>1 DEF Go, Types
<1>9. PICK taken, sent : /\ mail' = Mail(taken, sent)
                         /\ \A q, s \in Ranks : q # r => To(q, s, 0) \notin DOMAIN sent
  BY <1>7
<1>10. LoadsSent'
  <2>1. ASSUME NEW q \in Ranks, NEW s \in Ranks, LoadsDue(q, s)'
        PROVE AreLoads(Head(mail[To(q, s, 0)]), q, s)'
    <3>1. q # r /\ LoadsDue(q, s)
      BY <1>7, <1>8, <2>1, PackedStays DEF LoadsDue
    <3>2. To(q, s, 0) \notin DOMAIN sent
      BY <1>9, <3>1
    <3>3. QED
      BY <1>1, <1>7, <1>9, <2>1, <3>1, <3>2, LoadsStay
  <2>2. QED
    BY <2>1 DEF LoadsSent
<1>11. Added'
  <2>1. \A p \in Particles : subdomain[home[p]] \in Ranks
    BY <1>1, OwnFacts
  <2>2. QED
    BY <1>1, <1>7, <1>8, <2>1, HoldsStays DEF Added
<1>12. QED
  BY <1>10, <1>11 DEF LInv

(* At these places nothing is known of the loads.                          *)
LEMMA CollectiveLoads ==
  ASSUME IInv', NEW place \in {"sort", "counts", "update"}, All(place)'
  PROVE LInv'
<1>1. \A q \in Ranks : pc'[q] = place
  BY DEF All
<1>2. \A p \in Particles : subdomain'[home'[p]] \in Ranks
  <2>1. subdomain' \in [ActiveCells -> Ranks] /\ home' \in [Particles -> ActiveCells]
    BY ParticleAssumption DEF IInv, Types
  <2>2. QED
    BY <2>1
<1>3. QED
  BY <1>1, <1>2 DEF LInv, Added, LoadsSent, LoadsDue

(* The push of a rank on a particle is that of its own cells.              *)
LEMMA FluidFacts ==
  ASSUME IInv, NEW r \in Ranks, pc[r] = "step", NEW v \in Visible(r)
  PROVE FluidLoad(r, v) = OneEach(CellsOf(v.id, r))
<1>1. Listings(r, v) = 1
  BY SeesFacts DEF Served, Working, Listings
<1>2. v.loc = loc[v.id]
  BY SeesAll
<1>3. QED
  BY <1>1, <1>2 DEF FluidLoad, OneEach, CellsOf

(* Every contact counts once.                                              *)
LEMMA ContactLoads ==
  ASSUME IInv, NInv, NEW r \in Ranks, pc[r] = "step", NEW p \in Own(r)
  PROVE \E O \in SUBSET Others(p) : ContactLoad(r, p) = OneEach(O) /\ (tied \/ O = Others(p))
<1> DEFINE O == {<<"particle", v.id>> : v \in Contacts(r, p)}
<1>1. \A v \in Contacts(r, p) : v \in Visible(r) /\ v.id \in Touching(p)
  BY ContactsFacts
<1>2. O \in SUBSET Others(p)
  BY <1>1 DEF Others
<1>3. ASSUME NEW s \in O PROVE Cardinality({v \in Contacts(r, p) : v.id = s[2]}) = 1
  <2>1. PICK w \in Contacts(r, p) : s = <<"particle", w.id>>
    BY <1>3
  <2>2. \A v \in Contacts(r, p) : v.id = w.id => v = w
    BY <1>1, SeesAll
  <2>3. {v \in Contacts(r, p) : v.id = s[2]} = {w}
    BY <2>1, <2>2
  <2>4. QED
    BY <2>3, FS_Singleton
<1>4. ContactLoad(r, p) = OneEach(O)
  <2>1. ContactLoad(r, p) = [s \in O |-> Cardinality({v \in Contacts(r, p) : v.id = s[2]})]
    BY DEF ContactLoad
  <2> HIDE DEF O
  <2>2. QED
    BY <1>3, <2>1 DEF OneEach
<1>5. tied \/ O = Others(p)
  <2>1. ASSUME ~tied, NEW q \in Touching(p) PROVE <<"particle", q>> \in O
    BY <2>1, ContactsFacts
  <2>2. QED
    BY <1>2, <2>1 DEF Others
<1>6. QED
  BY <1>2, <1>4, <1>5

(* Enough to look at each particle and its owner.                          *)
LEMMA AddedAfter ==
  ASSUME Types, UNCHANGED <<subdomain, home>>,
         \A p \in Particles, o \in Ranks : subdomain[home[p]] = o =>
           /\ pc'[o] = "compress" => Holds(p, CellsOf(p, o))'
           /\ pc'[o] = "move" => Holds(p, AllCells(p))'
  PROVE Added'
<1>1. \A p \in Particles : subdomain[home[p]] \in Ranks
  BY OwnFacts
<1>2. QED
  BY <1>1 DEF Added

(* Owners hold their own part, and the rest is sent to them.               *)
LEMMA ComputeLoadsLoads ==
  ASSUME IInv, IInv', NInv, LInv, NEW r \in Ranks, ComputeLoads(r)
  PROVE LInv'
<1>1. Types /\ Kept /\ Abreast /\ Mailed /\ Added /\ LoadsSent
  BY DEF IInv, LInv
<1>2. /\ pc[r] = "step" /\ Served(r)
      /\ \A q \in Ranks : pc'[q] = IF q = r THEN "compress" ELSE pc[q]
  BY <1>1 DEF ComputeLoads, Go, Types, Served, Working
<1>3. UNCHANGED <<subdomain, pattern, loc, home, tied>>
  BY DEF ComputeLoads
<1> DEFINE found == [i \in DOMAIN ghosts[r] |->
                      GhostReset(ghosts[r][i].load) (+) FluidLoad(r, GhostView(r, i))]
           back(q) == {<<ghosts[r][i].id, found[i]>> : i \in Handles(r, q)}
           sent == [c \in ToAll(r, Sources(r), 0) |-> back(c[2])]
<1>4. /\ load' = [p \in Particles |->
           IF p \in Own(r) THEN ContactLoad(r, p) (+) FluidLoad(r, View(r, p)) ELSE load[p]]
      /\ mail' = Mail({}, sent)
  BY DEF ComputeLoads
<1>5. ASSUME NEW i \in DOMAIN ghosts[r] PROVE found[i] = OneEach(CellsOf(ghosts[r][i].id, r))
  <2>1. PICK v \in Visible(r) : v.handle = i
    <3>1. [id |-> ghosts[r][i].id, handle |-> i, cell |-> Cache(ghosts[r][i].id),
           loc |-> ghosts[r][i].loc] \in Visible(r)
      BY <1>2, SeesFacts
    <3>2. QED
      BY <3>1
  <2> DEFINE w == GhostView(r, i)
  <2>2. w \in Visible(r) /\ w.handle = i
    BY <2>1 DEF GhostView
  <2> HIDE DEF w
  <2>3. w.id = ghosts[r][i].id
    <3>1. \/ w = [id |-> w.id, handle |-> 0, cell |-> w.cell, loc |-> loc[w.id]]
          \/ w.id = ghosts[r][w.handle].id
      BY <1>2, <2>2, SeesFacts
    <3>2. i # 0
      BY <1>2, GhostIds
    <3>3. \A a, b, c : [id |-> a, handle |-> 0, cell |-> b, loc |-> c].handle = 0
      OBVIOUS
    <3>4. QED
      BY <2>2, <3>1, <3>2, <3>3
  <2>4. FluidLoad(r, w) = OneEach(CellsOf(ghosts[r][i].id, r))
    BY <1>2, <2>2, <2>3, FluidFacts
  <2>5. EmptyBag (+) FluidLoad(r, w) = OneEach({} \cup CellsOf(ghosts[r][i].id, r))
    BY <2>4, OneEachFacts
  <2>6. found[i] = EmptyBag (+) FluidLoad(r, w)
    BY DEF GhostReset, w
  <2>7. {} \cup CellsOf(ghosts[r][i].id, r) = CellsOf(ghosts[r][i].id, r)
    OBVIOUS
  <2>8. QED
    BY <2>5, <2>6, <2>7
<1> HIDE DEF found
<1>6. ASSUME NEW q \in Ranks
      PROVE AreLoads(back(q), r, q)
  <2>1. UnpackedAt(r) /\ \A s \in Ranks : count[r][s] = Len(Packed(s, r))
    BY <1>1, <1>2 DEF IInv, Unpacked, Kept, Served
  <2>2. start[r][q] \in Nat
    BY <1>1 DEF Types
  <2>3. ASSUME NEW p \in Packable(q, r) PROVE <<p, OneEach(CellsOf(p, r))>> \in back(q)
    <3>1. PICK i \in 1 .. Len(Packed(q, r)) : Packed(q, r)[i] = p
      BY <1>1, PackedFacts
    <3> DEFINE h == start[r][q] + i
    <3>2. h \in DOMAIN ghosts[r] /\ ghosts[r][h].id = p
      <4>1. \A s \in Ranks : \A j \in 1 .. Len(Packed(s, r)) :
              start[r][s] + j \in DOMAIN ghosts[r] /\ ghosts[r][start[r][s] + j].id = Packed(s, r)[j]
        BY <1>1, <2>1, SlotFacts
      <4>2. QED
        BY <3>1, <4>1
    <3>3. start[r][q] < h /\ h <= start[r][q] + count[r][q]
      BY <1>1, <2>1, <2>2, PackedFacts
    <3> HIDE DEF h
    <3>4. h \in Handles(r, q)
      BY <3>2, <3>3 DEF Handles
    <3>5. <<p, OneEach(CellsOf(p, r))>> = <<ghosts[r][h].id, found[h]>>
      BY <1>5, <3>2
    <3>6. QED
      BY <3>4, <3>5
  <2>4. ASSUME NEW h \in Handles(r, q)
        PROVE \E p \in Packable(q, r) : <<ghosts[r][h].id, found[h]>> = <<p, OneEach(CellsOf(p, r))>>
    <3>1. h \in DOMAIN ghosts[r] /\ start[r][q] < h /\ h <= start[r][q] + count[r][q]
      BY DEF Handles
    <3> DEFINE i == h - start[r][q]
    <3>2. h \in Nat
      BY <1>2, <3>1, GhostIds
    <3>3. i \in 1 .. Len(Packed(q, r)) /\ h = start[r][q] + i
      BY <1>1, <2>1, <2>2, <3>1, <3>2, PackedFacts
    <3> HIDE DEF i
    <3>4. ghosts[r][h].id = Packed(q, r)[i]
      <4>1. \A s \in Ranks : \A j \in 1 .. Len(Packed(s, r)) :
              start[r][s] + j \in DOMAIN ghosts[r] /\ ghosts[r][start[r][s] + j].id = Packed(s, r)[j]
        BY <1>1, <2>1, SlotFacts
      <4>2. QED
        BY <3>3, <4>1
    <3>5. ghosts[r][h].id \in Packable(q, r)
      BY <1>1, <3>3, <3>4, PackedFacts
    <3>6. found[h] = OneEach(CellsOf(ghosts[r][h].id, r))
      BY <1>5, <3>1
    <3>7. QED
      BY <3>5, <3>6
  <2>5. QED
    BY <2>3, <2>4 DEF AreLoads
<1> HIDE DEF back
<1>7. LoadsSent'
  <2>1. ASSUME NEW q \in Ranks, NEW s \in Ranks, LoadsDue(q, s)'
        PROVE AreLoads(Head(mail[To(q, s, 0)]), q, s)'
    <3>1. CASE q # r
      <4>1. LoadsDue(q, s)
        BY <1>2, <1>3, <2>1, <3>1, PackedStays DEF LoadsDue
      <4>2. To(q, s, 0) \notin DOMAIN sent
        BY <3>1, ChannelFacts
      <4> HIDE DEF sent
      <4>3. QED
        BY <1>1, <1>3, <1>4, <2>1, <4>1, <4>2, LoadsStay
    <3>2. CASE q = r
      <4>1. Packed(s, r) # <<>>
        BY <1>3, <2>1, <3>2, PackedStays DEF LoadsDue
      <4>2. s # r /\ s \in Sources(r)
        <5>1. Sends(s, r)
          BY <1>1, <4>1, PackedFacts
        <5>2. s # r
          BY <1>1, <5>1, PatternFacts DEF Sends
        <5>3. count[r][s] = Len(Packed(s, r))
          BY <1>1, <1>2 DEF Kept, Served
        <5>4. QED
          BY <1>1, <4>1, <5>2, <5>3, PackedFacts DEF Sources
      <4>3. mail[To(r, s, 0)] = <<>>
        <5>1. ~LoadsDue(r, s) /\ ~CountsDue(r, s)
          BY <1>2 DEF LoadsDue, CountsDue
        <5>2. QED
          BY <1>1, <5>1 DEF Mailed, Box0
      <4>4. To(r, s, 0) \in Channels /\ To(r, s, 0) \in DOMAIN sent /\ To(r, s, 0)[2] = s
        BY <4>2, ChannelFacts DEF To
      <4>5. sent[To(r, s, 0)] = back(s)
        BY <4>4
      <4> HIDE DEF sent
      <4>6. mail'[To(r, s, 0)] = <<back(s)>>
        BY <1>4, <4>3, <4>4, <4>5, MailAt
      <4>7. Head(mail'[To(r, s, 0)]) = back(s)
        BY <4>6
      <4>8. Packable(s, r)' = Packable(s, r) /\ \A p : CellsOf(p, r)' = CellsOf(p, r)
        BY <1>3 DEF Packable, Own, Cache, CellsOf, OwnCells
      <4>9. {<<p, OneEach(CellsOf(p, r))>> : p \in Packable(s, r)}' =
              {<<p, OneEach(CellsOf(p, r))>> : p \in Packable(s, r)}
        BY <4>8 DEF OneEach
      <4>10. QED
        BY <1>6, <3>2, <4>7, <4>9 DEF AreLoads
    <3>3. QED
      BY <3>1, <3>2
  <2>2. QED
    BY <2>1 DEF LoadsSent
<1>8. ASSUME NEW p \in Own(r) PROVE Holds(p, CellsOf(p, r))'
  <2>1. p \in Particles
    BY DEF Own
  <2> DEFINE w == View(r, p)
  <2>2. w \in Visible(r) /\ w.id = p
    <3>1. [id |-> p, handle |-> 0, cell |-> Cache(p), loc |-> loc[p]] \in Visible(r)
      BY <1>2, SeesFacts
    <3>2. \E v \in Visible(r) : v.id = p /\ v.handle = 0
      BY <3>1
    <3>3. QED
      BY <3>2 DEF View
  <2> HIDE DEF w
  <2>3. FluidLoad(r, w) = OneEach(CellsOf(p, r))
    BY <1>2, <2>2, FluidFacts
  <2>4. PICK O \in SUBSET Others(p) : ContactLoad(r, p) = OneEach(O) /\ (tied \/ O = Others(p))
    BY <1>2, ContactLoads
  <2>5. O \cap CellsOf(p, r) = {}
    BY <2>1, CellsFacts
  <2>6. load'[p] = ContactLoad(r, p) (+) FluidLoad(r, w)
    BY <1>4, <2>1 DEF w
  <2>7. load'[p] = OneEach(O \cup CellsOf(p, r))
    BY <2>3, <2>4, <2>5, <2>6, OneEachFacts
  <2>8. DOMAIN load'[p] = O \cup CellsOf(p, r)
    BY <2>7, OneEachFacts
  <2>9. CellsOf(p, r)' = CellsOf(p, r) /\ Others(p)' = Others(p) /\ tied' = tied
    BY <1>3, HoldsStays
  <2>10. QED
    BY <2>4, <2>7, <2>8, <2>9 DEF Holds, OneEach
<1>9. Added'
  <2>1. ASSUME NEW p \in Particles, NEW o \in Ranks, subdomain[home[p]] = o
        PROVE /\ pc'[o] = "compress" => Holds(p, CellsOf(p, o))'
              /\ pc'[o] = "move" => Holds(p, AllCells(p))'
    <3>1. CASE o = r
      <4>1. p \in Own(r) /\ pc'[o] = "compress"
        BY <1>2, <2>1, <3>1 DEF Own
      <4>2. QED
        BY <1>8, <3>1, <4>1
    <3>2. CASE o # r
      <4>1. load'[p] = load[p] /\ pc'[o] = pc[o]
        BY <1>2, <1>4, <2>1, <3>2 DEF Own
      <4>2. QED
        BY <1>1, <1>3, <2>1, <4>1, HoldsStays DEF Added
    <3>3. QED
      BY <3>1, <3>2
  <2>2. QED
    BY <1>1, <1>3, <2>1, AddedAfter
<1>10. QED
  BY <1>7, <1>9 DEF LInv

(* What the other ranks have found on the ghosts of a particle of this one.*)
Came(r, p) ==
  LET from == FromAll(r, Targets(r), 0)
  IN {x \in {<<c, m>> : c \in from, m \in UNION {Head(mail[c]) : c \in from}} :
        x[2] \in Head(mail[x[1]]) /\ x[2][1] = p}
From(r, p) == {q \in Ranks : p \in Packable(r, q)}
Came1(r, p, q) == <<To(q, r, 0), <<p, OneEach(CellsOf(p, q))>>>>

(* It is one message part from every rank the particle was sent to.        *)
LEMMA CameFacts ==
  ASSUME IInv, LInv, NEW r \in Ranks, Compress(r), NEW p
  PROVE /\ \A q \in From(r, p) : Came1(r, p, q) \in Came(r, p)
        /\ \A x \in Came(r, p) : \E q \in From(r, p) : x = Came1(r, p, q)
<1>1. Types /\ Kept /\ Mailed /\ LoadsSent /\ pc[r] = "compress"
  BY DEF IInv, LInv, Compress, Go
<1>2. \A q \in Ranks : q \in Targets(r) <=> Packed(r, q) # <<>>
  BY <1>1 DEF Kept, Targets, Working
<1>3. ASSUME NEW q \in Targets(r) PROVE AreLoads(Head(mail[To(q, r, 0)]), q, r)
  <2>1. q \in Ranks /\ mail[To(q, r, 0)] # <<>>
    BY ChannelFacts DEF Compress, Arrived, Targets
  <2>2. LoadsDue(q, r)
    BY <1>1, <2>1 DEF Mailed, Box0, CountsDue
  <2>3. QED
    BY <1>1, <2>1, <2>2 DEF LoadsSent
<1> DEFINE from == FromAll(r, Targets(r), 0)
           pairs == {<<c, m>> : c \in from, m \in UNION {Head(mail[c]) : c \in from}}
<1>4. Came(r, p) = {x \in pairs : x[2] \in Head(mail[x[1]]) /\ x[2][1] = p}
  BY DEF Came
<1>5. ASSUME NEW q \in From(r, p) PROVE Came1(r, p, q) \in Came(r, p)
  <2>1. q \in Ranks /\ p \in Packable(r, q)
    BY DEF From
  <2>2. Packed(r, q) # <<>>
    BY <1>1, <2>1, PackedFacts
  <2>3. q \in Targets(r)
    BY <1>2, <2>1, <2>2
  <2> DEFINE c == To(q, r, 0)
             m == <<p, OneEach(CellsOf(p, q))>>
  <2>4. c \in from
    BY <2>3, ChannelFacts
  <2>5. m \in Head(mail[c])
    BY <1>3, <2>1, <2>3 DEF AreLoads
  <2>6. m[1] = p /\ Came1(r, p, q) = <<c, m>>
    BY DEF Came1
  <2> HIDE DEF c, m, from
  <2>7. <<c, m>> \in pairs
    BY <2>4, <2>5
  <2> HIDE DEF pairs
  <2>8. QED
    BY <1>4, <2>5, <2>6, <2>7
<1>6. ASSUME NEW x \in Came(r, p) PROVE \E q \in From(r, p) : x = Came1(r, p, q)
  <2>1. PICK c \in from, m \in UNION {Head(mail[d]) : d \in from} :
          x = <<c, m>> /\ m \in Head(mail[c]) /\ m[1] = p
    <3> HIDE DEF from
    <3>1. PICK c \in from, m \in UNION {Head(mail[d]) : d \in from} :
            x = <<c, m>> /\ x[2] \in Head(mail[x[1]]) /\ x[2][1] = p
      BY <1>4
    <3>2. QED
      BY <3>1
  <2>2. PICK q \in Targets(r) : c = To(q, r, 0)
    BY <2>1 DEF FromAll
  <2>3. AreLoads(Head(mail[c]), q, r)
    BY <1>3, <2>2
  <2>4. PICK s \in Packable(r, q) : m = <<s, OneEach(CellsOf(s, q))>>
    BY <2>1, <2>3 DEF AreLoads
  <2>5. s = p
    BY <2>1, <2>4
  <2>6. q \in From(r, p)
    BY <2>4, <2>5 DEF From, Targets
  <2>7. QED
    BY <2>1, <2>2, <2>4, <2>5, <2>6 DEF Came1
<1>7. QED
  BY <1>5, <1>6

(* They name different cells, and there are finitely many.                 *)
LEMMA CameOnce ==
  ASSUME IInv, LInv, NEW r \in Ranks, Compress(r), NEW p
  PROVE /\ IsFiniteSet(Came(r, p))
        /\ \A x \in Came(r, p) : x[2][2] = OneEach(DOMAIN x[2][2])
        /\ Marks(Came(r, p)) = UNION {CellsOf(p, q) : q \in From(r, p)}
        /\ \A x \in Came(r, p) : \E q \in From(r, p) : DOMAIN x[2][2] = CellsOf(p, q)
        /\ \A x, y \in Came(r, p) : x # y => DOMAIN x[2][2] \cap DOMAIN y[2][2] = {}
<1>1. /\ \A q \in From(r, p) : Came1(r, p, q) \in Came(r, p)
      /\ \A x \in Came(r, p) : \E q \in From(r, p) : x = Came1(r, p, q)
  BY CameFacts
<1>2. \A q : /\ Came1(r, p, q)[2][2] = OneEach(CellsOf(p, q))
             /\ DOMAIN Came1(r, p, q)[2][2] = CellsOf(p, q)
  BY OneEachFacts DEF Came1
<1>3. IsFiniteSet(Came(r, p))
  <2> DEFINE f == [q \in From(r, p) |-> Came1(r, p, q)]
  <2>1. IsFiniteSet(From(r, p))
    BY ParticleAssumption, FS_Subset DEF From
  <2>2. f \in Surjection(From(r, p), Came(r, p))
    BY <1>1 DEF Surjection
  <2>3. QED
    BY <2>1, <2>2, FS_Surjection
<1>4. \A x \in Came(r, p) : \E q \in From(r, p) : DOMAIN x[2][2] = CellsOf(p, q)
  BY <1>1, <1>2
<1>5. Marks(Came(r, p)) = UNION {CellsOf(p, q) : q \in From(r, p)}
  <2>1. \A s : s \in Marks(Came(r, p)) <=> \E x \in Came(r, p) : s \in DOMAIN x[2][2]
    BY DEF Marks
  <2>2. \A s : s \in Marks(Came(r, p)) <=> \E q \in From(r, p) : s \in CellsOf(p, q)
    BY <1>1, <1>2, <2>1
  <2>3. QED
    BY <2>2
<1>6. \A x \in Came(r, p) : x[2][2] = OneEach(DOMAIN x[2][2])
  BY <1>1, <1>2
<1>7. ASSUME NEW x \in Came(r, p), NEW y \in Came(r, p), x # y
      PROVE DOMAIN x[2][2] \cap DOMAIN y[2][2] = {}
  <2>1. PICK q \in From(r, p) : x = Came1(r, p, q)
    BY <1>1
  <2>2. PICK s \in From(r, p) : y = Came1(r, p, s)
    BY <1>1
  <2>3. q \in Ranks /\ s \in Ranks /\ q # s
    BY <1>7, <2>1, <2>2 DEF From
  <2>4. CellsOf(p, q) \cap CellsOf(p, s) = {}
    BY <2>3 DEF CellsOf, OwnCells
  <2>5. QED
    BY <1>2, <2>1, <2>2, <2>4
<1>8. QED
  BY <1>3, <1>4, <1>5, <1>6, <1>7

(* What was missing arrives: every cell that is not the owner's.           *)
LEMMA CompressLoads ==
  ASSUME IInv, IInv', NInv, LInv, NEW r \in Ranks, Compress(r)
  PROVE LInv'
<1>1. Types /\ Added /\ LoadsSent
  BY DEF IInv, LInv
<1>2. pc[r] = "compress" /\ \A q \in Ranks : pc'[q] = IF q = r THEN "move" ELSE pc[q]
  BY <1>1 DEF Compress, Go, Types
<1>3. UNCHANGED <<subdomain, pattern, loc, home, tied>>
  BY DEF Compress
<1>4. \A p \in Particles : load'[p] = Gathered(load[p], Came(r, p))
  BY DEF Compress, Gathered, Came, FoldSet, MapThenFoldSet
<1>5. mail' = Mail(FromAll(r, Targets(r), 0), Nothing) /\ DOMAIN Nothing = {}
  <2>1. mail' = Mail(FromAll(r, Targets(r), 0), Nothing)
    BY DEF Compress
  <2>2. QED
    BY <2>1 DEF Nothing
<1>6. LoadsSent'
  <2>1. ASSUME NEW q \in Ranks, NEW s \in Ranks, LoadsDue(q, s)'
        PROVE AreLoads(Head(mail[To(q, s, 0)]), q, s)'
    <3>1. LoadsDue(q, s)
      BY <1>2, <1>3, <2>1, PackedStays DEF LoadsDue
    <3>2. To(q, s, 0) \notin DOMAIN Nothing
      BY <1>5
    <3>3. QED
      BY <1>1, <1>3, <1>5, <2>1, <3>1, <3>2, LoadsStay
  <2>2. QED
    BY <2>1 DEF LoadsSent
<1>7. ASSUME NEW p \in Particles, NEW o \in Ranks, subdomain[home[p]] = o, o # r,
             pc[o] \in {"compress", "move"}
      PROVE load'[p] = load[p]
  <2>1. load[p] = OneEach(DOMAIN load[p])
    BY <1>1, <1>7 DEF Added, Holds
  <2>2. From(r, p) = {}
    BY <1>7 DEF From, Packable, Own
  <2>3. Came(r, p) = {}
    BY <2>2, CameFacts
  <2> DEFINE D == DOMAIN load[p]
  <2>4. Gathered(OneEach(D), {}) = OneEach(D \cup Marks({}))
    BY FS_EmptySet, GatheredOnce
  <2>5. D \cup Marks({}) = D
    BY DEF Marks
  <2> HIDE DEF D
  <2>6. Gathered(OneEach(D), {}) = OneEach(D)
    BY <2>4, <2>5
  <2>7. QED
    BY <1>4, <2>1, <2>3, <2>6 DEF D
<1>8. ASSUME NEW p \in Own(r) PROVE Holds(p, AllCells(p))'
  <2>1. p \in Particles /\ subdomain[home[p]] = r
    BY DEF Own
  <2>2. Holds(p, CellsOf(p, r))
    BY <1>1, <1>2, <2>1 DEF Added
  <2> DEFINE D == DOMAIN load[p]
             U == UNION {CellsOf(p, q) : q \in From(r, p)}
  <2>3. /\ load[p] = OneEach(D) /\ CellsOf(p, r) \subseteq D /\ D \subseteq CellsOf(p, r) \cup Others(p)
        /\ tied \/ Others(p) \subseteq D
    BY <2>2 DEF Holds
  <2>4. \A q \in From(r, p) : q \in Ranks /\ q # r
    BY <1>1, PatternFacts DEF From, Packable
  <2>5. \A q \in From(r, p) : D \cap CellsOf(p, q) = {}
    <3> HIDE DEF D
    <3>1. \A q \in From(r, p) : CellsOf(p, q) \cap CellsOf(p, r) = {} /\ CellsOf(p, q) \cap Others(p) = {}
      BY <2>1, <2>4, CellsFacts
    <3>2. QED
      BY <2>3, <3>1
  <2>6. U \subseteq AllCells(p)
    BY <2>1, <2>4, CellsFacts
  <2>7. ASSUME NEW s \in AllCells(p) PROVE s \in CellsOf(p, r) \cup U
    <3>1. PICK q \in Ranks : s \in CellsOf(p, q)
      BY <2>1, CellsFacts
    <3>2. CASE q # r
      <4>1. Overlapped(loc[p]) \cap OwnCells(q) # {}
        BY <3>1 DEF CellsOf
      <4>2. ~All("sort")
        BY <1>2 DEF All
      <4>3. Beside(q, p)
        BY <2>1, <4>1, <4>2, OverlapBeside
      <4>4. p \in Packable(r, q)
        <5>1. pattern[r][q] = {k \in Ancestors(subdomain, r) : Around(k) \cap Ancestors(subdomain, q) # {}}
          BY <1>1, <3>2, PatternFacts
        <5>2. Cache(p) \in Ancestors(subdomain, r)
          BY <1>1, OwnFacts
        <5>3. QED
          BY <4>3, <5>1, <5>2 DEF Packable, Beside
      <4>5. q \in From(r, p)
        BY <4>4 DEF From
      <4>6. QED
        BY <3>1, <4>5
    <3>3. QED
      BY <3>1, <3>2
  <2>8. CellsOf(p, r) \subseteq AllCells(p)
    BY <2>1, CellsFacts
  <2> HIDE DEF U, D
  <2>9. Gathered(OneEach(D), Came(r, p)) = OneEach(D \cup Marks(Came(r, p)))
    <3>1. IsFiniteSet(Came(r, p))
      BY CameOnce
    <3>2. \A x \in Came(r, p) : x[2][2] = OneEach(DOMAIN x[2][2]) /\ D \cap DOMAIN x[2][2] = {}
      BY <2>5, CameOnce
    <3>3. \A x, y \in Came(r, p) : x # y => DOMAIN x[2][2] \cap DOMAIN y[2][2] = {}
      BY CameOnce
    <3>4. QED
      BY <3>1, <3>2, <3>3, GatheredOnce
  <2>10. load'[p] = OneEach(D \cup U)
    BY <1>4, <2>1, <2>3, <2>9, CameOnce DEF U
  <2>11. DOMAIN load'[p] = D \cup U
    BY <2>10, OneEachFacts
  <2>12. AllCells(p)' = AllCells(p) /\ Others(p)' = Others(p) /\ tied' = tied
    BY <1>3, HoldsStays
  <2>13. AllCells(p) \subseteq D \cup U /\ D \cup U \subseteq AllCells(p) \cup Others(p)
    BY <2>3, <2>6, <2>7, <2>8
  <2>14. QED
    BY <2>3, <2>10, <2>11, <2>12, <2>13 DEF Holds, OneEach
<1>9. Added'
  <2>1. ASSUME NEW p \in Particles, NEW o \in Ranks, subdomain[home[p]] = o
        PROVE /\ pc'[o] = "compress" => Holds(p, CellsOf(p, o))'
              /\ pc'[o] = "move" => Holds(p, AllCells(p))'
    <3>1. CASE o = r
      BY <1>2, <1>8, <2>1, <3>1 DEF Own
    <3>2. CASE o # r /\ pc[o] \in {"compress", "move"}
      <4>1. load'[p] = load[p] /\ pc'[o] = pc[o]
        BY <1>2, <1>7, <2>1, <3>2
      <4>2. QED
        BY <1>1, <1>3, <2>1, <4>1, HoldsStays DEF Added
    <3>3. CASE o # r /\ pc[o] \notin {"compress", "move"}
      BY <1>2, <3>3
    <3>4. QED
      BY <3>1, <3>2, <3>3
  <2>2. QED
    BY <1>1, <1>3, <2>1, AddedAfter
<1>10. QED
  BY <1>6, <1>9 DEF LInv

(* Loads are first known when they are first computed.                     *)
LEMMA LInit == Init => LInv
<1> SUFFICES ASSUME Init PROVE LInv
  OBVIOUS
<1>1. \A q \in Ranks : pc[q] = "sort"
  BY DEF Init
<1>2. \A p \in Particles : subdomain[home[p]] \in Ranks
  BY InvInit, OwnFacts DEF IInv
<1>3. QED
  BY <1>1, <1>2 DEF LInv, Added, LoadsSent, LoadsDue

(* Every step, given the other two invariants.                             *)
LEMMA LStep == IInv /\ IInv' /\ NInv /\ LInv /\ [Next]_vars => LInv'
<1> SUFFICES ASSUME IInv, IInv', NInv, LInv, [Next]_vars PROVE LInv'
  OBVIOUS
<1>1. CASE \E r \in Ranks : ComputeLoads(r)
  BY <1>1, ComputeLoadsLoads
<1>2. CASE \E r \in Ranks : Compress(r)
  BY <1>2, CompressLoads
<1>3. CASE \E r \in Ranks : \/ SendGhostValues(r) \/ TakeGhostValues(r)
                            \/ SendCounts(r) \/ SendParticles(r) \/ TakeGhosts(r)
  BY <1>3, OtherStepsLoads
<1>4. CASE AdvanceTime \/ SortIntoCells \/ CoarsenAndRefine
  <2>1. \E place \in {"sort", "counts", "update"} : pc' = [q \in Ranks |-> place]
    BY <1>4 DEF AdvanceTime, SortIntoCells, CoarsenAndRefine, GoAll
  <2>2. QED
    BY <2>1, CollectiveLoads DEF All
<1>5. CASE UNCHANGED vars
  <2>1. /\ UNCHANGED <<subdomain, pattern, loc, home, tied, load, mail, pc>>
        /\ \A p \in Particles : subdomain[home[p]] \in Ranks
    BY <1>5, OwnFacts DEF vars, IInv
  <2>2. /\ \A q, s \in Ranks : LoadsDue(q, s)' <=> LoadsDue(q, s)
        /\ \A q, s \in Ranks : Packable(q, s)' = Packable(q, s)
        /\ \A p, q : CellsOf(p, q)' = CellsOf(p, q)
    BY <2>1, PackedStays DEF LoadsDue, Packable, Own, Cache, CellsOf, OwnCells
  <2>3. LoadsSent'
    BY <2>1, <2>2 DEF LInv, LoadsSent, AreLoads, OneEach
  <2>4. Added'
    BY <2>1, HoldsStays DEF LInv, Added
  <2>5. QED
    BY <2>3, <2>4 DEF LInv
<1>6. QED
  BY <1>1, <1>2, <1>3, <1>4, <1>5 DEF Next, Finished

(* The invariant says what the property asks.                              *)
LEMMA LoadsFollow == IInv /\ LInv => LoadsOnce
<1> SUFFICES ASSUME IInv, LInv, All("move"), NEW p \in Particles
             PROVE LET found == BagToSet(load[p])
                       cells == {<<"cell", c>> : c \in Overlapped(loc[p])}
                       others == {<<"particle", q>> : q \in Touching(p)}
                   IN /\ \A s \in found : load[p][s] = 1
                      /\ cells \subseteq found /\ found \subseteq cells \cup others
                      /\ ~tied => others \subseteq found
  BY DEF LoadsOnce
<1>1. subdomain[home[p]] \in Ranks
  BY OwnFacts DEF IInv
<1>2. Holds(p, AllCells(p))
  BY <1>1 DEF LInv, Added, All
<1>3. \A s \in DOMAIN load[p] : load[p][s] = 1
  BY <1>2, OneEachFacts DEF Holds
<1>4. QED
  BY <1>2, <1>3 DEF Holds, AllCells, Others, BagToSet

(* The loads of the particles are complete and count everything once.      *)
THEOREM LoadsAreOnce == Spec => []LoadsOnce
<1>1. Init => IInv /\ NInv /\ LInv
  BY InvInit, NInit, LInit
<1>2. IInv /\ [Next]_vars => IInv'
  BY InvStep
<1>3. IInv /\ IInv' /\ NInv /\ [Next]_vars => NInv'
  BY NStep
<1>4. IInv /\ IInv' /\ NInv /\ LInv /\ [Next]_vars => LInv'
  BY LStep
<1>5. IInv /\ LInv => LoadsOnce
  BY LoadsFollow
<1>6. QED
  BY <1>1, <1>2, <1>3, <1>4, <1>5, PTL DEF Spec
=============================================================================

------------------------- MODULE CutInterfaceProofs -------------------------
(***************************************************************************)
(* Proofs about CutInterface for every mesh, every set of level sets and   *)
(* operations, and every number of processes.                              *)
(***************************************************************************)
EXTENDS CutInterface, FiniteSetTheorems, WellFoundedInduction, TLAPS

LEMMA LayoutFacts ==
  ASSUME NEW fe, NEW mesh, NEW w
  PROVE /\ Layout(fe, mesh, w).fe = fe
        /\ Layout(fe, mesh, w).mesh = mesh
        /\ Layout(fe, mesh, w).owner = Partition(w)
BY DEF Layout

(* Only a step that is being adapted to has a level set the cells were not *)
(* classified with, and only before the transfer the layout is another one *)
(* than the classifier's; the quadrature follows when the vectors are      *)
(* taken over.                                                             *)
Followed ==
  /\ pc # "adapt" => cls = Located(ls)
  /\ pc # "transfer" => lay.fe = cls
  /\ pc \in {"ready", "assemble", "linear"} => quad = Quadrature(ls, lay)

LEMMA FollowedInit == Init => Followed
<1> SUFFICES ASSUME Init PROVE Followed
  OBVIOUS
<1>1. cls = Located(ls) /\ lay = Layout(cls, 0, Uniform) /\ quad = Quadrature(ls, lay)
  BY DEF Init
<1>2. QED
  BY <1>1, LayoutFacts DEF Followed

LEMMA FollowedStep == Followed /\ [Next]_vars => Followed'
<1> SUFFICES ASSUME Followed, [Next]_vars PROVE Followed'
  OBVIOUS
<1> USE DEF Followed
<1>1. CASE MoveInterface
  BY <1>1 DEF MoveInterface
<1>2. CASE Classify
  <2>1. /\ pc = "adapt" /\ cls' = Located(ls) /\ UNCHANGED <<ls, lay>> /\ lay.fe = cls
        /\ IF op.early /\ Located(ls) = cls
             THEN quad' = Quadrature(ls, lay) /\ pc' = "assemble"
             ELSE pc' = "transfer"
    BY <1>2 DEF Classify, Swapped, EarlyQuadrature
  <2>2. Located(ls)' = Located(ls) /\ Quadrature(ls, lay)' = Quadrature(ls, lay)
    BY <2>1 DEF Located, Quadrature
  <2>3. QED
    BY <2>1, <2>2
<1>3. CASE Transfer
  <2>1. /\ pc = "transfer" /\ pc' = "extrapolate" /\ UNCHANGED <<ls, cls>>
        /\ lay' = Layout(cls, lay.mesh, Weights)
    BY <1>3 DEF Transfer
  <2>2. lay'.fe = cls /\ Located(ls)' = Located(ls)
    BY <2>1, LayoutFacts DEF Located
  <2>3. QED
    BY <2>1, <2>2
<1>4. CASE Extrapolate
  <2>1. /\ pc = "extrapolate" /\ UNCHANGED <<ls, cls, lay>>
        /\ pc' = "stopped" \/ (pc' = "assemble" /\ quad' = Quadrature(ls, lay))
    BY <1>4 DEF Extrapolate
  <2>2. Located(ls)' = Located(ls) /\ Quadrature(ls, lay)' = Quadrature(ls, lay)
    BY <2>1 DEF Located, Quadrature
  <2>3. QED
    BY <2>1, <2>2
<1>5. CASE Assemble \/ FinishSolve
  <2>1. /\ pc \in {"assemble", "linear"} /\ pc' \in {"linear", "ready", "stopped"}
        /\ UNCHANGED <<ls, cls, lay, quad>>
    BY <1>5 DEF Assemble, FinishSolve
  <2>2. Located(ls)' = Located(ls) /\ Quadrature(ls, lay)' = Quadrature(ls, lay)
    BY <2>1 DEF Located, Quadrature
  <2>3. QED
    BY <2>1, <2>2
<1>6. CASE Refine \/ Repartition
  <2>1. PICK w : ChangeMesh(w)
    BY <1>6 DEF Refine, Repartition
  <2>2. /\ cls' = Located(ls) /\ lay' = Layout(cls', lay.mesh + 1, w)
        /\ quad' = Quadrature(ls, lay') /\ UNCHANGED <<ls, pc>>
    BY <2>1 DEF ChangeMesh
  <2>3. lay'.fe = cls'
    BY <2>2, LayoutFacts
  <2>4. Located(ls)' = Located(ls) /\ Quadrature(ls, lay)' = Quadrature(ls, lay')
    BY <2>2 DEF Located, Quadrature
  <2>5. QED
    BY <2>2, <2>3, <2>4
<1>7. CASE Save
  BY <1>7 DEF Save, Located, Quadrature
<1>8. CASE Load
  <2>1. /\ cls' = Located(ls') /\ lay' = Layout(cls', snap.mesh, Uniform)
        /\ quad' = Quadrature(ls', lay')
    BY <1>8 DEF Load
  <2>2. lay'.fe = cls'
    BY <2>1, LayoutFacts
  <2>3. Located(ls)' = Located(ls') /\ Quadrature(ls, lay)' = Quadrature(ls', lay')
    BY DEF Located, Quadrature
  <2>4. QED
    BY <2>1, <2>2, <2>3
<1>9. CASE UNCHANGED vars
  BY <1>9 DEF vars, Located, Quadrature
<1>10. QED
  BY <1>1, <1>2, <1>3, <1>4, <1>5, <1>6, <1>7, <1>8, <1>9 DEF Next

LEMMA FollowedAlways == Spec => []Followed
BY FollowedInit, FollowedStep, PTL DEF Spec

(* Whenever an operator is evaluated, the quadrature of the cut cells      *)
(* belongs to this level set and this layout of the unknowns, and the      *)
(* layout to this level set: after an early return of the multiphase flow, *)
(* after a transfer, a change of the mesh and a restart.                   *)
THEOREM CutAlwaysFits == Spec => []CutFits
<1>1. Followed => CutFits
  BY DEF Followed, CutFits
<1>2. QED
  BY <1>1, FollowedAlways, PTL

-----------------------------------------------------------------------------
(* A preconditioner that is not marked for an update is the one of the     *)
(* layout, and a solve has updated the marked one.                         *)
Preconditioned == (~flag => prec = lay) /\ PreconditionerFits

LEMMA PreconditionedStep == Preconditioned /\ [Next]_vars => Preconditioned'
<1> SUFFICES ASSUME Preconditioned, [Next]_vars PROVE Preconditioned'
  OBVIOUS
<1>1. CASE flag' /\ pc' # "linear"
  BY <1>1 DEF Preconditioned, PreconditionerFits
<1>2. CASE UNCHANGED <<op, lay, prec, flag>> /\ (pc' = "linear" => pc = "linear")
  BY <1>2 DEF Preconditioned, PreconditionerFits
<1>3. CASE Assemble
  <2> DEFINE update == ~op.dg \/ (op.twoPhase /\ ((step - 1) % UpdateEvery = 0 \/ flag))
  <2>1. /\ UNCHANGED <<op, lay>>
        /\ prec' = IF update THEN lay ELSE prec
        /\ flag' = IF update THEN FALSE ELSE flag
    BY <1>3 DEF Assemble
  <2>2. CASE update
    BY <2>1, <2>2 DEF Preconditioned, PreconditionerFits
  <2>3. CASE ~update
    <3>1. UNCHANGED <<op, lay, prec, flag>> /\ op.dg /\ (op.twoPhase => ~flag)
      BY <2>1, <2>3
    <3>2. QED
      BY <3>1 DEF Preconditioned, PreconditionerFits
  <2>4. QED
    BY <2>2, <2>3
<1>4. CASE Transfer \/ Refine \/ Repartition \/ Load
  <2>1. flag' /\ pc' # "linear"
    BY <1>4 DEF Transfer, Refine, Repartition, ChangeMesh, UpdateFlag, Load
  <2>2. QED
    BY <1>1, <2>1
<1>5. CASE MoveInterface \/ Classify \/ Extrapolate \/ FinishSolve \/ Save \/ UNCHANGED vars
  <2>1. UNCHANGED <<op, lay, prec, flag>> /\ (pc' = "linear" => pc = "linear")
    BY <1>5 DEF MoveInterface, Classify, Extrapolate, FinishSolve, Save, vars
  <2>2. QED
    BY <1>2, <2>1
<1>6. QED
  BY <1>3, <1>4, <1>5 DEF Next

(* A solve that uses a preconditioner has one of the current layout,       *)
(* however seldom it is updated and whatever changed the layout before.    *)
THEOREM PreconditionerAlwaysFits == Spec => []PreconditionerFits
<1>1. Init => Preconditioned
  BY DEF Init, Preconditioned, PreconditionerFits
<1>2. Preconditioned => PreconditionerFits
  BY DEF Preconditioned
<1>3. QED
  BY <1>1, <1>2, PreconditionedStep, PTL DEF Spec

-----------------------------------------------------------------------------
(* The owners of the cells are those p4est finds for the cached weights.   *)
Owned == lay.owner = Partition(weights)

LEMMA OwnedStep == Owned /\ [Next]_vars => Owned'
<1> SUFFICES ASSUME Owned, [Next]_vars PROVE Owned'
  OBVIOUS
<1>1. ASSUME NEW w, weights' = w, lay'.owner = Partition(w) PROVE Owned'
  <2>1. Partition(weights)' = Partition(w)
    BY <1>1
  <2>2. QED
    BY <1>1, <2>1 DEF Owned
<1>2. CASE Transfer \/ Refine
  <2>1. weights' = weights /\ lay'.owner = Partition(weights)
    BY <1>2, LayoutFacts DEF Transfer, Refine, ChangeMesh, Weights
  <2>2. QED
    BY <1>1, <2>1
<1>3. CASE Repartition
  <2> DEFINE w == [c \in Cells |-> Weight[cls[c]]]
  <2>1. weights' = w /\ lay'.owner = Partition(w)
    BY <1>3, LayoutFacts DEF Repartition, ChangeMesh
  <2> HIDE DEF w
  <2>2. QED
    BY <1>1, <2>1
<1>4. CASE Load
  <2>1. weights' = Uniform /\ lay'.owner = Partition(Uniform)
    BY <1>4, LayoutFacts DEF Load
  <2>2. QED
    BY <1>1, <2>1
<1>5. CASE UNCHANGED <<lay, weights>>
  BY <1>1, <1>5 DEF Owned
<1>6. UNCHANGED <<lay, weights>> \/ Transfer \/ Refine \/ Repartition \/ Load
  BY DEF Next, vars, MoveInterface, Classify, Extrapolate, Assemble, FinishSolve, Save
<1>7. QED
  BY <1>2, <1>3, <1>4, <1>5, <1>6

(* Following the interface moves no cell between the processes: the mesh   *)
(* is "refined" with the weights it was partitioned with.                  *)
THEOREM PartitionAlwaysStays == Spec => PartitionStays
<1>1. Init => Owned
  BY LayoutFacts DEF Init, Owned
<1>2. Owned => [Transfer => lay'.owner = lay.owner]_vars
  BY LayoutFacts DEF Owned, Transfer, Weights
<1>3. QED
  BY <1>1, <1>2, OwnedStep, PTL DEF Spec, PartitionStays

-----------------------------------------------------------------------------
(* The average over n cells of a value that k of them contribute, and its  *)
(* reversal: 840 is divisible by the numbers up to eight.                  *)
LEMMA AverageReverted ==
  ASSUME NEW m \in Int, NEW n \in 1 .. 8, NEW k \in 1 .. n
  PROVE ((((840 * m) * k) \div n) * n) \div k = 840 * m
<1> DEFINE p == m * k
<1>1. k \in 1 .. 8
  OBVIOUS
<1>2. p \in Int /\ (840 * m) * k = 840 * p
  BY <1>1
<1>3. (840 * p) \div k = 840 * m
  BY <1>1
<1> HIDE DEF p
<1>4. ((840 * p) \div n) * n = 840 * p
  BY <1>2
<1>5. QED
  BY <1>2, <1>3, <1>4

LEMMA AtFacts ==
  ASSUME NEW k \in Int, NEW ph
  PROVE \E m \in Int : At(k, ph) = 840 * m
<1>1. CASE ph = "liquid"
  <2>1. k + 1 \in Int /\ At(k, ph) = 840 * (k + 1)
    BY <1>1 DEF At
  <2>2. QED
    BY <2>1
<1>2. CASE ph # "liquid"
  <2>1. -(k + 1) \in Int /\ At(k, ph) = 840 * (-(k + 1))
    BY <1>2 DEF At
  <2>2. QED
    BY <2>1
<1>3. QED
  BY <1>1, <1>2

(* A cell and another one that share a node are not entirely in different  *)
(* phases.                                                                 *)
LEMMA LocatedFacts ==
  ASSUME NEW l \in LevelSets
  PROVE /\ Located(l) \in [Cells -> {"liquid", "gas", "cut"}]
        /\ \A c, x \in Cells : \A n \in NodesOf[c] \cap NodesOf[x] :
             ~(Located(l)[c] = "liquid" /\ Located(l)[x] = "gas")
<1>1. Located(l) \in [Cells -> {"liquid", "gas", "cut"}]
  BY DEF Located
<1>2. ASSUME NEW c \in Cells, NEW x \in Cells, NEW n \in NodesOf[c] \cap NodesOf[x],
             Located(l)[c] = "liquid", Located(l)[x] = "gas"
      PROVE FALSE
  <2>1. n \in Nodes /\ l \in [Nodes -> -1 .. 1]
    BY CutAssumption DEF Nodes
  <2>2. l[n] \in Int
    BY <2>1
  <2>3. l[n] >= 0
    BY <1>2 DEF Located
  <2>4. l[n] < 0
    BY <1>2 DEF Located
  <2>5. QED
    BY <2>2, <2>3, <2>4
<1>3. QED
  BY <1>1, <1>2

LEMMA SupportFacts ==
  ASSUME NEW s \in Supports
  PROVE /\ s \subseteq Cells /\ IsFiniteSet(s) /\ Cardinality(s) <= 8
        /\ \A c, x \in s : c # x => NodesOf[c] \cap NodesOf[x] # {}
<1>1. CASE op.dg
  <2>1. PICK c \in Cells : s = {c}
    BY <1>1 DEF Supports
  <2>2. QED
    BY <2>1, FS_Singleton
<1>2. CASE ~op.dg
  <2>1. PICK n \in Nodes : s = {c \in Cells : n \in NodesOf[c]}
    BY <1>2 DEF Supports
  <2>2. IsFiniteSet(Cells) /\ Cardinality(s) <= 8
    BY <2>1, CutAssumption
  <2>3. s \in SUBSET Cells
    BY <2>1
  <2>4. IsFiniteSet(s)
    BY <2>2, <2>3, FS_Subset
  <2>5. QED
    BY <2>1, <2>2, <2>3, <2>4
<1>3. QED
  BY <1>1, <1>2

(* Cells without some of them.                                             *)
LEMMA Without ==
  ASSUME NEW s, IsFiniteSet(s), Cardinality(s) <= 8, NEW n \in SUBSET s, NEW e \in SUBSET n
  PROVE /\ Cardinality(n) \in 0 .. 8 /\ Cardinality(e) \in Nat
        /\ Cardinality(n \ e) = Cardinality(n) - Cardinality(e)
        /\ Cardinality(n \ e) \in Nat /\ (n \ e # {} => Cardinality(n \ e) > 0)
<1>1. IsFiniteSet(n) /\ Cardinality(n) <= Cardinality(s)
  BY FS_Subset
<1>2. IsFiniteSet(e) /\ IsFiniteSet(n \ e)
  BY <1>1, FS_Subset
<1>3. /\ Cardinality(n) \in Nat /\ Cardinality(e) \in Nat /\ Cardinality(s) \in Nat
      /\ Cardinality(n \ e) \in Nat
  BY <1>1, <1>2, FS_CardinalityType
<1>4. Cardinality(n \ e) = Cardinality(n) - Cardinality(n \cap e)
  BY <1>1, FS_Difference
<1>5. n \cap e = e
  OBVIOUS
<1>6. n \ e # {} => Cardinality(n \ e) # 0
  BY <1>2, FS_EmptySet
<1>7. QED
  BY <1>1, <1>3, <1>4, <1>5, <1>6

-----------------------------------------------------------------------------
(* The transfer from the layout of the old classifier to the one of the    *)
(* new classifier.  Unknowns that are not flagged have a cell that carried *)
(* them before; those that are have none.                                  *)
Classified == (\E l \in LevelSets : cls = Located(l)) /\ (\E l \in LevelSets : old = Located(l))

Newly(d) == {c \in d[2] : NewlyCut(c, d[1])}
Common(d) == Carriers(d, old) \cap Carriers(d, cls)

LEMMA DofFacts ==
  ASSUME NEW fe, NEW d \in Dofs(fe)
  PROVE /\ d[1] \in {"liquid", "gas"} /\ d[1] \in Phases /\ d[2] \in Supports
        /\ d \in Phases \X Supports
        /\ Carriers(d, fe) # {}
<1>1. d \in Phases \X Supports /\ Carriers(d, fe) # {}
  BY DEF Dofs
<1>2. d[1] \in Phases /\ d[2] \in Supports
  BY <1>1
<1>3. QED
  BY <1>1, <1>2 DEF Phases

LEMMA CommonFacts ==
  ASSUME Classified, ~Jump, NEW d \in Dofs(cls)
  PROVE /\ Newly(d) \subseteq Carriers(d, cls)
        /\ Carriers(d, cls) \ Newly(d) = Common(d)
        /\ d \in Flagged => Common(d) = {}
        /\ d \notin Flagged => Common(d) # {}
<1> DEFINE ph == d[1]
           s == d[2]
<1>1. ph \in {"liquid", "gas"} /\ s \in Supports /\ Carriers(d, cls) # {}
  BY DofFacts
<1>2. s \subseteq Cells /\ \A c, x \in s : c # x => NodesOf[c] \cap NodesOf[x] # {}
  BY <1>1, SupportFacts
<1>3. /\ \A c \in Cells : cls[c] \in {"liquid", "gas", "cut"}
      /\ \A c \in Cells : old[c] \in {"liquid", "gas", "cut"}
  BY LocatedFacts DEF Classified
<1>4. \A c, x \in Cells : \A n \in NodesOf[c] \cap NodesOf[x] :
        ~(old[c] = "liquid" /\ old[x] = "gas")
  BY LocatedFacts DEF Classified
<1>5. \A c \in Cells : ~({cls[c], old[c]} = {"liquid", "gas"})
  BY DEF Jump
<1>6. /\ Carriers(d, cls) = {c \in s : cls[c] \in {ph, "cut"}}
      /\ Carriers(d, old) = {c \in s : old[c] \in {ph, "cut"}}
      /\ Newly(d) = {c \in s : cls[c] = "cut" /\ old[c] = Other(ph)}
      /\ Common(d) = Carriers(d, old) \cap Carriers(d, cls)
  BY DEF Carriers, Has, Newly, NewlyCut, Common
<1>7. /\ Other(ph) \in {"liquid", "gas"} /\ Other(ph) # ph
      /\ {ph, Other(ph)} = {"liquid", "gas"}
  BY <1>1 DEF Other
<1>8. d \in Flagged <=> /\ \E c \in s : cls[c] = "cut" /\ old[c] = Other(ph)
                        /\ \A c \in s : cls[c] # ph /\ ~(cls[c] = "cut" /\ old[c] = "cut")
  BY DEF Flagged, NewlyCut
<1> HIDE DEF ph, s
<1>9. Newly(d) \subseteq Carriers(d, cls)
  BY <1>6
<1>10. ASSUME NEW c \in s
       PROVE c \in Carriers(d, cls) \ Newly(d) <=> c \in Common(d)
  <2>1. c \in Cells /\ cls[c] \in {ph, Other(ph), "cut"} /\ old[c] \in {ph, Other(ph), "cut"}
    BY <1>2, <1>3, <1>7
  <2>2. ~(cls[c] = ph /\ old[c] = Other(ph))
    BY <1>5, <1>7, <2>1
  <2>3. QED
    BY <1>6, <1>7, <2>1, <2>2
<1>11. Carriers(d, cls) \ Newly(d) = Common(d)
  BY <1>6, <1>10
<1>12. ASSUME d \in Flagged, NEW c \in Common(d) PROVE FALSE
  <2>1. c \in s /\ cls[c] = "cut" /\ old[c] = ph
    BY <1>6, <1>8, <1>12
  <2>2. PICK x \in s : cls[x] = "cut" /\ old[x] = Other(ph)
    BY <1>8, <1>12
  <2>3. c # x /\ c \in Cells /\ x \in Cells
    BY <1>2, <1>7, <2>1, <2>2
  <2>4. PICK n : n \in NodesOf[c] \cap NodesOf[x]
    BY <1>2, <2>1, <2>2, <2>3
  <2>5. n \in NodesOf[x] \cap NodesOf[c]
    BY <2>4
  <2>6. (old[c] = "liquid" /\ old[x] = "gas") \/ (old[x] = "liquid" /\ old[c] = "gas")
    BY <1>1, <1>7, <2>1, <2>2
  <2>7. QED
    BY <1>4, <2>3, <2>4, <2>5, <2>6
<1>13. ASSUME Common(d) = {} PROVE d \in Flagged
  <2>1. Carriers(d, cls) = Newly(d)
    BY <1>9, <1>11, <1>13
  <2>2. PICK c : c \in Newly(d)
    BY <1>1, <2>1
  <2>3. ASSUME NEW x \in s PROVE cls[x] # ph /\ ~(cls[x] = "cut" /\ old[x] = "cut")
    BY <1>1, <1>6, <1>7, <2>1, <2>3
  <2>4. QED
    BY <1>6, <1>8, <2>2, <2>3
<1>14. QED
  BY <1>9, <1>11, <1>12, <1>13

(* What the transfer hands to the extrapolation: the solution of step k    *)
(* where an unknown was carried before, zero where it was not.             *)
Wanted(k, d) == IF d \in Flagged THEN 0 ELSE At(k, d[1])

LEMMA Transferred ==
  ASSUME Classified, ~Jump, NEW k \in Int, NEW d \in Dofs(cls)
  PROVE Reverted(Interpolated(Solution(k, old), old, cls))[d] = Wanted(k, d)
<1> DEFINE v == Solution(k, old)
           i == Interpolated(v, old, cls)
           r == Reverted(i)
           n == Cardinality(Carriers(d, cls))
           e == Cardinality(Newly(d))
           m == Cardinality(Common(d))
           a == At(k, d[1])
<1>1. d[2] \in Supports /\ d \in Phases \X Supports /\ Carriers(d, cls) # {}
  BY DofFacts
<1>2. IsFiniteSet(d[2]) /\ Cardinality(d[2]) <= 8
  BY <1>1, SupportFacts
<1>3. /\ Newly(d) \subseteq Carriers(d, cls)
      /\ Carriers(d, cls) \ Newly(d) = Common(d)
      /\ d \in Flagged => Common(d) = {}
      /\ d \notin Flagged => Common(d) # {}
  BY CommonFacts
<1>4. Carriers(d, cls) \in SUBSET d[2] /\ Newly(d) \in SUBSET Carriers(d, cls)
  BY <1>3 DEF Carriers
<1>5. n \in 0 .. 8 /\ e \in Nat /\ m = n - e /\ m \in Nat /\ (Common(d) # {} => m > 0)
  BY <1>2, <1>3, <1>4, Without
<1>6. n > 0
  <2>1. Carriers(d, cls) \ {} # {} /\ {} \in SUBSET Carriers(d, cls)
    BY <1>1
  <2>2. Carriers(d, cls) \ {} = Carriers(d, cls)
    OBVIOUS
  <2>3. QED
    BY <1>2, <1>4, <2>1, <2>2, Without
<1>7. Common(d) = {} => m = 0
  BY FS_EmptySet
<1>8. d \in DOMAIN v <=> Carriers(d, old) # {}
  BY <1>1 DEF Solution, Dofs
<1>9. Common(d) # {} => d \in DOMAIN v
  BY <1>8 DEF Common
<1>10. d \in DOMAIN v => v[d] = a
  BY DEF Solution
<1>11. PICK b \in Int : a = 840 * b
  BY AtFacts
<1>12. i[d] = IF d \in DOMAIN v THEN (v[d] * m) \div n ELSE 0
  BY DEF Interpolated, Common
<1>13. DOMAIN i = Dofs(cls)
  BY DEF Interpolated
<1>14. r[d] = IF n > e THEN (i[d] * n) \div (n - e) ELSE i[d]
  BY <1>13 DEF Reverted, Newly
<1> HIDE DEF v, i, r, n, e, m, a
<1>15. CASE d \in Flagged
  <2>1. m = 0
    BY <1>3, <1>7, <1>15
  <2>2. ~(n > e)
    BY <1>5, <2>1
  <2>3. a * 0 = 0 /\ 0 \div n = 0
    BY <1>5, <1>6, <1>11
  <2>4. i[d] = 0
    BY <1>10, <1>12, <2>1, <2>3
  <2>5. r[d] = 0
    BY <1>14, <2>2, <2>4
  <2>6. QED
    BY <1>15, <2>5 DEF Wanted, r, i, v
<1>16. CASE d \notin Flagged
  <2>1. m \in 1 .. n /\ n \in 1 .. 8 /\ n > e /\ n - e = m
    BY <1>3, <1>5, <1>6, <1>16
  <2>2. i[d] = (a * m) \div n
    BY <1>3, <1>9, <1>10, <1>12, <1>16
  <2>3. r[d] = (((a * m) \div n) * n) \div m
    BY <1>14, <2>1, <2>2
  <2>4. (((a * m) \div n) * n) \div m = a
    BY <1>11, <2>1, AverageReverted
  <2>5. QED
    BY <1>16, <2>3, <2>4 DEF Wanted, r, i, v, a
<1>17. QED
  BY <1>15, <1>16

(* A change of the mesh averages over the cells that all carry the value.  *)
LEMMA Averaged ==
  ASSUME NEW fe, NEW k \in Int
  PROVE Interpolated(Solution(k, fe), fe, fe) = Solution(k, fe)
<1> DEFINE v == Solution(k, fe)
           i == Interpolated(v, fe, fe)
<1>1. ASSUME NEW d \in Dofs(fe) PROVE i[d] = At(k, d[1])
  <2> DEFINE n == Cardinality(Carriers(d, fe))
             a == At(k, d[1])
  <2>1. d[2] \in Supports /\ Carriers(d, fe) # {}
    BY DofFacts
  <2>2. IsFiniteSet(d[2]) /\ Cardinality(d[2]) <= 8
    BY <2>1, SupportFacts
  <2>3. /\ Carriers(d, fe) \in SUBSET d[2] /\ {} \in SUBSET Carriers(d, fe)
        /\ Carriers(d, fe) \ {} = Carriers(d, fe)
    BY DEF Carriers
  <2>4. n \in Nat /\ n > 0
    BY <2>1, <2>2, <2>3, Without
  <2>5. PICK b \in Int : a = 840 * b
    BY AtFacts
  <2>6. Carriers(d, fe) \cap Carriers(d, fe) = Carriers(d, fe)
    OBVIOUS
  <2>7. d \in DOMAIN v /\ v[d] = a
    BY DEF Solution
  <2>8. i[d] = (a * n) \div n
    BY <2>6, <2>7 DEF Interpolated
  <2> HIDE DEF n, a, i, v
  <2>9. (a * n) \div n = a
    <3>1. a \in Int
      BY <2>5
    <3>2. QED
      BY <2>4, <3>1
  <2>10. QED
    BY <2>8, <2>9 DEF a
<1>2. i = [d \in Dofs(fe) |-> i[d]]
  BY DEF Interpolated
<1> HIDE DEF i, v
<1>3. i = [d \in Dofs(fe) |-> At(k, d[1])]
  BY <1>1, <1>2
<1>4. QED
  BY <1>3 DEF i, v, Solution

-----------------------------------------------------------------------------
(* The ghost penalty reaches a cell only from a known value: what it has   *)
(* reached after k cells is found by recursion, and nothing is reached     *)
(* from nothing by the least k that would have reached something.          *)
LEMMA LeastNat ==
  ASSUME NEW S \in SUBSET Nat, S # {}
  PROVE \E n \in S : \A m \in S : n <= m
<1>1. PICK x \in S : \A y \in S : ~(<<y, x>> \in OpToRel(<, Nat))
  BY NatLessThanWellFounded, WFMin
<1>2. \A y \in S : ~(y < x)
  BY <1>1 DEF OpToRel
<1>3. \A y \in S : x \in Nat /\ y \in Nat /\ ~(y < x)
  BY <1>2
<1>4. QED
  BY <1>3

Known(ph) == {e \in Dofs(cls) \ Flagged : e[1] = ph}

Grows(ph, known, g) ==
  g = [k \in 0 .. Cardinality(Cells) |->
         IF k = 0 THEN known
         ELSE g[k - 1] \cup {c \in Cells : NewlyCut(c, ph) /\ \E x \in g[k - 1] : Adjacent(c, x)}]

LEMMA NothingGrows ==
  ASSUME NEW ph, NEW g, Grows(ph, {}, g), NEW k \in 0 .. Cardinality(Cells)
  PROVE g[k] = {}
<1> DEFINE N == Cardinality(Cells)
           S == {j \in Nat : j \in 0 .. N /\ g[j] # {}}
<1>1. N \in Nat
  BY CutAssumption, FS_CardinalityType
<1>2. \A j \in 0 .. N :
        g[j] = IF j = 0 THEN {}
               ELSE g[j - 1] \cup {c \in Cells : NewlyCut(c, ph) /\ \E x \in g[j - 1] : Adjacent(c, x)}
  BY DEF Grows
<1> HIDE DEF N
<1>3. ASSUME S # {} PROVE FALSE
  <2>1. PICK n \in S : \A j \in S : n <= j
    BY <1>3, LeastNat
  <2>2. n \in 0 .. N /\ g[n] # {} /\ n \in Nat
    BY <2>1
  <2>3. n # 0
    BY <1>2, <2>2
  <2>4. n - 1 \in 0 .. N /\ n - 1 \in Nat /\ ~(n <= n - 1)
    BY <1>1, <2>2, <2>3
  <2>5. g[n - 1] = {}
    BY <2>1, <2>4
  <2>6. g[n] = {}
    BY <1>2, <2>2, <2>3, <2>5
  <2>7. QED
    BY <2>2, <2>6
<1>4. k \in Nat
  BY <1>1
<1>5. QED
  BY <1>3, <1>4 DEF N

LEMMA JoinedNeedsKnown ==
  ASSUME NEW ph, Known(ph) = {}
  PROVE Joined(ph) = {}
<1> DEFINE N == Cardinality(Cells)
           f == CHOOSE g : Grows(ph, {}, g)
<1>1. N \in Nat
  BY CutAssumption, FS_CardinalityType
<1>2. UNION {Carriers(d, cls) : d \in Known(ph)} = {}
  OBVIOUS
<1>3. Joined(ph) = f[N]
  BY <1>2 DEF Joined, Grows, Known
<1>4. Grows(ph, {}, [k \in 0 .. N |-> {}])
  BY <1>1 DEF Grows
<1>5. Grows(ph, {}, f)
  BY <1>4
<1>6. QED
  BY <1>1, <1>3, <1>5, NothingGrows

(* The extension of the solution of step k is the solution of step k.      *)
LEMMA Extended ==
  ASSUME NEW k, NEW v, v = [d \in Dofs(cls) |-> Wanted(k, d)], NEW d \in Determined
  PROVE Extension(v, d[1]) = At(k, d[1])
<1> DEFINE ph == d[1]
<1>1. d \in Flagged /\ d \in Dofs(cls)
  BY DEF Determined, Flagged
<1>2. ph \in Phases
  BY <1>1, DofFacts
<1>3. Joined(ph) # {}
  BY <1>2 DEF Determined
<1>4. Known(ph) # {}
  BY <1>3, JoinedNeedsKnown
<1>5. \A e \in Known(ph) : v[e] = At(k, ph)
  BY DEF Known, Wanted
<1>6. {v[e] : e \in Known(ph)} = {At(k, ph)}
  BY <1>4, <1>5
<1>7. Extension(v, ph) = CHOOSE x \in {v[e] : e \in Known(ph)} : TRUE
  BY DEF Extension, Known
<1>8. QED
  BY <1>6, <1>7

-----------------------------------------------------------------------------
(* The first vector on its way through a step: the solution of the last    *)
(* step in the old layout, what the transfer makes of it, what the         *)
(* extrapolation makes of that.  Only unknowns the ghost penalty does not  *)
(* reach stay zero.                                                        *)
Carried(k, d) == IF d \in Flagged \ Determined THEN 0 ELSE At(k, d[1])

Ranges == op \in Operations /\ step \in Nat /\ ls \in LevelSets /\ DOMAIN sol = 1 .. op.vectors

Behind ==
  /\ \E l \in LevelSets : cls = Located(l)
  /\ pc \in {"transfer", "extrapolate"} => \E l \in LevelSets : old = Located(l)
  /\ pc = "transfer" => lay.fe = old

OnTheWay ==
  /\ pc = "ready" => sol[1] = Solution(step, cls)
  /\ pc = "adapt" => sol[1] = Solution(step - 1, cls)
  /\ pc = "transfer" => sol[1] = Solution(step - 1, old)
  /\ pc = "extrapolate" /\ ~Jump => sol[1] = [d \in Dofs(cls) |-> Wanted(step - 1, d)]
  /\ pc = "assemble" => sol[1] = [d \in Dofs(cls) |-> Carried(step - 1, d)]

Snapped ==
  snap # None =>
    /\ snap.step \in Nat /\ snap.ls \in LevelSets /\ DOMAIN snap.sol = 1 .. op.vectors
    /\ snap.sol[1] = Solution(snap.step, Located(snap.ls))

Kept == Ranges /\ Behind /\ OnTheWay /\ OldSolutionKept /\ Snapped

LEMMA RangesFacts == Ranges => op.vectors \in Nat /\ op.vectors > 0 /\ 1 \in DOMAIN sol
<1> SUFFICES ASSUME Ranges PROVE op.vectors \in Nat /\ op.vectors > 0 /\ 1 \in DOMAIN sol
  OBVIOUS
<1>1. op.vectors \in Nat \ {0} /\ DOMAIN sol = 1 .. op.vectors
  BY CutAssumption DEF Ranges
<1>2. QED
  BY <1>1

LEMMA KeptInit == Init => Kept
<1> SUFFICES ASSUME Init PROVE Kept
  OBVIOUS
<1>1. /\ op \in Operations /\ step = 0 /\ ls \in LevelSets /\ pc = "ready" /\ snap = None
      /\ cls = Located(ls)
      /\ sol = [i \in 1 .. op.vectors |-> IF i = 1 THEN Solution(0, cls) ELSE Blank(cls)]
  BY DEF Init
<1>2. Ranges
  BY <1>1 DEF Ranges
<1>3. sol[1] = Solution(0, cls)
  BY <1>1, <1>2, RangesFacts
<1>4. QED
  BY <1>1, <1>2, <1>3 DEF Kept, Behind, OnTheWay, OldSolutionKept, Snapped

(* Without a cell that was cut just now, nothing is flagged.               *)
LEMMA NothingFlagged == (\E l \in LevelSets : cls = Located(l)) /\ old = cls => Flagged = {}
<1> SUFFICES ASSUME NEW l \in LevelSets, cls = Located(l), old = cls, NEW d \in Flagged
             PROVE FALSE
  BY DEF Flagged
<1>1. PICK c \in d[2] : cls[c] = "cut" /\ cls[c] = Other(d[1])
  BY DEF Flagged, NewlyCut
<1>2. QED
  BY <1>1 DEF Other

(* Unknowns and solutions depend on the operation and the classifier only. *)
LEMMA SameOperation ==
  ASSUME op' = op
  PROVE /\ Solution(step, cls)' = Solution(step', cls')
        /\ Solution(step - 1, cls)' = Solution(step' - 1, cls')
        /\ Solution(step - 1, old)' = Solution(step' - 1, old')
        /\ Dofs(cls)' = Dofs(cls') /\ Dofs(lay.fe)' = Dofs(lay'.fe)
BY DEF Solution, Dofs, Phases, Supports, Carriers, Has

LEMMA SameClassifiers ==
  ASSUME UNCHANGED <<op, cls, old>>
  PROVE Flagged' = Flagged /\ Determined' = Determined /\ Jump' = Jump
<1>1. Flagged' = Flagged
  BY DEF Flagged, Dofs, Phases, Supports, NewlyCut, Carriers, Has
<1>2. Determined' = Determined
  BY DEF Determined, Joined, Flagged, Dofs, Phases, Supports, NewlyCut, Carriers, Has
<1>3. QED
  BY <1>1, <1>2 DEF Jump

LEMMA SameSnapshot ==
  ASSUME Snapped, UNCHANGED <<op, snap>>
  PROVE Snapped'
<1>1. Solution(snap.step, Located(snap.ls))' = Solution(snap.step, Located(snap.ls))
  BY DEF Solution, Dofs, Phases, Supports, Carriers, Has
<1>2. QED
  BY <1>1 DEF Snapped

LEMMA KeptMoveInterface == Kept /\ Followed /\ MoveInterface => Kept'
<1> SUFFICES ASSUME Kept, MoveInterface PROVE Kept'
  OBVIOUS
<1>1. /\ pc = "ready" /\ pc' = "adapt" /\ step' = step + 1 /\ ls' \in LevelSets
      /\ UNCHANGED <<op, cls, old, sol, snap>>
  BY DEF MoveInterface
<1>2. Ranges' /\ Snapped'
  BY <1>1, SameSnapshot DEF Kept, Ranges
<1>3. step' - 1 = step
  BY <1>1 DEF Kept, Ranges
<1>4. Solution(step - 1, cls)' = Solution(step, cls)
  BY <1>1, <1>3, SameOperation
<1>5. OnTheWay'
  BY <1>1, <1>4 DEF Kept, OnTheWay
<1>6. QED
  BY <1>1, <1>2, <1>5 DEF Kept, Behind, OldSolutionKept

LEMMA KeptClassify == Kept /\ Followed /\ Classify => Kept'
<1> SUFFICES ASSUME Kept, Followed, Classify PROVE Kept'
  OBVIOUS
<1>1. /\ pc = "adapt" /\ old' = cls /\ cls' = Located(ls)
      /\ UNCHANGED <<op, ls, lay, sol, step, snap>>
      /\ IF op.early /\ Located(ls) = cls THEN pc' = "assemble" ELSE pc' = "transfer"
  BY DEF Classify, Swapped
<1>2. Ranges' /\ Snapped'
  BY <1>1, SameSnapshot DEF Kept, Ranges
<1>3. ls \in LevelSets /\ (\E l \in LevelSets : cls = Located(l))
  BY DEF Kept, Ranges, Behind
<1>4. Behind'
  BY <1>1, <1>3 DEF Followed, Behind
<1>5. sol[1] = Solution(step - 1, cls)
  BY <1>1 DEF Kept, OnTheWay
<1>6. CASE pc' = "transfer"
  BY <1>1, <1>2, <1>4, <1>5, <1>6, SameOperation DEF Kept, OnTheWay, OldSolutionKept
<1>7. CASE pc' = "assemble"
  <2>1. cls' = cls /\ old' = cls'
    BY <1>1, <1>7
  <2>2. Flagged' = {}
    <3>1. ((\E l \in LevelSets : cls = Located(l)) /\ old = cls)'
      BY <1>4, <2>1 DEF Behind
    <3>2. (Flagged = {})'
      BY <3>1, NothingFlagged, PTL
    <3>3. QED
      BY <3>2
  <2>3. sol'[1] = [d \in Dofs(cls)' |-> At(step' - 1, d[1])]
    BY <1>1, <1>5, <2>1, SameOperation DEF Solution
  <2>4. (sol[1] = [d \in Dofs(cls) |-> Carried(step - 1, d)])'
    BY <2>2, <2>3 DEF Carried
  <2>5. OnTheWay'
    BY <1>7, <2>4 DEF OnTheWay
  <2>6. QED
    BY <1>2, <1>4, <1>7, <2>5 DEF Kept, OldSolutionKept
<1>8. QED
  BY <1>1, <1>6, <1>7

LEMMA KeptTransfer == Kept /\ Followed /\ Transfer => Kept'
<1> SUFFICES ASSUME Kept, Transfer PROVE Kept'
  OBVIOUS
<1>1. /\ pc = "transfer" /\ pc' = "extrapolate" /\ UNCHANGED <<op, ls, cls, old, step, snap>>
      /\ sol' = [i \in DOMAIN sol |-> Reverted(Interpolated(sol[i], lay.fe, cls))]
  BY DEF Transfer
<1>2. Ranges' /\ Snapped'
  BY <1>1, SameSnapshot DEF Kept, Ranges
<1>3. Behind'
  BY <1>1 DEF Kept, Behind
<1>4. Classified /\ step - 1 \in Int /\ 1 \in DOMAIN sol
  BY <1>1, RangesFacts DEF Kept, Behind, Ranges, Classified
<1>5. lay.fe = old /\ sol[1] = Solution(step - 1, old)
  BY <1>1 DEF Kept, Behind, OnTheWay
<1> DEFINE w == Reverted(Interpolated(Solution(step - 1, old), old, cls))
<1>6. sol'[1] = w
  BY <1>1, <1>4, <1>5
<1>7. w = [d \in Dofs(cls) |-> w[d]]
  BY DEF Reverted, Interpolated
<1>8. ASSUME ~Jump PROVE w = [d \in Dofs(cls) |-> Wanted(step - 1, d)]
  <2>1. \A d \in Dofs(cls) : w[d] = Wanted(step - 1, d)
    BY <1>4, <1>8, Transferred
  <2> HIDE DEF w
  <2>2. QED
    BY <1>7, <2>1
<1> HIDE DEF w
<1>9. Jump' = Jump /\ Flagged' = Flagged /\ Dofs(cls)' = Dofs(cls)
  BY <1>1, SameClassifiers, SameOperation
<1>10. (~Jump => sol[1] = [d \in Dofs(cls) |-> Wanted(step - 1, d)])'
  BY <1>1, <1>6, <1>8, <1>9 DEF Wanted
<1>11. QED
  BY <1>1, <1>2, <1>3, <1>10 DEF Kept, OnTheWay, OldSolutionKept

LEMMA KeptExtrapolate == Kept /\ Followed /\ Extrapolate => Kept'
<1> SUFFICES ASSUME Kept, Extrapolate PROVE Kept'
  OBVIOUS
<1>1. /\ pc = "extrapolate" /\ UNCHANGED <<op, ls, cls, old, lay, step, snap>>
      /\ IF Jump THEN pc' = "stopped" /\ sol' = sol
         ELSE /\ pc' = "assemble"
              /\ sol' = IF Flagged = {} THEN sol
                        ELSE [i \in DOMAIN sol |-> Extrapolated(sol[i], sol[1])]
  BY DEF Extrapolate
<1>2. DOMAIN sol' = DOMAIN sol /\ 1 \in DOMAIN sol
  BY <1>1, RangesFacts DEF Kept
<1>3. Ranges' /\ Snapped'
  BY <1>1, <1>2, SameSnapshot DEF Kept, Ranges
<1>4. Behind' /\ OldSolutionKept'
  BY <1>1 DEF Kept, Behind, OldSolutionKept
<1>5. CASE Jump
  BY <1>1, <1>3, <1>4, <1>5 DEF Kept, OnTheWay
<1>6. CASE ~Jump
  <2> DEFINE v == [d \in Dofs(cls) |-> Wanted(step - 1, d)]
             c == [d \in Dofs(cls) |-> Carried(step - 1, d)]
  <2>1. sol[1] = v
    BY <1>1, <1>6 DEF Kept, OnTheWay
  <2>2. sol'[1] = IF Flagged = {} THEN v ELSE Extrapolated(v, v)
    BY <1>1, <1>2, <1>6, <2>1
  <2>3. ASSUME Flagged = {} PROVE sol'[1] = c
    BY <2>2, <2>3 DEF Wanted, Carried
  <2>4. ASSUME Flagged # {} PROVE sol'[1] = c
    <3>1. \A d \in Determined : d \in Flagged /\ d[1] \in Phases
      BY DofFacts DEF Determined, Flagged
    <3>2. \A d \in Determined : Extension(v, d[1]) = At(step - 1, d[1])
      BY Extended
    <3>3. \A d \in Dofs(cls) : v[d] = Wanted(step - 1, d)
      OBVIOUS
    <3>4. Extrapolated(v, v) =
            [d \in Dofs(cls) |-> IF d \notin Flagged THEN v[d]
                                 ELSE IF d \in Determined THEN [ph \in Phases |-> Extension(v, ph)][d[1]]
                                 ELSE v[d]]
      BY DEF Extrapolated
    <3> HIDE DEF v
    <3>5. Extrapolated(v, v) = c
      BY <3>1, <3>2, <3>3, <3>4 DEF Wanted, Carried
    <3>6. QED
      BY <2>2, <2>4, <3>5
  <2>5. sol'[1] = c
    BY <2>3, <2>4
  <2>6. Flagged' = Flagged /\ Determined' = Determined /\ Dofs(cls)' = Dofs(cls)
    BY <1>1, SameClassifiers, SameOperation
  <2>7. (sol[1] = [d \in Dofs(cls) |-> Carried(step - 1, d)])'
    BY <1>1, <2>5, <2>6 DEF Carried
  <2>8. QED
    BY <1>1, <1>3, <1>4, <1>6, <2>7 DEF Kept, OnTheWay
<1>7. QED
  BY <1>5, <1>6

LEMMA KeptAssemble == Kept /\ Followed /\ Assemble => Kept'
<1> SUFFICES ASSUME Kept, Followed, Assemble PROVE Kept'
  OBVIOUS
<1>1. /\ pc = "assemble" /\ pc' = "linear" /\ sol' = Shifted
      /\ UNCHANGED <<op, ls, cls, old, lay, step, snap>>
  BY DEF Assemble
<1>2. DOMAIN sol' = DOMAIN sol /\ DOMAIN sol = 1 .. op.vectors /\ op.vectors \in Nat
  BY <1>1, RangesFacts DEF Shifted, Kept, Ranges
<1>3. Ranges' /\ Snapped' /\ Behind' /\ OnTheWay'
  BY <1>1, <1>2, SameSnapshot DEF Kept, Ranges, Behind, OnTheWay
<1> DEFINE i == IF op.vectors = 1 THEN 1 ELSE 2
<1>4. i \in DOMAIN sol /\ (i = 1 \/ i - 1 = 1)
  BY <1>2, RangesFacts DEF Kept
<1>5. sol'[i] = sol[1]
  BY <1>1, <1>4 DEF Shifted
<1> HIDE DEF i
<1>6. sol[1] = [d \in Dofs(cls) |-> Carried(step - 1, d)] /\ lay.fe = cls
  BY <1>1 DEF Kept, OnTheWay, Followed
<1>7. /\ Flagged' = Flagged /\ Determined' = Determined
      /\ Dofs(lay.fe)' = Dofs(lay'.fe) /\ Dofs(cls)' = Dofs(cls)
  BY <1>1, SameClassifiers, SameOperation
<1>8. Dofs(lay.fe)' = Dofs(cls)
  <2>1. (lay.fe = cls)'
    BY <1>1, <1>6
  <2>2. Dofs(lay.fe)' = Dofs(cls)'
    BY <2>1
  <2>3. QED
    BY <1>7, <2>2
<1>9. \A d \in Dofs(lay.fe)' :
        sol'[i] [d] = IF d \in Flagged' \ Determined' THEN 0 ELSE At(step - 1, d[1])
  BY <1>5, <1>6, <1>7, <1>8 DEF Carried
<1>10. OldSolutionKept'
  BY <1>1, <1>9 DEF OldSolutionKept, i
<1>11. QED
  BY <1>3, <1>10 DEF Kept

LEMMA KeptFinishSolve == Kept /\ Followed /\ FinishSolve => Kept'
<1> SUFFICES ASSUME Kept, Followed, FinishSolve PROVE Kept'
  OBVIOUS
<1>1. /\ pc = "linear" /\ UNCHANGED <<op, ls, cls, old, lay, step, snap>>
      /\ \/ pc' = "ready" /\ sol' = [sol EXCEPT ![1] = Solution(step, lay.fe)]
         \/ pc' = "stopped" /\ sol' = sol
  BY DEF FinishSolve
<1>2. DOMAIN sol' = DOMAIN sol /\ 1 \in DOMAIN sol
  BY <1>1, RangesFacts DEF Kept
<1>3. Ranges' /\ Snapped' /\ Behind' /\ OldSolutionKept'
  BY <1>1, <1>2, SameSnapshot DEF Kept, Ranges, Behind, OldSolutionKept
<1>4. lay.fe = cls
  BY <1>1 DEF Followed
<1>5. pc' = "ready" => sol'[1] = Solution(step, cls)
  BY <1>1, <1>2, <1>4
<1>6. Solution(step, cls)' = Solution(step, cls)
  BY <1>1, SameOperation
<1>7. OnTheWay'
  BY <1>1, <1>5, <1>6 DEF OnTheWay
<1>8. QED
  BY <1>3, <1>7 DEF Kept

LEMMA KeptChangeMesh ==
  ASSUME NEW w, ChangeMesh(w), Kept, Followed
  PROVE Kept'
<1>1. /\ pc = "ready" /\ cls' = Located(ls) /\ UNCHANGED <<op, ls, step, pc, snap>>
      /\ sol' = [i \in DOMAIN sol |-> Interpolated(sol[i], lay.fe, cls')]
  BY DEF ChangeMesh
<1>2. cls' = cls /\ lay.fe = cls
  BY <1>1 DEF Followed
<1>3. DOMAIN sol' = DOMAIN sol /\ 1 \in DOMAIN sol
  BY <1>1, RangesFacts DEF Kept
<1>4. Ranges' /\ Snapped'
  BY <1>1, <1>3, SameSnapshot DEF Kept, Ranges
<1>5. sol[1] = Solution(step, cls) /\ step \in Int
  BY <1>1 DEF Kept, Ranges, OnTheWay
<1>6. sol'[1] = Solution(step, cls)
  BY <1>1, <1>2, <1>3, <1>5, Averaged
<1>7. Solution(step, cls)' = Solution(step, cls)
  BY <1>1, <1>2, SameOperation
<1>8. QED
  BY <1>1, <1>2, <1>4, <1>6, <1>7 DEF Kept, Behind, OnTheWay, OldSolutionKept

LEMMA KeptRestart == Kept /\ Followed /\ (Save \/ Load) => Kept'
<1> SUFFICES ASSUME Kept, Followed, Save \/ Load PROVE Kept'
  OBVIOUS
<1>1. CASE Save
  <2>1. /\ pc = "ready" /\ UNCHANGED <<op, ls, cls, old, lay, sol, step, pc>>
        /\ snap' = [step |-> step, ls |-> ls, mesh |-> lay.mesh, sol |-> sol]
    BY <1>1 DEF Save
  <2>2. Ranges' /\ Behind'
    BY <2>1 DEF Kept, Ranges, Behind
  <2>3. Solution(step, cls)' = Solution(step, cls)
    BY <2>1, SameOperation
  <2>4. OnTheWay' /\ OldSolutionKept'
    BY <2>1, <2>3 DEF Kept, OnTheWay, OldSolutionKept
  <2>5. /\ snap'.step \in Nat /\ snap'.ls \in LevelSets /\ DOMAIN snap'.sol = 1 .. op.vectors
        /\ snap'.step = step /\ Located(snap'.ls) = cls /\ snap'.sol[1] = Solution(step, cls)
    BY <2>1 DEF Kept, Ranges, OnTheWay, Followed
  <2>6. Solution(snap.step, Located(snap.ls))' = Solution(step, cls)
    BY <2>1, <2>5 DEF Solution, Dofs, Phases, Supports, Carriers, Has
  <2>7. Snapped'
    BY <2>1, <2>5, <2>6 DEF Snapped
  <2>8. QED
    BY <2>2, <2>4, <2>7 DEF Kept
<1>2. CASE Load
  <2>1. /\ snap # None /\ ls' = snap.ls /\ step' = snap.step /\ sol' = snap.sol
        /\ cls' = Located(ls') /\ pc' = "ready" /\ UNCHANGED <<op, snap>>
    BY <1>2 DEF Load
  <2>2. Snapped' /\ Snapped
    BY <2>1, SameSnapshot DEF Kept
  <2>3. Ranges' /\ Behind' /\ OldSolutionKept'
    BY <2>1, <2>2 DEF Kept, Ranges, Behind, Snapped, OldSolutionKept
  <2>4. sol'[1] = Solution(step', cls')
    BY <2>1, <2>2 DEF Snapped, Solution, Dofs, Phases, Supports, Carriers, Has
  <2>5. Solution(step, cls)' = Solution(step', cls')
    BY <2>1, SameOperation
  <2>6. OnTheWay'
    BY <2>1, <2>4, <2>5 DEF OnTheWay
  <2>7. QED
    BY <2>2, <2>3, <2>6 DEF Kept
<1>3. QED
  BY <1>1, <1>2

LEMMA KeptStutter == Kept /\ UNCHANGED vars => Kept'
<1> SUFFICES ASSUME Kept, UNCHANGED vars PROVE Kept'
  OBVIOUS
<1>1. UNCHANGED <<op, ls, cls, old, lay, sol, step, pc, snap>>
  BY DEF vars
<1>2. Flagged' = Flagged /\ Determined' = Determined /\ Jump' = Jump
  BY <1>1, SameClassifiers
<1>3. /\ Solution(step, cls)' = Solution(step, cls)
      /\ Solution(step - 1, cls)' = Solution(step - 1, cls)
      /\ Solution(step - 1, old)' = Solution(step - 1, old)
      /\ Dofs(cls)' = Dofs(cls) /\ Dofs(lay.fe)' = Dofs(lay.fe)
  BY <1>1, SameOperation
<1>4. Ranges' /\ Snapped'
  BY <1>1, SameSnapshot DEF Kept, Ranges
<1>5. Behind'
  BY <1>1 DEF Kept, Behind
<1>6. OnTheWay'
  BY <1>1, <1>2, <1>3 DEF Kept, OnTheWay, Wanted, Carried
<1>7. OldSolutionKept'
  BY <1>1, <1>2, <1>3 DEF Kept, OldSolutionKept
<1>8. QED
  BY <1>4, <1>5, <1>6, <1>7 DEF Kept

LEMMA KeptStep == Kept /\ Followed /\ [Next]_vars => Kept'
<1> SUFFICES ASSUME Kept, Followed, [Next]_vars PROVE Kept'
  OBVIOUS
<1>1. CASE Refine \/ Repartition
  <2>1. PICK w : ChangeMesh(w)
    BY <1>1 DEF Refine, Repartition
  <2>2. QED
    BY <2>1, KeptChangeMesh
<1>2. QED
  BY <1>1, KeptMoveInterface, KeptClassify, KeptTransfer, KeptExtrapolate, KeptAssemble,
     KeptFinishSolve, KeptRestart, KeptStutter DEF Next

(* Every unknown a step is solved for starts from the solution of the last *)
(* step in its phase, however the interface moved -- a step in which a     *)
(* cell changes its phase without having been cut ends the run --, however *)
(* often the mesh or the partition changed and the run was restarted; only *)
(* unknowns the ghost penalty does not reach start from zero.              *)
THEOREM OldSolutionIsAlwaysKept == Spec => []OldSolutionKept
<1>1. Kept => OldSolutionKept
  BY DEF Kept
<1>2. QED
  BY <1>1, KeptInit, KeptStep, FollowedAlways, PTL DEF Spec
=============================================================================

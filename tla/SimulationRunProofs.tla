------------------------- MODULE SimulationRunProofs -------------------------
(***************************************************************************)
(* Proofs about SimulationRun for every parameter and every number of      *)
(* jobs: the types, the clocks of the run and of adaflo, how much a killed *)
(* job loses, that the .pvd file names what the files hold, and that no    *)
(* output is lost by a restart.                                            *)
(***************************************************************************)
EXTENDS SimulationRun, SequenceTheorems, WellFoundedInduction, TLAPS

(* What the assumptions say of the numbers.                                *)
LEMMA Numbers ==
  /\ StartTime \in Nat /\ EndTime \in Nat /\ StartTime < EndTime
  /\ TimeStepSize \in Nat /\ TimeStepSize > 0
  /\ MaxNSteps \in Nat
  /\ HeatUpDt \in Nat
  /\ Factor \in Nat /\ Factor > 0
  /\ WriteFrequency \in Nat /\ WriteFrequency > 0
  /\ WriteTimeStep \in Nat /\ WriteTimeStep > 0
  /\ SaveTimeStep \in Nat /\ SaveTimeStep > 0
  /\ MaxJobs \in Nat /\ MaxJobs > 0
  /\ NoFile \notin Nat /\ CutFile \notin Nat /\ NoFile # CutFile
BY TimeAssumption, RunAssumption

USE Numbers

-----------------------------------------------------------------------------
(* Arithmetic of the time iterator.                                        *)
LEMMA PairMin ==
  ASSUME NEW a \in Int, NEW b \in Int
  PROVE Min({a, b}) = IF a <= b THEN a ELSE b
BY DEF Min

LEMMA PairMax ==
  ASSUME NEW a \in Int, NEW b \in Int
  PROVE Max({a, b}) = IF a >= b THEN a ELSE b
BY DEF Max

(* A step is taken forwards and not beyond the end time.                   *)
LEMMA NextIncrement ==
  ASSUME NEW it \in TimeIterators, it.dt > 0, ~IsFinished(it)
  PROVE LET next == ComputeNextTimeIncrement(it) IN
        /\ next \in TimeIterators
        /\ next.dt > 0
        /\ next.n = it.n + 1
        /\ next.t = it.t + next.dt
        /\ next.oldT = IF it.n >= 1 THEN it.t ELSE it.oldT
<1> DEFINE f == TimeStepSizeFunction[it.t]
           asked == IF f > 0 THEN f ELSE it.dt
           dt == Min({asked, EndTime - it.t})
<1>1. /\ it.n \in 0 .. MaxNSteps /\ it.n < MaxNSteps
      /\ it.t \in StartTime .. EndTime /\ it.t < EndTime
      /\ it.oldT \in StartTime .. EndTime /\ it.oldDt \in Nat
      /\ it.dt \in Nat
  BY DEF TimeIterators, Times, IsFinished
<1>2. asked \in Nat /\ asked > 0
  BY <1>1, TimeAssumption
<1>3. dt \in Nat /\ 0 < dt /\ dt <= EndTime - it.t
  <2> DEFINE left == EndTime - it.t
  <2>1. left \in Nat /\ left > 0
    BY <1>1
  <2> HIDE DEF asked, left
  <2>2. dt = IF asked <= left THEN asked ELSE left
    BY <1>2, <2>1, PairMin DEF left
  <2> HIDE DEF dt
  <2>3. dt \in Nat /\ 0 < dt /\ dt <= left
    BY <1>2, <2>1, <2>2
  <2>4. QED
    BY <2>3 DEF left
<1>4. ComputeNextTimeIncrement(it) =
        [n |-> it.n + 1, t |-> it.t + dt, dt |-> dt,
         oldT |-> IF it.n >= 1 THEN it.t ELSE it.oldT,
         oldDt |-> IF it.n >= 1 THEN dt ELSE it.oldDt]
  BY DEF ComputeNextTimeIncrement
<1> HIDE DEF dt
<1>5. /\ it.n + 1 \in 0 .. MaxNSteps
      /\ it.t + dt \in StartTime .. EndTime
      /\ (IF it.n >= 1 THEN it.t ELSE it.oldT) \in StartTime .. EndTime
      /\ (IF it.n >= 1 THEN dt ELSE it.oldDt) \in Nat
  BY <1>1, <1>3
<1>6. QED
  BY <1>3, <1>4, <1>5 DEF TimeIterators, Times

(* The factor limits the change of the increment and never makes it zero.  *)
LEMMA ChangedIncrement ==
  ASSUME NEW it \in TimeIterators, NEW value \in Nat \ {0}, NEW factor \in Nat \ {0}
  PROVE LET changed == SetCurrentTimeIncrement(it, value, factor) IN
        /\ changed \in TimeIterators
        /\ changed.dt > 0
        /\ changed.n = it.n /\ changed.t = it.t /\ changed.oldT = it.oldT
<1> DEFINE d == IF it.oldDt = 0 THEN value
                ELSE IF it.oldDt < value THEN Min({factor * it.oldDt, value})
                ELSE Max({it.oldDt \div factor, value})
<1>1. it.oldDt \in Nat
  BY DEF TimeIterators
<1>2. factor * it.oldDt \in Nat /\ (it.oldDt # 0 => factor * it.oldDt > 0)
  BY <1>1
<1>3. it.oldDt \div factor \in Int
  BY <1>1
<1>4. Min({factor * it.oldDt, value}) =
        IF factor * it.oldDt <= value THEN factor * it.oldDt ELSE value
  BY <1>2, PairMin
<1>5. Max({it.oldDt \div factor, value}) =
        IF it.oldDt \div factor >= value THEN it.oldDt \div factor ELSE value
  BY <1>3, PairMax
<1>6. d \in Nat /\ d > 0
  BY <1>1, <1>2, <1>3, <1>4, <1>5
<1>7. SetCurrentTimeIncrement(it, value, factor) = [it EXCEPT !.dt = d]
  BY DEF SetCurrentTimeIncrement
<1> HIDE DEF d
<1>8. QED
  BY <1>6, <1>7 DEF TimeIterators

(* A new process starts at the start time with a step to take.             *)
LEMMA InitialFacts ==
  /\ InitialTimeIterator \in TimeIterators
  /\ InitialTimeIterator.dt > 0
  /\ InitialTimeIterator.n = 0
  /\ InitialTimeIterator.t = StartTime
  /\ InitialTimeIterator.oldT = StartTime
<1>1. /\ Reset \in TimeIterators
      /\ Reset.dt > 0 /\ Reset.n = 0 /\ Reset.t = StartTime /\ Reset.oldT = StartTime
  BY DEF Reset, TimeIterators, Times
<1>2. CASE HeatUpDt > 0
  <2>1. HeatUpDt \in Nat \ {0} /\ 1 \in Nat \ {0}
    BY <1>2
  <2>2. QED
    BY <1>1, <1>2, <2>1, ChangedIncrement DEF InitialTimeIterator
<1>3. CASE ~(HeatUpDt > 0)
  BY <1>1, <1>3 DEF InitialTimeIterator
<1>4. QED
  BY <1>2, <1>3

-----------------------------------------------------------------------------
(* Records.  What clean_pvd() leaves is found by recursion over the        *)
(* records; what it leaves of the first k is shown by the least k that     *)
(* would not have it.                                                      *)
LEMMA LeastNat ==
  ASSUME NEW S \in SUBSET Nat, S # {}
  PROVE \E n \in S : \A m \in S : n <= m
<1>1. PICK x \in S : \A y \in S : ~(<<y, x>> \in OpToRel(<, Nat))
  BY NatLessThanWellFounded, WFMin
<1>2. \A y \in S : ~(y < x)
  BY <1>1 DEF OpToRel
<1>3. ASSUME NEW y \in S PROVE x <= y
  <2>1. x \in Nat /\ y \in Nat
    OBVIOUS
  <2>2. ~(y < x)
    BY <1>2
  <2>3. QED
    BY <2>1, <2>2
<1>4. QED
  BY <1>3

Record == [t : Times, n : Steps]

(* g[k] is what the cleaning leaves of the first k <= m records of l.      *)
Kept(l, dir, m, g) ==
  g = [k \in 0 .. m |->
         IF k = 0 THEN <<>>
         ELSE IF dir[l[k].n] # NoFile THEN Append(g[k - 1], l[k]) ELSE g[k - 1]]

(* The recursion of clean_pvd() defines a function.                        *)
LEMMA KeptExists ==
  ASSUME NEW l, NEW dir, NEW m \in Nat
  PROVE \E g : Kept(l, dir, m, g)
<1> DEFINE S == {k \in Nat : ~ \E g : Kept(l, dir, k, g)}
<1>1. SUFFICES ASSUME S # {} PROVE FALSE
  OBVIOUS
<1>2. PICK n \in S : \A k \in S : n <= k
  BY <1>1, LeastNat
<1>3. n # 0
  <2>1. Kept(l, dir, 0, [k \in 0 .. 0 |-> <<>>])
    BY DEF Kept
  <2>2. QED
    BY <2>1
<1>4. PICK g : Kept(l, dir, n - 1, g)
  BY <1>2, <1>3
<1>5. n \in Nat /\ n > 0
  BY <1>3
<1> DEFINE next(q) == IF dir[l[n].n] # NoFile THEN Append(q, l[n]) ELSE q
           h == [k \in 0 .. n |-> IF k < n THEN g[k] ELSE next(g[n - 1])]
<1>6. ASSUME NEW k \in 0 .. n
      PROVE h[k] = IF k = 0 THEN <<>>
                   ELSE IF dir[l[k].n] # NoFile THEN Append(h[k - 1], l[k]) ELSE h[k - 1]
  <2>1. CASE k < n
    <3>1. k \in 0 .. n - 1 /\ h[k] = g[k] /\ (k # 0 => h[k - 1] = g[k - 1])
      BY <1>5, <2>1
    <3>2. g[k] = IF k = 0 THEN <<>>
                 ELSE IF dir[l[k].n] # NoFile THEN Append(g[k - 1], l[k]) ELSE g[k - 1]
      BY <1>4, <3>1 DEF Kept
    <3> HIDE DEF h
    <3>3. QED
      BY <3>1, <3>2
  <2>2. CASE k = n
    <3>1. h[k] = next(g[n - 1]) /\ h[k - 1] = g[n - 1]
      BY <1>5, <2>2
    <3> HIDE DEF h
    <3>2. QED
      BY <1>5, <2>2, <3>1
  <2>3. QED
    BY <1>5, <2>1, <2>2
<1>7. h = [k \in 0 .. n |-> h[k]]
  OBVIOUS
<1>8. Kept(l, dir, n, h)
  <2> HIDE DEF h
  <2>1. QED
    BY <1>6, <1>7 DEF Kept
<1>9. QED
  BY <1>8

LEMMA CleanIsKept ==
  ASSUME NEW l, NEW dir, Len(l) \in Nat
  PROVE \E g : Kept(l, dir, Len(l), g) /\ CleanPvd(l, dir) = g[Len(l)]
<1> DEFINE f == CHOOSE g : Kept(l, dir, Len(l), g)
<1>1. CleanPvd(l, dir) = f[Len(l)]
  BY DEF CleanPvd, Kept
<1>2. Kept(l, dir, Len(l), f)
  BY KeptExists
<1>3. QED
  BY <1>1, <1>2

(* Records in strict order of step and time.                               *)
Ordered(l) ==
  \A i, j \in 1 .. Len(l) : i < j => l[i].n < l[j].n /\ l[i].t < l[j].t

(* c is what cleaning leaves of the first k records of l.                  *)
Cleaned(c, l, dir, k) ==
  /\ c \in Records
  /\ \A i \in 1 .. Len(c) : \E j \in 1 .. k : c[i] = l[j] /\ dir[l[j].n] # NoFile
  /\ \A j \in 1 .. k : dir[l[j].n] # NoFile => \E i \in 1 .. Len(c) : c[i] = l[j]
  /\ Ordered(l) => Ordered(c)

(* One more record of l.                                                   *)
LEMMA CleanOneMore ==
  ASSUME NEW l \in Records, NEW dir, NEW k \in 1 .. Len(l), NEW c,
         Cleaned(c, l, dir, k - 1)
  PROVE Cleaned(IF dir[l[k].n] # NoFile THEN Append(c, l[k]) ELSE c, l, dir, k)
<1> DEFINE d == Append(c, l[k])
<1>1. /\ c \in Seq(Record) /\ l \in Seq(Record) /\ l[k] \in Record
      /\ Len(l) \in Nat /\ Len(c) \in Nat /\ k \in Nat /\ k > 0
  <2>1. c \in Seq(Record) /\ l \in Seq(Record)
    BY DEF Cleaned, Records, Record
  <2> HIDE DEF d
  <2>2. QED
    BY <2>1
<1>2. \A i \in 1 .. Len(c) : \E j \in 1 .. k - 1 : c[i] = l[j] /\ dir[l[j].n] # NoFile
  BY DEF Cleaned
<1>3. \A j \in 1 .. k - 1 : dir[l[j].n] # NoFile => \E i \in 1 .. Len(c) : c[i] = l[j]
  BY DEF Cleaned
<1>4. \A j \in 1 .. k : j \in 1 .. k - 1 \/ j = k
  BY <1>1
<1>5. \A j \in 1 .. k - 1 : j \in 1 .. k /\ j < k /\ j \in 1 .. Len(l)
  BY <1>1
<1>6. CASE dir[l[k].n] = NoFile
  <2>1. \A i \in 1 .. Len(c) : \E j \in 1 .. k : c[i] = l[j] /\ dir[l[j].n] # NoFile
    BY <1>2, <1>5
  <2>2. \A j \in 1 .. k : dir[l[j].n] # NoFile => \E i \in 1 .. Len(c) : c[i] = l[j]
    BY <1>3, <1>4, <1>6
  <2>3. QED
    BY <1>6, <2>1, <2>2 DEF Cleaned
<1>7. CASE dir[l[k].n] # NoFile
  <2>1. /\ d \in Seq(Record) /\ Len(d) = Len(c) + 1 /\ d[Len(c) + 1] = l[k]
        /\ \A i \in 1 .. Len(c) : d[i] = c[i]
    BY <1>1
  <2>2. \A i \in 1 .. Len(d) : i \in 1 .. Len(c) \/ i = Len(c) + 1
    BY <1>1, <2>1
  <2>3. \A i \in 1 .. Len(c) : i \in 1 .. Len(d) /\ i < Len(c) + 1
    BY <1>1, <2>1
  <2>4. Len(c) + 1 \in 1 .. Len(d) /\ k \in 1 .. k
    BY <1>1, <2>1
  <2> HIDE DEF d
  <2>5. \A i \in 1 .. Len(d) : \E j \in 1 .. k : d[i] = l[j] /\ dir[l[j].n] # NoFile
    <3> SUFFICES ASSUME NEW i \in 1 .. Len(d)
                 PROVE \E j \in 1 .. k : d[i] = l[j] /\ dir[l[j].n] # NoFile
      OBVIOUS
    <3>1. CASE i \in 1 .. Len(c)
      <4>1. PICK j \in 1 .. k - 1 : c[i] = l[j] /\ dir[l[j].n] # NoFile
        BY <1>2, <3>1
      <4>2. QED
        BY <1>5, <2>1, <3>1, <4>1
    <3>2. CASE i = Len(c) + 1
      BY <1>7, <2>1, <2>4, <3>2
    <3>3. QED
      BY <2>2, <3>1, <3>2
  <2>6. \A j \in 1 .. k : dir[l[j].n] # NoFile => \E i \in 1 .. Len(d) : d[i] = l[j]
    <3> SUFFICES ASSUME NEW j \in 1 .. k, dir[l[j].n] # NoFile
                 PROVE \E i \in 1 .. Len(d) : d[i] = l[j]
      OBVIOUS
    <3>1. CASE j \in 1 .. k - 1
      BY <1>3, <2>1, <2>3, <3>1
    <3>2. CASE j = k
      BY <2>1, <2>4, <3>2
    <3>3. QED
      BY <1>4, <3>1, <3>2
  <2>7. Ordered(l) => Ordered(d)
    <3> SUFFICES ASSUME Ordered(l), NEW a \in 1 .. Len(d), NEW b \in 1 .. Len(d), a < b
                 PROVE d[a].n < d[b].n /\ d[a].t < d[b].t
      BY DEF Ordered
    <3>1. a \in 1 .. Len(c)
      BY <1>1, <2>1
    <3>2. CASE b \in 1 .. Len(c)
      BY <2>1, <3>1, <3>2 DEF Cleaned, Ordered
    <3>3. CASE b = Len(c) + 1
      <4>1. PICK j \in 1 .. k - 1 : c[a] = l[j]
        BY <1>2, <3>1
      <4>2. l[j].n < l[k].n /\ l[j].t < l[k].t
        BY <1>5, <4>1 DEF Ordered
      <4>3. QED
        BY <2>1, <3>1, <3>3, <4>1, <4>2
    <3>4. QED
      BY <2>2, <3>2, <3>3
  <2>8. QED
    BY <1>7, <2>1, <2>5, <2>6, <2>7 DEF Cleaned, Records, Record, d
<1>8. QED
  BY <1>6, <1>7

(* What clean_pvd() does: it leaves the records with a file, in order.     *)
LEMMA CleanFacts ==
  ASSUME NEW l \in Records, NEW dir
  PROVE /\ Cleaned(CleanPvd(l, dir), l, dir, Len(l))
        /\ l # <<>> /\ dir[l[Len(l)].n] # NoFile =>
             LET c == CleanPvd(l, dir) IN c # <<>> /\ c[Len(c)] = l[Len(l)]
<1>1. l \in Seq(Record) /\ Len(l) \in Nat /\ (l # <<>> => Len(l) > 0)
  BY DEF Records, Record
<1>2. PICK g : Kept(l, dir, Len(l), g) /\ CleanPvd(l, dir) = g[Len(l)]
  BY <1>1, CleanIsKept
<1>3. ASSUME NEW k \in 0 .. Len(l)
      PROVE g[k] = IF k = 0 THEN <<>>
                   ELSE IF dir[l[k].n] # NoFile THEN Append(g[k - 1], l[k]) ELSE g[k - 1]
  BY <1>2 DEF Kept
<1> DEFINE S == {k \in 0 .. Len(l) : ~Cleaned(g[k], l, dir, k)}
<1>4. S = {}
  <2>1. SUFFICES ASSUME S # {} PROVE FALSE
    OBVIOUS
  <2>2. S \in SUBSET Nat
    BY <1>1
  <2>3. PICK n \in S : \A k \in S : n <= k
    BY <2>1, <2>2, LeastNat
  <2>4. n # 0
    <3>1. g[0] = <<>>
      BY <1>1, <1>3
    <3>2. Cleaned(<<>>, l, dir, 0)
      BY DEF Cleaned, Ordered, Records
    <3>3. QED
      BY <3>1, <3>2
  <2>5. n \in 1 .. Len(l) /\ n - 1 \in 0 .. Len(l) /\ ~(n <= n - 1)
    BY <1>1, <2>4
  <2>6. Cleaned(g[n - 1], l, dir, n - 1)
    BY <2>3, <2>5
  <2>7. Cleaned(IF dir[l[n].n] # NoFile THEN Append(g[n - 1], l[n]) ELSE g[n - 1], l, dir, n)
    BY <2>5, <2>6, CleanOneMore
  <2>8. g[n] = IF dir[l[n].n] # NoFile THEN Append(g[n - 1], l[n]) ELSE g[n - 1]
    BY <1>3, <2>4
  <2>9. Cleaned(g[n], l, dir, n)
    BY <2>7, <2>8
  <2>10. QED
    BY <2>9
<1>5. Cleaned(g[Len(l)], l, dir, Len(l))
  BY <1>1, <1>4
<1>6. ASSUME l # <<>>, dir[l[Len(l)].n] # NoFile
      PROVE g[Len(l)] # <<>> /\ g[Len(l)][Len(g[Len(l)])] = l[Len(l)]
  <2>1. g[Len(l)] = Append(g[Len(l) - 1], l[Len(l)])
    <3>1. Len(l) \in 0 .. Len(l) /\ Len(l) # 0
      BY <1>1, <1>6
    <3>2. QED
      BY <1>3, <1>6, <3>1
  <2>2. g[Len(l) - 1] \in Seq(Record)
    BY <1>1, <1>4, <1>6 DEF Cleaned, Records, Record
  <2>3. l[Len(l)] \in Record
    BY <1>1, <1>6
  <2> HIDE DEF Record
  <2>4. QED
    BY <2>1, <2>2, <2>3
<1>7. QED
  BY <1>2, <1>5, <1>6

LEMMA CleanType ==
  ASSUME NEW l \in Records, NEW dir
  PROVE CleanPvd(l, dir) \in Records
BY CleanFacts DEF Cleaned

LEMMA RecordedType ==
  ASSUME ti \in TimeIterators, NEW l \in Records
  PROVE Recorded(l) \in Records
<1>1. [t |-> ti.t, n |-> ti.n] \in Record /\ l \in Seq(Record)
  BY DEF TimeIterators, Record, Records, Steps
<1>2. Append(l, [t |-> ti.t, n |-> ti.n]) \in Seq(Record)
  BY <1>1
<1>3. QED
  BY <1>1, <1>2 DEF Recorded, Records, Record

(* What a killed job leaves of a file of records.                          *)
LEMMA PartFacts ==
  ASSUME NEW l \in Records, NEW k \in 0 .. Len(l)
  PROVE LET part == SubSeq(l, 1, k) IN
        /\ part \in Records
        /\ Len(part) = k
        /\ \A i \in 1 .. k : part[i] = l[i] /\ i \in 1 .. Len(l)
        /\ Ordered(l) => Ordered(part)
<1> DEFINE part == SubSeq(l, 1, k)
<1>1. l \in Seq(Record) /\ Len(l) \in Nat
  BY DEF Records, Record
<1>2. part \in Seq(Record)
  BY <1>1, SubSeqProperties
<1>3. Len(part) = k
  BY <1>1, SubSeqProperties
<1>4. \A i \in 1 .. k : part[i] = l[i]
  BY <1>1, SubSeqProperties
<1> HIDE DEF part
<1>5. \A i \in 1 .. k : i \in 1 .. Len(l)
  BY <1>1
<1>6. Ordered(l) => Ordered(part)
  BY <1>3, <1>4, <1>5 DEF Ordered
<1>7. part \in Records
  BY <1>2 DEF Records, Record
<1>8. QED
  BY <1>3, <1>4, <1>5, <1>6, <1>7 DEF part

-----------------------------------------------------------------------------
(* Types: the step number and the time stay within the parameters' bounds. *)
Files == [Steps -> Times \cup {NoFile, CutFile}]

AdafloClocks == [n : Nat, now : Nat, previous : Nat, step : Int, old : Int]

LEMMA ProcessType ==
  ASSUME TypeOK, NEW force \in BOOLEAN, NEW next \in {"loop", "save", "down"},
         Process(force, next)
  PROVE /\ UNCHANGED <<list, others, pvd, lastOut, since>>
        /\ vtu' \in Files
        /\ torn' \subseteq Steps
        /\ (pc' = next /\ back' = back) \/ (pc' = "vtu" /\ back' = next)
<1>1. ti.n \in Steps /\ vtu \in Files /\ torn \subseteq Steps
  BY DEF TypeOK, TimeIterators, Steps, Files
<1>2. QED
  BY <1>1 DEF Process, output, Files

(* What is loaded is a time iterator.                                      *)
LEMMA LoadedFacts ==
  ASSUME snap \in Saved
  PROVE LET it == LoadArchived(InitialTimeIterator, snap.ti) IN
        /\ it \in TimeIterators
        /\ it.dt > 0
        /\ it.n = snap.ti.n /\ it.n >= 1
        /\ it.t = snap.ti.t /\ it.oldT = snap.ti.oldT
        /\ Synchronize(AdafloStart, it) \in AdafloClocks
        /\ Synchronize(AdafloStart, it).n = it.n
        /\ Synchronize(AdafloStart, it).now = it.t
        /\ it.n > 1 \/ it.oldT = StartTime =>
             Synchronize(AdafloStart, it).step = it.t - it.oldT
<1> DEFINE it == LoadArchived(InitialTimeIterator, snap.ti)
<1>1. InitialTimeIterator.dt \in Nat /\ InitialTimeIterator.dt > 0
  BY InitialFacts DEF TimeIterators
<1>2. /\ snap.ti.n \in 1 .. MaxNSteps /\ snap.ti.t \in Times
      /\ snap.ti.oldT \in Times /\ snap.ti.oldDt \in Nat
  BY DEF Saved
<1>3. /\ it \in TimeIterators
      /\ it.dt = InitialTimeIterator.dt
      /\ it.n = snap.ti.n /\ it.t = snap.ti.t /\ it.oldT = snap.ti.oldT
  BY <1>1, <1>2 DEF LoadArchived, TimeIterators
<1> HIDE DEF it
<1>4. /\ it.n \in Nat /\ it.n >= 1 /\ it.t \in Nat /\ it.oldT \in Nat
  BY <1>2, <1>3 DEF Times
<1> DEFINE a == Synchronize(AdafloStart, it)
           a1 == IF it.n - 0 > 2 THEN EmptySteps(AdafloStart, it.n - 2) ELSE AdafloStart
           a2 == IF it.n - 0 > 1 THEN AdafloNext(a1, it.oldT - a1.now) ELSE a1
<1>5. a = AdafloNext(a2, it.t - a2.now)
  BY DEF Synchronize, AdafloStart
<1>6. /\ a1.n = IF it.n > 2 THEN it.n - 2 ELSE 0
      /\ a1.now = StartTime /\ a1.step = 0
  BY <1>4 DEF AdafloStart, EmptySteps
<1> HIDE DEF a1
<1>7. /\ a2.n = it.n - 1
      /\ a2.now = IF it.n > 1 THEN it.oldT ELSE StartTime
      /\ a2.step \in Int
  BY <1>4, <1>6 DEF AdafloNext
<1> HIDE DEF a2
<1>8. a = [n |-> it.n, now |-> it.t, previous |-> a2.now, step |-> it.t - a2.now,
           old |-> a2.step]
  BY <1>4, <1>5, <1>7 DEF AdafloNext
<1>9. a \in AdafloClocks
  BY <1>4, <1>7, <1>8 DEF AdafloClocks
<1>10. QED
  BY <1>1, <1>3, <1>4, <1>7, <1>8, <1>9 DEF it

(* The head of a step: the clocks advance together.                        *)
LEMMA AdvanceFacts ==
  ASSUME ti \in TimeIterators, ti.dt > 0, Advance
  PROVE /\ ti' \in TimeIterators
        /\ ti'.dt > 0
        /\ ti'.n = ti.n + 1
        /\ ti'.t = ti.t + ti'.dt
        /\ ti'.oldT = IF ti.n >= 1 THEN ti.t ELSE ti.oldT
<1> DEFINE it == HeatUpModified
<1>1. /\ it \in TimeIterators /\ it.dt > 0
      /\ it.n = ti.n /\ it.t = ti.t /\ it.oldT = ti.oldT
  <2>1. CASE HeatUpControls
    <3>1. TimeStepSize \in Nat \ {0} /\ Factor \in Nat \ {0}
      OBVIOUS
    <3>2. it = SetCurrentTimeIncrement(ti, TimeStepSize, Factor)
      BY <2>1 DEF HeatUpModified
    <3>3. QED
      BY <3>1, <3>2, ChangedIncrement
  <2>2. CASE ~HeatUpControls
    BY <2>2 DEF HeatUpModified
  <2>3. QED
    BY <2>1, <2>2
<1>2. ti' = ComputeNextTimeIncrement(it)
  BY DEF Advance
<1>3. ~IsFinished(it)
  BY <1>1 DEF Advance, IsFinished
<1> HIDE DEF it
<1>4. QED
  BY <1>1, <1>2, <1>3, NextIncrement

(* A step that begins has an increment.                                    *)
Forward == ti.dt > 0

(* Archived at the end of a step.                                          *)
Stepped ==
  pc \in {"solve", "output", "save"} \/ (pc \in {"vtu", "pvd", "close"} /\ back = "save")
    => ti.n >= 1

TypeInv == TypeOK /\ Forward /\ Stepped

LEMMA TypeInit == Init => TypeInv
<1>1. ASSUME Init PROVE TypeInv
  <2>1. AdafloStart \in AdafloClocks
    BY DEF AdafloStart, AdafloClocks
  <2>2. <<>> \in Records
    BY DEF Records
  <2>3. vtu \in Files
    BY <1>1 DEF Init, Files
  <2>4. /\ StartTime \in Times /\ 0 \in Steps /\ 1 \in 1 .. MaxJobs
    BY DEF Times, Steps
  <2>5. QED
    BY <1>1, <2>1, <2>2, <2>3, <2>4, InitialFacts
       DEF Init, TypeInv, TypeOK, Forward, Stepped, Files, AdafloClocks
<1>2. QED
  BY <1>1

(* A save archives restart data.                                           *)
LEMMA SnapshotsSaved ==
  ASSUME TypeInv, pc = "save"
  PROVE Snapshots \subseteq Saved /\ NoSnapshot \notin Snapshots
<1>1. ASSUME NEW l \in {list, others}
      PROVE [ti |-> Archived(ti), list |-> l, lastOut |-> lastOut, hot |-> hot] \in Saved
  BY DEF TypeInv, Stepped, TypeOK, Saved, Archived, TimeIterators
<1>2. Snapshots \subseteq Saved
  BY <1>1 DEF Snapshots
<1>3. QED
  BY <1>2, SnapshotAssumption

LEMMA TypeStep == TypeInv /\ [Next]_vars => TypeInv'
<1> SUFFICES ASSUME TypeInv, [Next]_vars PROVE TypeInv'
  OBVIOUS
<1> USE DEF TypeInv
<1> USE DEF Files, AdafloClocks
<1>1. CASE OutputInitial
  <2>1. Process(FALSE, "loop") /\ FALSE \in BOOLEAN
    BY <1>1 DEF OutputInitial
  <2>2. /\ UNCHANGED <<list, others, pvd, lastOut, since>>
        /\ vtu' \in Files /\ torn' \subseteq Steps
        /\ (pc' = "loop" /\ back' = back) \/ (pc' = "vtu" /\ back' = "loop")
    BY <2>1, ProcessType
  <2>3. QED
    BY <1>1, <2>2 DEF OutputInitial, TypeOK, Forward, Stepped
<1>2. CASE Advance
  <2>1. laser' \in Nat /\ adaflo' \in AdafloClocks
    BY <1>2, AdvanceFacts DEF Advance, AdafloNext, TypeOK, Forward, TimeIterators
  <2>2. heated' \in BOOLEAN
    BY <1>2 DEF Advance
  <2>3. ti \in TimeIterators
    BY DEF TypeOK
  <2>4. ti.n \in Nat
    BY <2>3 DEF TimeIterators
  <2>5. QED
    BY <1>2, <2>1, <2>2, <2>4, AdvanceFacts DEF Advance, TypeOK, Forward, Stepped, output
<1>3. CASE Solve
  BY <1>3 DEF Solve, TypeOK, Forward, Stepped, output
<1>4. CASE SolveFails
  <2>1. Process(TRUE, "down") /\ TRUE \in BOOLEAN
    BY <1>4 DEF SolveFails
  <2>2. /\ UNCHANGED <<list, others, pvd, lastOut, since>>
        /\ vtu' \in Files /\ torn' \subseteq Steps
        /\ (pc' = "down" /\ back' = back) \/ (pc' = "vtu" /\ back' = "down")
    BY <2>1, ProcessType
  <2>3. QED
    BY <1>4, <2>2 DEF SolveFails, TypeOK, Forward, Stepped
<1>5. CASE Output
  <2>1. Process(FALSE, "save") /\ FALSE \in BOOLEAN
    BY <1>5 DEF Output
  <2>2. /\ UNCHANGED <<list, others, pvd, lastOut, since>>
        /\ vtu' \in Files /\ torn' \subseteq Steps
        /\ (pc' = "save" /\ back' = back) \/ (pc' = "vtu" /\ back' = "save")
    BY <2>1, ProcessType
  <2>3. QED
    BY <1>5, <2>2 DEF Output, TypeOK, Forward, Stepped
<1>6. CASE WriteVtu
  <2>1. ti.n \in Steps /\ ti.t \in Times /\ vtu \in Files
    BY DEF TypeOK, TimeIterators, Steps
  <2>2. vtu' \in Files
    BY <1>6, <2>1 DEF WriteVtu
  <2>3. QED
    BY <1>6, <2>2 DEF WriteVtu, TypeOK, Forward, Stepped
<1>7. CASE WritePvd
  <2>1. Recorded(list) \in Records /\ Recorded(others) \in Records
    BY RecordedType DEF TypeOK
  <2>2. list' \in Records /\ others' \in Records
    BY <1>7, <2>1, CleanType DEF WritePvd
  <2>3. pvd' \in Records
    BY <1>7, <2>2, PartFacts DEF WritePvd
  <2>4. QED
    BY <1>7, <2>2, <2>3 DEF WritePvd, TypeOK, Forward, Stepped
<1>8. CASE ClosePvd
  <2>1. /\ pvd' \in Records /\ torn' \subseteq Steps /\ lastOut' \in Times
        /\ pc' \in {"loop", "save", "down"} /\ (pc' = "save" => back = "save")
    BY <1>8 DEF ClosePvd, TypeOK, TimeIterators
  <2>2. QED
    BY <1>8, <2>1 DEF ClosePvd, TypeOK, Forward, Stepped
<1>9. CASE Save
  <2>1. Snapshots \subseteq Saved
    BY <1>9, SnapshotsSaved DEF Save
  <2>2. lastSaved' \in Times /\ snap' \in Saved \cup {NoSnapshot}
    BY <1>9, <2>1 DEF Save, TypeOK, TimeIterators
  <2>3. QED
    BY <1>9, <2>2 DEF Save, TypeOK, Forward, Stepped, output
<1>10. CASE Finish
  BY <1>10 DEF Finish, TypeOK, Forward, Stepped, output
<1>11. CASE Crash
  BY <1>11 DEF Crash, TypeOK, Forward, Stepped, output
<1>12. ASSUME NEW first \in Steps, Directory(first)
       PROVE vtu' \in Files /\ pvd' \in Records /\ since' \in Steps /\ torn' \subseteq Steps
  <2>1. CASE UNCHANGED <<vtu, pvd, since, torn>>
    BY <2>1 DEF TypeOK
  <2>2. CASE vtu' = [n \in Steps |-> NoFile] /\ pvd' = <<>> /\ since' = first /\ torn' = {}
    BY <1>12, <2>2 DEF Records
  <2>3. QED
    BY <1>12, <2>1, <2>2 DEF Directory
<1>13. ASSUME NewProcess
       PROVE /\ heated' \in BOOLEAN /\ laser' \in Nat /\ lastSaved' \in Times
             /\ jobs' \in 1 .. MaxJobs /\ pc' = "output initial" /\ back' = "loop"
  <2>1. jobs \in 1 .. MaxJobs
    BY DEF TypeOK
  <2>2. jobs < MaxJobs /\ jobs' = jobs + 1
    BY <1>13 DEF NewProcess
  <2>3. jobs' \in 1 .. MaxJobs
    BY <2>1, <2>2
  <2>4. /\ heated' = FALSE /\ laser' = StartTime /\ lastSaved' = StartTime
        /\ pc' = "output initial" /\ back' = "loop"
    BY <1>13 DEF NewProcess
  <2>5. StartTime \in Times /\ StartTime \in Nat
    BY DEF Times
  <2>6. QED
    BY <2>3, <2>4, <2>5
<1>14. CASE RestartFresh
  <2>1. /\ vtu' \in Files /\ pvd' \in Records /\ since' \in Steps /\ torn' \subseteq Steps
    BY <1>12, <1>14 DEF RestartFresh, Steps
  <2>2. /\ heated' \in BOOLEAN /\ laser' \in Nat /\ lastSaved' \in Times
        /\ jobs' \in 1 .. MaxJobs /\ pc' = "output initial" /\ back' = "loop"
    BY <1>13, <1>14 DEF RestartFresh
  <2>3. /\ ti' \in TimeIterators /\ ti'.dt > 0
    BY <1>14, InitialFacts DEF RestartFresh
  <2>4. /\ adaflo' \in AdafloClocks
        /\ list' \in Records /\ others' \in Records /\ lastOut' \in Times
    BY <1>14 DEF RestartFresh, AdafloStart, Records, Times
  <2>5. hot' \in BOOLEAN /\ snap' = snap
    BY <1>14 DEF RestartFresh
  <2>6. QED
    BY <2>1, <2>2, <2>3, <2>4, <2>5 DEF TypeOK, Forward, Stepped
<1>15. CASE RestartLoad
  <2>1. snap \in Saved
    BY <1>15 DEF RestartLoad, TypeOK
  <2>2. snap.ti.n \in Steps
    BY <2>1 DEF Saved, Steps
  <2>3. /\ vtu' \in Files /\ pvd' \in Records /\ since' \in Steps /\ torn' \subseteq Steps
    BY <1>12, <1>15, <2>2 DEF RestartLoad
  <2>4. /\ heated' \in BOOLEAN /\ laser' \in Nat /\ lastSaved' \in Times
        /\ jobs' \in 1 .. MaxJobs /\ pc' = "output initial" /\ back' = "loop"
    BY <1>13, <1>15 DEF RestartLoad
  <2>5. /\ ti' \in TimeIterators /\ ti'.dt > 0
        /\ adaflo' \in AdafloClocks
    BY <1>15, <2>1, LoadedFacts DEF RestartLoad
  <2>6. /\ list' \in Records /\ others' \in Records /\ lastOut' \in Times
        /\ hot' \in BOOLEAN /\ snap' = snap
    BY <1>15, <2>1 DEF RestartLoad, Saved
  <2>7. QED
    BY <2>3, <2>4, <2>5, <2>6 DEF TypeOK, Forward, Stepped
<1>16. CASE UNCHANGED vars
  BY <1>16 DEF vars, TypeOK, Forward, Stepped
<1>17. QED
  BY <1>1, <1>2, <1>3, <1>4, <1>5, <1>6, <1>7, <1>8, <1>9, <1>10, <1>11, <1>14, <1>15, <1>16
     DEF Next

(* Every variable keeps its type: the step number stays within the largest *)
(* one and the time between start and end, whatever increments were asked  *)
(* for and whatever was loaded.                                            *)
THEOREM TypeCorrect == Spec => []TypeOK
<1>1. Spec => []TypeInv
  BY TypeInit, TypeStep, PTL DEF Spec
<1>2. TypeInv => TypeOK
  BY DEF TypeInv
<1>3. QED
  BY <1>1, <1>2, PTL

-----------------------------------------------------------------------------
(* adaflo's clock shows the step and the time of the time iterator, and    *)
(* its last step the size of the run's last step, between the steps and    *)
(* after a restart too.                                                    *)
Clocks ==
  /\ ti.n = 0 => ti.t = StartTime
  /\ ti.n <= 1 => ti.oldT = StartTime
  /\ snap # NoSnapshot => (snap.ti.n <= 1 => snap.ti.oldT = StartTime)
  /\ adaflo.n = ti.n /\ adaflo.now = ti.t
  /\ adaflo.step = ti.t - ti.oldT
  /\ pc = "solve" => adaflo.previous = ti.oldT /\ adaflo.step = ti.dt

(* A new process.                                                          *)
LEMMA ClocksStart ==
  /\ AdafloStart.n = InitialTimeIterator.n /\ AdafloStart.now = InitialTimeIterator.t
  /\ AdafloStart.step = InitialTimeIterator.t - InitialTimeIterator.oldT
  /\ InitialTimeIterator.t = StartTime /\ InitialTimeIterator.oldT = StartTime
<1>1. StartTime - StartTime = 0
  OBVIOUS
<1>2. QED
  BY <1>1, InitialFacts DEF AdafloStart

(* What a step of the run does to both clocks.                             *)
LEMMA ClocksAdvance ==
  ASSUME TypeInv, Clocks, Advance
  PROVE Clocks' /\ adaflo'.old = ti.t - ti.oldT
<1>1. /\ ti'.n = ti.n + 1 /\ ti'.t = ti.t + ti'.dt /\ ti' \in TimeIterators
      /\ ti'.oldT = IF ti.n >= 1 THEN ti.t ELSE ti.oldT
  BY AdvanceFacts DEF TypeInv, TypeOK, Forward
<1>2. adaflo' = [n |-> adaflo.n + 1, now |-> adaflo.now + ti'.dt, previous |-> adaflo.now,
                 step |-> ti'.dt, old |-> adaflo.step]
  BY DEF Advance, AdafloNext
<1>3. ti \in TimeIterators
  BY DEF TypeInv, TypeOK
<1>4. ti.n \in Nat /\ ti.t \in Nat /\ ti.oldT \in Nat /\ ti'.dt \in Nat
  BY <1>1, <1>3 DEF TimeIterators, Times
<1>5. ti'.oldT = ti.t
  BY <1>1, <1>4 DEF Clocks
<1>6. ti'.n <= 1 => ti'.oldT = StartTime
  BY <1>1, <1>4, <1>5 DEF Clocks
<1>7. adaflo'.step = ti'.t - ti'.oldT
  BY <1>1, <1>2, <1>4, <1>5
<1>8. snap' = snap
  BY DEF Advance
<1>9. QED
  BY <1>1, <1>2, <1>4, <1>5, <1>6, <1>7, <1>8 DEF Clocks

LEMMA ClocksStep == TypeInv /\ Clocks /\ [Next]_vars => Clocks'
<1> SUFFICES ASSUME TypeInv, Clocks, [Next]_vars PROVE Clocks'
  OBVIOUS
<1>1. CASE OutputInitial \/ SolveFails \/ Output
  BY <1>1 DEF OutputInitial, SolveFails, Output, Process, Clocks
<1>2. CASE WriteVtu \/ WritePvd \/ ClosePvd
  <2>1. /\ UNCHANGED <<ti, adaflo, snap>>
        /\ pc' \in {"pvd", "close", back}
    BY <1>2 DEF WriteVtu, WritePvd, ClosePvd
  <2>2. pc' # "solve"
    BY <2>1 DEF TypeInv, TypeOK
  <2>3. QED
    BY <2>1, <2>2 DEF Clocks
<1>3. CASE Advance
  BY <1>3, ClocksAdvance
<1>4. CASE Solve \/ Finish \/ Crash
  BY <1>4 DEF Solve, Finish, Crash, Clocks
<1>5. CASE Save
  <2>1. snap' = snap \/ snap' \in Snapshots
    BY <1>5 DEF Save
  <2>2. UNCHANGED <<ti, adaflo>> /\ pc' = "loop"
    BY <1>5 DEF Save
  <2>3. snap' \in Snapshots => snap'.ti.n = ti.n /\ snap'.ti.oldT = ti.oldT
    BY DEF Snapshots, Archived
  <2>4. QED
    BY <2>1, <2>2, <2>3 DEF Clocks
<1>6. CASE RestartFresh
  <2>1. ti' = InitialTimeIterator /\ adaflo' = AdafloStart /\ pc' = "output initial"
    BY <1>6 DEF RestartFresh, NewProcess
  <2>2. snap' = NoSnapshot
    BY <1>6 DEF RestartFresh
  <2>3. QED
    BY <2>1, <2>2, ClocksStart DEF Clocks
<1>7. CASE RestartLoad
  <2>1. snap \in Saved /\ snap' = snap /\ snap # NoSnapshot /\ pc' = "output initial"
    BY <1>7 DEF RestartLoad, NewProcess, TypeInv, TypeOK
  <2>2. /\ ti'.n >= 1 /\ ti'.n = snap.ti.n /\ ti'.oldT = snap.ti.oldT
        /\ adaflo'.n = ti'.n /\ adaflo'.now = ti'.t
        /\ ti'.n > 1 \/ ti'.oldT = StartTime => adaflo'.step = ti'.t - ti'.oldT
    BY <1>7, <2>1, LoadedFacts DEF RestartLoad
  <2>3. ti'.n \in Nat
    <3>1. snap.ti.n \in 1 .. MaxNSteps
      BY <2>1 DEF Saved
    <3>2. QED
      BY <2>2, <3>1
  <2>4. ti'.n <= 1 => ti'.oldT = StartTime
    BY <2>1, <2>2 DEF Clocks
  <2>5. adaflo'.step = ti'.t - ti'.oldT
    BY <2>2, <2>3, <2>4
  <2>6. ti'.n # 0
    BY <2>2, <2>3
  <2>7. QED
    BY <2>1, <2>2, <2>4, <2>5, <2>6 DEF Clocks
<1>8. CASE UNCHANGED vars
  BY <1>8 DEF vars, Clocks
<1>9. QED
  BY <1>1, <1>2, <1>3, <1>4, <1>5, <1>6, <1>7, <1>8 DEF Next

LEMMA ClocksInvariant == Spec => [](TypeInv /\ Clocks)
<1>1. ASSUME Init PROVE Clocks
  <2>1. /\ ti = InitialTimeIterator /\ adaflo = AdafloStart /\ pc = "output initial"
        /\ snap = NoSnapshot
    BY <1>1 DEF Init
  <2>2. QED
    BY <2>1, ClocksStart DEF Clocks
<1>2. QED
  BY <1>1, TypeInit, TypeStep, ClocksStep, PTL DEF Spec

(* adaflo and MeltPoolDG agree on step number, time, old time and step     *)
(* size in every step of every job, also after synchronize_time_stepping() *)
(* has repeated the steps.                                                 *)
THEOREM AdafloStaysAligned == Spec => []AdafloAligned
<1>1. TypeInv /\ Clocks => AdafloAligned
  BY DEF Clocks, AdafloAligned
<1>2. QED
  BY <1>1, ClocksInvariant, PTL

(* Whenever adaflo begins a step, its last one was as long as the run's    *)
(* own, whatever was loaded before.                                        *)
THEOREM AdafloKeepsItsOldStep == Spec => AdafloKeepsOldStep
<1>1. TypeInv /\ Clocks /\ [Next]_vars =>
        [pc = "loop" /\ pc' = "solve" => adaflo'.old = ti.t - ti.oldT]_vars
  <2> SUFFICES ASSUME TypeInv, Clocks, Next, pc = "loop", pc' = "solve"
               PROVE adaflo'.old = ti.t - ti.oldT
    OBVIOUS
  <2>1. Advance
    BY DEF Next, OutputInitial, SolveFails, Output, Process, WriteVtu, WritePvd, ClosePvd,
           Solve, Save, Finish, Crash, RestartFresh, RestartLoad, NewProcess, Advance
  <2>2. QED
    BY <2>1, ClocksAdvance
<1>2. QED
  BY <1>1, ClocksInvariant, PTL DEF Spec, AdafloKeepsOldStep

-----------------------------------------------------------------------------
(* What a killed job falls back to.                                        *)
SnapTime == IF snap = NoSnapshot THEN StartTime ELSE snap.ti.t

(* A process has not begun its first step.                                 *)
Starting == pc = "output initial" \/ (pc \in {"vtu", "pvd", "close"} /\ back = "loop")

(* The clock of do_save() never runs ahead of the newest restart data.  It *)
(* starts again with the process, at the start time.                       *)
SavedLate ==
  /\ lastSaved <= SnapTime
  /\ Starting => ti.t = SnapTime
  /\ LossBounded

LEMMA SavedLateStep == TypeInv /\ SavedLate /\ [Next]_vars => SavedLate'
<1> SUFFICES ASSUME TypeInv, SavedLate, [Next]_vars PROVE SavedLate'
  OBVIOUS
<1> DEFINE Bounded == pc = "loop" => ti.t - SnapTime < SaveTimeStep
<1>1. LossBounded = Bounded /\ LossBounded' = Bounded'
  BY DEF LossBounded, SnapTime
<1>2. /\ lastSaved <= SnapTime
      /\ Starting => ti.t = SnapTime
      /\ Bounded
  BY <1>1 DEF SavedLate
<1>3. ti \in TimeIterators /\ lastSaved \in Times /\ snap \in Saved \cup {NoSnapshot}
  BY DEF TypeInv, TypeOK
<1>4. ti.t \in Nat /\ lastSaved \in Nat
  BY <1>3 DEF TimeIterators, Times
<1>5. SnapTime \in Nat /\ SnapTime >= StartTime
  BY <1>3 DEF SnapTime, Saved, Times
<1> SUFFICES lastSaved' <= SnapTime' /\ (Starting' => ti'.t = SnapTime') /\ Bounded'
  BY <1>1 DEF SavedLate
<1>6. ASSUME UNCHANGED snap PROVE SnapTime' = SnapTime
  BY <1>6 DEF SnapTime
<1>7. CASE /\ UNCHANGED <<ti, lastSaved, snap>>
           /\ Starting' => Starting
           /\ pc' = "loop" => Starting
  <2>1. SnapTime' = SnapTime /\ ti' = ti /\ lastSaved' = lastSaved
    BY <1>6, <1>7
  <2>2. Starting => ti.t - SnapTime < SaveTimeStep
    BY <1>2, <1>5
  <2>3. QED
    BY <1>2, <1>7, <2>1, <2>2
<1>8. CASE OutputInitial \/ SolveFails \/ Output
  <2>1. /\ UNCHANGED <<ti, lastSaved, snap>>
        /\ Starting' => Starting
        /\ pc' = "loop" => Starting
    BY <1>8 DEF OutputInitial, SolveFails, Output, Process, Starting
  <2>2. QED
    BY <1>7, <2>1
<1>9. CASE WriteVtu \/ WritePvd \/ ClosePvd
  <2>1. /\ UNCHANGED <<ti, lastSaved, snap>>
        /\ Starting' => Starting
        /\ pc' = "loop" => Starting
    BY <1>9 DEF WriteVtu, WritePvd, ClosePvd, Starting, TypeInv, TypeOK
  <2>2. QED
    BY <1>7, <2>1
<1>10. CASE Save
  <2>1. CASE ti.t - lastSaved >= SaveTimeStep
    <3>1. lastSaved' = ti.t /\ ti' = ti /\ pc' = "loop" /\ snap' \in Snapshots
      BY <1>10, <2>1 DEF Save
    <3>2. snap' # NoSnapshot
      BY <1>10, <3>1, SnapshotsSaved DEF Save
    <3>3. snap'.ti.t = ti.t
      BY <3>1 DEF Snapshots, Archived
    <3>4. SnapTime' = ti.t
      BY <3>2, <3>3 DEF SnapTime
    <3>5. QED
      BY <1>4, <3>1, <3>4
  <2>2. CASE ~(ti.t - lastSaved >= SaveTimeStep)
    <3>1. lastSaved' = lastSaved /\ ti' = ti /\ pc' = "loop" /\ snap' = snap
      BY <1>10, <2>2 DEF Save
    <3>2. ti.t - SnapTime < SaveTimeStep
      <4>1. lastSaved <= SnapTime
        BY <1>2
      <4> HIDE DEF Bounded
      <4>2. QED
        BY <1>4, <1>5, <2>2, <4>1
    <3>3. ~Starting'
      BY <3>1 DEF Starting
    <3>4. QED
      BY <1>2, <1>6, <3>1, <3>2, <3>3
  <2>3. QED
    BY <2>1, <2>2
<1>11. CASE NewProcess /\ UNCHANGED snap /\ ti'.t = SnapTime
  <2>1. lastSaved' = StartTime /\ pc' = "output initial"
    BY <1>11 DEF NewProcess
  <2>2. QED
    BY <1>5, <1>6, <1>11, <2>1
<1>12. CASE RestartFresh
  BY <1>11, <1>12, InitialFacts DEF RestartFresh, SnapTime
<1>13. CASE RestartLoad
  <2>1. ti'.t = SnapTime
    BY <1>3, <1>13, LoadedFacts DEF RestartLoad, SnapTime
  <2>2. QED
    BY <1>11, <1>13, <2>1 DEF RestartLoad
<1>14. CASE Advance \/ Solve \/ Finish \/ Crash
  <2>1. /\ UNCHANGED <<lastSaved, snap>>
        /\ pc' \in {"solve", "output", "done", "down"}
    BY <1>14 DEF Advance, Solve, Finish, Crash
  <2>2. ~Starting'
    BY <2>1 DEF Starting
  <2>3. QED
    BY <1>2, <1>6, <2>1, <2>2
<1>15. CASE UNCHANGED vars
  BY <1>2, <1>6, <1>15 DEF vars, Starting
<1>16. QED
  BY <1>8, <1>9, <1>10, <1>12, <1>13, <1>14, <1>15 DEF Next

(* A killed job loses less than one save interval of simulated time.       *)
THEOREM LossStaysBounded == Spec => []LossBounded
<1>1. ASSUME Init PROVE SavedLate
  <2>1. ti = InitialTimeIterator /\ pc = "output initial" /\ snap = NoSnapshot
    BY <1>1 DEF Init
  <2>2. SnapTime = StartTime /\ ti.t = StartTime
    BY <2>1, InitialFacts DEF SnapTime
  <2>3. LossBounded
    BY <2>1 DEF LossBounded
  <2>4. lastSaved <= SnapTime
    <3>1. lastSaved = SnapTime
      BY <1>1, <2>2 DEF Init
    <3>2. SnapTime \in Nat
      BY <2>2
    <3>3. QED
      BY <3>1, <3>2
  <2>5. QED
    BY <2>2, <2>3, <2>4 DEF SavedLate
<1>2. Spec => [](TypeInv /\ SavedLate)
  BY <1>1, TypeInit, TypeStep, SavedLateStep, PTL DEF Spec
<1>3. SavedLate => LossBounded
  BY DEF SavedLate
<1>4. QED
  BY <1>2, <1>3, PTL

-----------------------------------------------------------------------------
(* A record or a clock a that is not ahead of the clock b, and the same    *)
(* step exactly when it is the same time.                                  *)
Behind(a, b) == a.n <= b.n /\ a.t <= b.t /\ (a.n = b.n <=> a.t = b.t)

LEMMA BehindTransitive ==
  ASSUME NEW a, NEW b, NEW c,
         {a.n, a.t, b.n, b.t, c.n, c.t} \subseteq Nat,
         Behind(a, b), Behind(b, c)
  PROVE Behind(a, c)
<1>1. /\ a.n \in Nat /\ a.t \in Nat /\ b.n \in Nat /\ b.t \in Nat
      /\ c.n \in Nat /\ c.t \in Nat
  OBVIOUS
<1>2. QED
  BY <1>1 DEF Behind

(* Records that the step of the clock it can be appended to.               *)
Recordable(l, it) == Ordered(l) /\ \A i \in 1 .. Len(l) : Behind(l[i], it)

LEMMA RecordTypes ==
  ASSUME NEW l \in Records
  PROVE /\ Len(l) \in Nat
        /\ \A i \in 1 .. Len(l) :
             l[i] \in Record /\ l[i].n \in Steps /\ l[i].n \in Nat /\ l[i].t \in Nat
<1>1. l \in Seq(Record)
  BY DEF Records, Record
<1>2. ASSUME NEW r \in Record PROVE r.n \in Steps /\ r.n \in Nat /\ r.t \in Nat
  BY DEF Record, Steps, Times
<1> HIDE DEF Record
<1>3. QED
  BY <1>1, <1>2

LEMMA ClockTypes ==
  ASSUME NEW it \in TimeIterators
  PROVE it.n \in Steps /\ it.n \in Nat /\ it.t \in Times /\ it.t \in Nat
BY DEF TimeIterators, Steps, Times

(* The step is recorded last, and every earlier record stays.              *)
LEMMA RecordedFacts ==
  ASSUME ti \in TimeIterators, NEW l \in Records, Recordable(l, ti)
  PROVE LET r == Recorded(l) IN
        /\ r \in Records
        /\ r # <<>>
        /\ r[Len(r)].t = ti.t /\ r[Len(r)].n = ti.n
        /\ Recordable(r, ti)
        /\ \A i \in 1 .. Len(l) : \E j \in 1 .. Len(r) : r[j] = l[i]
        /\ \A j \in 1 .. Len(r) :
             (r[j].n = ti.n /\ r[j].t = ti.t) \/ \E i \in 1 .. Len(l) : r[j] = l[i]
<1> DEFINE new == [t |-> ti.t, n |-> ti.n]
           last == l[Len(l)]
<1>1. /\ Len(l) \in Nat
      /\ \A i \in 1 .. Len(l) : l[i] \in Record /\ l[i].n \in Nat /\ l[i].t \in Nat
  BY RecordTypes
<1>2. l \in Seq(Record) /\ (l # <<>> => Len(l) \in 1 .. Len(l))
  <2>1. l \in Seq(Record)
    BY DEF Records, Record
  <2>2. QED
    BY <2>1
<1>3. /\ Ordered(l)
      /\ \A i \in 1 .. Len(l) : /\ l[i].n <= ti.n /\ l[i].t <= ti.t
                                /\ (l[i].n = ti.n <=> l[i].t = ti.t)
  BY DEF Recordable, Behind
<1>4. ti.n \in Steps /\ ti.n \in Nat /\ ti.t \in Times /\ ti.t \in Nat
  BY ClockTypes
<1>5. CASE l # <<>> /\ (last.t = ti.t \/ last.n = ti.n)
  <2>1. Recorded(l) = l
    BY <1>5 DEF Recorded
  <2>2. last.t = ti.t /\ last.n = ti.n
    BY <1>2, <1>3, <1>5
  <2>3. QED
    BY <1>5, <2>1, <2>2
<1>6. CASE ~(l # <<>> /\ (last.t = ti.t \/ last.n = ti.n))
  <2> DEFINE r == Append(l, new)
  <2>1. Recorded(l) = r
    BY <1>6 DEF Recorded
  <2>2. new \in Record /\ new.n = ti.n /\ new.t = ti.t
    BY <1>4 DEF Record
  <2> HIDE DEF new
  <2>3. /\ r \in Seq(Record) /\ Len(r) = Len(l) + 1 /\ r[Len(l) + 1] = new
        /\ \A i \in 1 .. Len(l) : r[i] = l[i]
    BY <1>2, <2>2
  <2>4. /\ \A j \in 1 .. Len(r) : j \in 1 .. Len(l) \/ j = Len(l) + 1
        /\ \A j \in 1 .. Len(l) : j \in 1 .. Len(r)
        /\ Len(r) \in 1 .. Len(r)
    BY <1>1, <2>3
  <2> HIDE DEF r
  <2>5. ASSUME NEW i \in 1 .. Len(l) PROVE l[i].n < ti.n /\ l[i].t < ti.t
    <3>1. l # <<>> /\ Len(l) \in 1 .. Len(l)
      BY <1>1, <1>2
    <3>2. last.n < ti.n /\ last.t < ti.t
      BY <1>1, <1>3, <1>4, <1>6, <3>1
    <3>3. i = Len(l) \/ i < Len(l)
      BY <1>1
    <3>4. CASE i < Len(l)
      <4>1. l[i].n < last.n /\ l[i].t < last.t
        BY <1>3, <3>1, <3>4 DEF Ordered
      <4> HIDE DEF last
      <4>2. last.n \in Nat /\ last.t \in Nat
        BY <1>1, <3>1 DEF last
      <4>3. l[i].n \in Nat /\ l[i].t \in Nat
        BY <1>1
      <4>4. QED
        BY <1>4, <3>2, <4>1, <4>2, <4>3
    <3>5. QED
      BY <3>2, <3>3, <3>4
  <2>6. Ordered(r)
    <3> SUFFICES ASSUME NEW a \in 1 .. Len(r), NEW b \in 1 .. Len(r), a < b
                 PROVE r[a].n < r[b].n /\ r[a].t < r[b].t
      BY DEF Ordered
    <3>1. a \in 1 .. Len(l)
      BY <1>1, <2>3
    <3>2. CASE b \in 1 .. Len(l)
      BY <1>3, <2>3, <3>1, <3>2 DEF Ordered
    <3>3. CASE b = Len(l) + 1
      BY <2>2, <2>3, <2>5, <3>1, <3>3
    <3>4. QED
      BY <2>4, <3>2, <3>3
  <2>7. ASSUME NEW j \in 1 .. Len(r)
        PROVE /\ Behind(r[j], ti)
              /\ (r[j].n = ti.n /\ r[j].t = ti.t) \/ \E i \in 1 .. Len(l) : r[j] = l[i]
    <3>1. CASE j \in 1 .. Len(l)
      BY <1>3, <2>3, <3>1 DEF Behind
    <3>2. CASE j = Len(l) + 1
      BY <1>4, <2>2, <2>3, <3>2 DEF Behind
    <3>3. QED
      BY <2>4, <3>1, <3>2
  <2>8. r # <<>>
    BY <1>1, <2>3
  <2>9. r \in Records
    BY <2>3 DEF Records, Record
  <2>10. QED
    BY <1>1, <2>1, <2>2, <2>3, <2>4, <2>6, <2>7, <2>8, <2>9 DEF Recordable
<1>7. QED
  BY <1>5, <1>6

(* is_output_timestep() for step n at time t after an output at last.      *)
Due(n, t, last) == n = 0 \/ t - last >= WriteTimeStep \/ n % WriteFrequency = 0

(* The files that the records name hold what they say, where they exist,   *)
(* except that those of the steps in cut may be cut short.                 *)
Truthful(l, dir, cut) ==
  \A i \in 1 .. Len(l) : \/ dir[l[i].n] \in {NoFile, l[i].t}
                         \/ l[i].n \in cut /\ dir[l[i].n] = CutFile

Exact(l, dir) == \A i \in 1 .. Len(l) : dir[l[i].n] = l[i].t

LEMMA CleanExact ==
  ASSUME NEW l \in Records, NEW dir, NEW it, Recordable(l, it), Truthful(l, dir, {})
  PROVE Recordable(CleanPvd(l, dir), it) /\ Exact(CleanPvd(l, dir), dir)
<1> DEFINE c == CleanPvd(l, dir)
<1>1. /\ \A i \in 1 .. Len(c) : \E j \in 1 .. Len(l) : c[i] = l[j] /\ dir[l[j].n] # NoFile
      /\ Ordered(l) => Ordered(c)
  BY CleanFacts DEF Cleaned
<1> HIDE DEF c
<1>2. ASSUME NEW i \in 1 .. Len(c)
      PROVE Behind(c[i], it) /\ dir[c[i].n] = c[i].t
  <2>1. PICK j \in 1 .. Len(l) : c[i] = l[j] /\ dir[l[j].n] # NoFile
    BY <1>1
  <2>2. Behind(l[j], it) /\ dir[l[j].n] \in {NoFile, l[j].t}
    BY DEF Recordable, Truthful
  <2>3. QED
    BY <2>1, <2>2
<1>3. Recordable(c, it) /\ Exact(c, dir)
  BY <1>1, <1>2 DEF Recordable, Exact
<1>4. QED
  BY <1>3 DEF c

(* Opening the file of the clock's step, which cuts it.                    *)
LEMMA TruthfulAfterOpen ==
  ASSUME TypeOK, vtu' = [vtu EXCEPT ![ti.n] = CutFile],
         NEW l \in Records, NEW cut, Truthful(l, vtu, cut),
         ti.n \in cut \/ \A i \in 1 .. Len(l) : l[i].n # ti.n
  PROVE Truthful(l, vtu', cut)
<1> SUFFICES ASSUME NEW i \in 1 .. Len(l)
             PROVE \/ vtu'[l[i].n] \in {NoFile, l[i].t}
                   \/ l[i].n \in cut /\ vtu'[l[i].n] = CutFile
  BY DEF Truthful
<1>1. l[i].n \in Steps /\ vtu \in Files
  BY RecordTypes DEF TypeOK, Files
<1>2. vtu'[l[i].n] = IF l[i].n = ti.n THEN CutFile ELSE vtu[l[i].n]
  BY <1>1 DEF Files
<1>3. \/ vtu[l[i].n] \in {NoFile, l[i].t}
      \/ l[i].n \in cut /\ vtu[l[i].n] = CutFile
  BY DEF Truthful
<1>4. QED
  BY <1>2, <1>3

(* Writing it spoils no record that is not ahead of the clock.             *)
LEMMA TruthfulAfterWrite ==
  ASSUME TypeOK, vtu' = [vtu EXCEPT ![ti.n] = ti.t],
         NEW l \in Records, Recordable(l, ti), NEW cut, NEW after, cut \ {ti.n} \subseteq after,
         Truthful(l, vtu, cut)
  PROVE Truthful(l, vtu', after)
<1> SUFFICES ASSUME NEW i \in 1 .. Len(l)
             PROVE \/ vtu'[l[i].n] \in {NoFile, l[i].t}
                   \/ l[i].n \in after /\ vtu'[l[i].n] = CutFile
  BY DEF Truthful
<1>1. l[i].n \in Steps /\ vtu \in Files
  BY RecordTypes DEF TypeOK, Files
<1>2. vtu'[l[i].n] = IF l[i].n = ti.n THEN ti.t ELSE vtu[l[i].n]
  BY <1>1 DEF Files
<1>3. /\ \/ vtu[l[i].n] \in {NoFile, l[i].t}
         \/ l[i].n \in cut /\ vtu[l[i].n] = CutFile
      /\ l[i].n = ti.n => l[i].t = ti.t
  BY DEF Truthful, Recordable, Behind
<1>4. QED
  BY <1>2, <1>3

(* The recorded step is written under its time.                            *)
LEMMA RecordedTruthful ==
  ASSUME TypeOK, vtu[ti.n] = ti.t,
         NEW l \in Records, Recordable(l, ti), Truthful(l, vtu, {})
  PROVE Truthful(Recorded(l), vtu, {})
<1> DEFINE r == Recorded(l)
<1>1. ti \in TimeIterators
  BY DEF TypeOK
<1>2. \A j \in 1 .. Len(r) :
        (r[j].n = ti.n /\ r[j].t = ti.t) \/ \E i \in 1 .. Len(l) : r[j] = l[i]
  BY <1>1, RecordedFacts
<1> HIDE DEF r
<1>3. ASSUME NEW j \in 1 .. Len(r) PROVE vtu[r[j].n] \in {NoFile, r[j].t}
  BY <1>2 DEF Truthful
<1>4. QED
  BY <1>3 DEF Truthful, r

(* The file of the step that was archived may have been cut by a job that  *)
(* continued from it, if that had to write it again; then every job that   *)
(* continues from it has to.                                               *)
SnapCut == IF Due(snap.ti.n, snap.ti.t, snap.lastOut) THEN {snap.ti.n} ELSE {}

(* The same of the records of a process.                                   *)
MayCut == IF pc = "vtu" \/ (pc = "output initial" /\ IsOutputTimestep) THEN {ti.n} ELSE {}

SnapTruth ==
  snap # NoSnapshot =>
    /\ Behind(snap.ti, ti)
    /\ Recordable(snap.list, snap.ti)
    /\ Truthful(snap.list, vtu, SnapCut)
    /\ pc = "output initial" =>
         ti.n = snap.ti.n /\ ti.t = snap.ti.t /\ lastOut = snap.lastOut
    /\ pc \in {"solve", "output"} => snap.ti.n < ti.n

ListTruth ==
  pc # "down" =>
    /\ Recordable(list, ti) /\ Truthful(list, vtu, MayCut)
    /\ Recordable(others, ti) /\ Truthful(others, vtu, MayCut)

PvdTruth ==
  /\ Ordered(pvd)
  /\ \A i \in 1 .. Len(pvd) : pvd[i].n \notin torn => vtu[pvd[i].n] = pvd[i].t

(* How far the output under way has come.                                  *)
StageTruth ==
  /\ pc \in {"vtu", "pvd", "close"} => ti.n \in torn
  /\ pc \in {"pvd", "close"} => vtu[ti.n] = ti.t
  /\ pc = "close" => Exact(list, vtu)

(* Whatever is recorded, by rank 0, by the other ranks or in the restart   *)
(* data, tells the truth about the files, and a clock that goes on from    *)
(* its restart data can write only records that are not older.             *)
Truth == SnapTruth /\ ListTruth /\ PvdTruth /\ StageTruth

LEMMA SnapTypes ==
  ASSUME TypeOK, snap # NoSnapshot
  PROVE /\ snap \in Saved
        /\ snap.ti.n \in Steps /\ snap.ti.n \in Nat /\ snap.ti.n >= 1
        /\ snap.ti.t \in Nat
        /\ snap.list \in Records
        /\ snap.lastOut \in Times /\ snap.lastOut \in Nat
<1>1. snap \in Saved
  BY DEF TypeOK
<1>2. QED
  BY <1>1 DEF Saved, Times, Steps

LEMMA SnapRecordable ==
  ASSUME TypeOK, SnapTruth, snap # NoSnapshot
  PROVE snap.list \in Records /\ Recordable(snap.list, ti)
<1>1. ti \in TimeIterators
  BY DEF TypeOK
<1>2. /\ snap.list \in Records
      /\ snap.ti.n \in Nat /\ snap.ti.t \in Nat /\ ti.n \in Nat /\ ti.t \in Nat
  BY <1>1, ClockTypes, SnapTypes
<1>3. Recordable(snap.list, snap.ti) /\ Behind(snap.ti, ti)
  BY DEF SnapTruth
<1>4. ASSUME NEW i \in 1 .. Len(snap.list) PROVE Behind(snap.list[i], ti)
  <2>1. Behind(snap.list[i], snap.ti)
    BY <1>3 DEF Recordable
  <2>2. snap.list[i].n \in Nat /\ snap.list[i].t \in Nat
    BY <1>2, RecordTypes
  <2>3. QED
    BY <1>2, <1>3, <2>1, <2>2 DEF Behind
<1>5. QED
  BY <1>2, <1>3, <1>4 DEF Recordable

LEMMA NotReached ==
  ASSUME NEW a \in Nat, NEW b \in Nat, NEW c \in Nat, a <= b, b < c
  PROVE a # c
OBVIOUS

(* An output begins, or is not due.                                        *)
LEMMA ProcessTruth ==
  ASSUME TypeOK, Truth, NEW force \in BOOLEAN, NEW next \in {"loop", "save", "down"},
         Process(force, next), UNCHANGED <<ti, snap>>,
         (pc = "output initial" /\ ~force) \/ pc \in {"solve", "output"}
  PROVE Truth'
<1>1. ti \in TimeIterators /\ list \in Records /\ others \in Records /\ vtu \in Files
  BY DEF TypeOK, Files
<1>2. ti.n \in Steps /\ ti.n \in Nat
  BY <1>1, ClockTypes
<1>3. ti' = ti /\ snap' = snap
  OBVIOUS
<1>4. CASE IsOutputTimestep \/ force
  <2>1. /\ vtu' = [vtu EXCEPT ![ti.n] = CutFile]
        /\ torn' = torn \cup {ti.n}
        /\ pc' = "vtu"
        /\ UNCHANGED <<list, others, lastOut, pvd, since>>
    BY <1>4 DEF Process
  <2>2. ASSUME NEW l \in Records, Truthful(l, vtu, MayCut)
        PROVE Truthful(l, vtu', MayCut')
    <3>1. Truthful(l, vtu, {ti.n})
      BY <2>2 DEF MayCut, Truthful
    <3>2. MayCut' = {ti.n}
      BY <1>3, <2>1 DEF MayCut
    <3>3. QED
      BY <2>1, <3>1, <3>2, TruthfulAfterOpen
  <2>3. ListTruth'
    BY <1>1, <1>3, <2>1, <2>2 DEF Truth, ListTruth
  <2>4. PvdTruth'
    <3>1. ASSUME NEW i \in 1 .. Len(pvd), pvd[i].n \notin torn'
          PROVE vtu'[pvd[i].n] = pvd[i].t
      <4>1. pvd[i].n # ti.n /\ pvd[i].n \notin torn /\ pvd[i].n \in Steps
        BY <2>1, <3>1, RecordTypes DEF TypeOK
      <4>2. vtu'[pvd[i].n] = vtu[pvd[i].n]
        BY <1>1, <2>1, <4>1 DEF Files
      <4>3. QED
        BY <4>1, <4>2 DEF Truth, PvdTruth
    <3>2. QED
      BY <2>1, <3>1 DEF Truth, PvdTruth
  <2>5. StageTruth'
    BY <1>3, <2>1 DEF StageTruth
  <2>6. SnapTruth'
    <3> SUFFICES ASSUME snap # NoSnapshot PROVE SnapTruth'
      BY <1>3 DEF SnapTruth
    <3>1. SnapCut' = SnapCut
      BY <1>3 DEF SnapCut
    <3>2. /\ Behind(snap.ti, ti) /\ Recordable(snap.list, snap.ti)
          /\ Truthful(snap.list, vtu, SnapCut)
      BY DEF Truth, SnapTruth
    <3>3. snap.list \in Records /\ snap.ti.n \in Nat
      BY SnapTypes
    <3>4. ti.n \in SnapCut \/ \A i \in 1 .. Len(snap.list) : snap.list[i].n # ti.n
      <4>1. CASE pc = "output initial"
        <5>1. ti.n = snap.ti.n /\ ti.t = snap.ti.t /\ lastOut = snap.lastOut
          BY <4>1 DEF Truth, SnapTruth
        <5>2. Due(ti.n, ti.t, lastOut)
          BY <1>4, <4>1 DEF IsOutputTimestep, Due
        <5>3. QED
          BY <5>1, <5>2 DEF SnapCut
      <4>2. CASE pc \in {"solve", "output"}
        <5>1. snap.ti.n < ti.n
          BY <4>2 DEF Truth, SnapTruth
        <5>2. ASSUME NEW i \in 1 .. Len(snap.list) PROVE snap.list[i].n # ti.n
          <6>1. snap.list[i].n <= snap.ti.n
            BY <3>2 DEF Recordable, Behind
          <6>2. snap.list[i].n \in Nat
            BY <3>3, RecordTypes
          <6>3. ti.n \in Nat /\ snap.ti.n \in Nat
            BY <1>2, <3>3
          <6>4. QED
            BY <5>1, <6>1, <6>2, <6>3, NotReached
        <5>3. QED
          BY <5>2
      <4>3. QED
        BY <4>1, <4>2
    <3>5. Truthful(snap.list, vtu', SnapCut)
      BY <2>1, <3>2, <3>3, <3>4, TruthfulAfterOpen
    <3>6. pc' \notin {"output initial", "solve", "output"}
      BY <2>1
    <3>7. QED
      BY <1>3, <3>1, <3>2, <3>5, <3>6 DEF SnapTruth
  <2>7. QED
    BY <2>3, <2>4, <2>5, <2>6 DEF Truth
<1>5. CASE ~(IsOutputTimestep \/ force)
  <2>1. UNCHANGED <<list, others, lastOut, vtu, pvd, since, torn>> /\ pc' = next
    BY <1>5 DEF Process, output
  <2>2. pc' \in {"loop", "save", "down"}
    BY <2>1
  <2>3. MayCut = {} /\ MayCut' = {}
    BY <1>5, <2>2 DEF MayCut
  <2>4. SnapCut' = SnapCut
    BY <1>3 DEF SnapCut
  <2>5. SnapTruth'
    BY <1>3, <2>1, <2>2, <2>4 DEF Truth, SnapTruth
  <2>6. ListTruth'
    BY <1>3, <2>1, <2>3 DEF Truth, ListTruth
  <2>7. PvdTruth' /\ StageTruth'
    BY <2>1, <2>2 DEF Truth, PvdTruth, StageTruth
  <2>8. QED
    BY <2>5, <2>6, <2>7 DEF Truth
<1>6. QED
  BY <1>4, <1>5

LEMMA WriteVtuTruth ==
  ASSUME TypeOK, Truth, WriteVtu
  PROVE Truth'
<1>1. /\ pc = "vtu" /\ pc' = "pvd"
      /\ vtu' = [vtu EXCEPT ![ti.n] = ti.t]
      /\ UNCHANGED <<ti, list, others, lastOut, pvd, snap, torn>>
  BY DEF WriteVtu
<1>2. /\ ti \in TimeIterators /\ list \in Records /\ others \in Records /\ pvd \in Records
      /\ vtu \in Files
  BY DEF TypeOK, Files
<1>3. ti.n \in Steps /\ vtu'[ti.n] = ti.t
  BY <1>1, <1>2, ClockTypes DEF Files
<1>4. ListTruth'
  <2>1. MayCut = {ti.n} /\ MayCut' = {}
    BY <1>1 DEF MayCut
  <2>2. ASSUME NEW l \in Records, Recordable(l, ti), Truthful(l, vtu, MayCut)
        PROVE Truthful(l, vtu', MayCut')
    BY <1>1, <2>1, <2>2, TruthfulAfterWrite
  <2>3. QED
    BY <1>1, <1>2, <2>2 DEF Truth, ListTruth
<1>5. SnapTruth'
  <2> SUFFICES ASSUME snap # NoSnapshot PROVE SnapTruth'
    BY <1>1 DEF SnapTruth
  <2>1. SnapCut' = SnapCut
    BY <1>1 DEF SnapCut
  <2>2. snap.list \in Records /\ Recordable(snap.list, ti) /\ Truthful(snap.list, vtu, SnapCut)
    BY SnapRecordable DEF Truth, SnapTruth
  <2>3. Truthful(snap.list, vtu', SnapCut)
    BY <1>1, <2>2, TruthfulAfterWrite
  <2>4. QED
    BY <1>1, <2>1, <2>3 DEF Truth, SnapTruth
<1>6. PvdTruth'
  <2>1. ASSUME NEW i \in 1 .. Len(pvd), pvd[i].n \notin torn
        PROVE vtu'[pvd[i].n] = pvd[i].t
    <3>1. pvd[i].n # ti.n /\ pvd[i].n \in Steps
      BY <1>1, <1>2, <2>1, RecordTypes DEF Truth, StageTruth
    <3>2. vtu'[pvd[i].n] = vtu[pvd[i].n]
      BY <1>1, <1>2, <3>1 DEF Files
    <3>3. QED
      BY <2>1, <3>2 DEF Truth, PvdTruth
  <2>2. QED
    BY <1>1, <2>1 DEF Truth, PvdTruth
<1>7. StageTruth'
  BY <1>1, <1>3 DEF Truth, StageTruth
<1>8. QED
  BY <1>4, <1>5, <1>6, <1>7 DEF Truth

(* The records of both kinds of ranks after an output.                     *)
LEMMA WritePvdFacts ==
  ASSUME TypeOK, ListTruth, StageTruth, WritePvd
  PROVE /\ list' \in Records /\ others' \in Records
        /\ Recordable(list', ti) /\ Exact(list', vtu)
        /\ Recordable(others', ti) /\ Truthful(others', vtu, {})
<1>1. /\ pc = "pvd"
      /\ list' = CleanPvd(Recorded(list), vtu) /\ others' = Recorded(others)
  BY DEF WritePvd
<1>2. ti \in TimeIterators /\ list \in Records /\ others \in Records
  BY DEF TypeOK
<1>3. /\ Recordable(list, ti) /\ Truthful(list, vtu, {})
      /\ Recordable(others, ti) /\ Truthful(others, vtu, {})
  BY <1>1 DEF ListTruth, MayCut
<1>4. /\ Recorded(list) \in Records /\ Recordable(Recorded(list), ti)
      /\ Recorded(others) \in Records /\ Recordable(Recorded(others), ti)
  BY <1>2, <1>3, RecordedFacts
<1>5. vtu[ti.n] = ti.t
  BY <1>1 DEF StageTruth
<1>6. Truthful(Recorded(list), vtu, {}) /\ Truthful(Recorded(others), vtu, {})
  BY <1>2, <1>3, <1>5, RecordedTruthful
<1>7. CleanPvd(Recorded(list), vtu) \in Records
  BY <1>4, CleanType
<1>8. Recordable(CleanPvd(Recorded(list), vtu), ti) /\ Exact(CleanPvd(Recorded(list), vtu), vtu)
  BY <1>4, <1>6, CleanExact
<1>9. QED
  BY <1>1, <1>4, <1>6, <1>7, <1>8

LEMMA WritePvdTruth ==
  ASSUME TypeOK, Truth, WritePvd
  PROVE Truth'
<1>1. /\ pc = "pvd" /\ pc' = "close"
      /\ UNCHANGED <<ti, lastOut, vtu, snap, torn>>
  BY DEF WritePvd
<1>2. /\ list' \in Records /\ others' \in Records
      /\ Recordable(list', ti) /\ Exact(list', vtu)
      /\ Recordable(others', ti) /\ Truthful(others', vtu, {})
  BY WritePvdFacts DEF Truth
<1>3. ListTruth'
  <2>1. MayCut' = {}
    BY <1>1 DEF MayCut
  <2>2. Truthful(list', vtu, {})
    BY <1>2 DEF Exact, Truthful
  <2>3. QED
    BY <1>1, <1>2, <2>1, <2>2 DEF ListTruth
<1>4. PvdTruth'
  <2>1. PICK k \in 0 .. Len(list') : pvd' = SubSeq(list', 1, k)
    BY DEF WritePvd
  <2>2. /\ Len(pvd') = k
        /\ \A i \in 1 .. k : pvd'[i] = list'[i] /\ i \in 1 .. Len(list')
        /\ Ordered(pvd')
    BY <1>2, <2>1, PartFacts DEF Recordable
  <2>3. \A i \in 1 .. Len(pvd') : vtu'[pvd'[i].n] = pvd'[i].t
    BY <1>1, <1>2, <2>2 DEF Exact
  <2>4. QED
    BY <2>2, <2>3 DEF PvdTruth
<1>5. SnapTruth'
  <2>1. SnapCut' = SnapCut
    BY <1>1 DEF SnapCut
  <2>2. QED
    BY <1>1, <2>1 DEF Truth, SnapTruth
<1>6. StageTruth'
  BY <1>1, <1>2 DEF Truth, StageTruth
<1>7. QED
  BY <1>3, <1>4, <1>5, <1>6 DEF Truth

LEMMA ClosePvdTruth ==
  ASSUME TypeOK, Truth, ClosePvd
  PROVE Truth'
<1>1. /\ pc = "close" /\ pc' \in {"loop", "save", "down"}
      /\ pvd' = list
      /\ UNCHANGED <<ti, list, others, vtu, snap>>
  BY DEF ClosePvd, TypeOK
<1>2. ListTruth'
  <2>1. MayCut = {} /\ MayCut' = {}
    BY <1>1 DEF MayCut
  <2>2. QED
    BY <1>1, <2>1 DEF Truth, ListTruth
<1>3. PvdTruth'
  BY <1>1 DEF Truth, StageTruth, ListTruth, PvdTruth, Exact, Recordable
<1>4. SnapTruth'
  <2>1. SnapCut' = SnapCut
    BY <1>1 DEF SnapCut
  <2>2. QED
    BY <1>1, <2>1 DEF Truth, SnapTruth
<1>5. StageTruth'
  BY <1>1 DEF StageTruth
<1>6. QED
  BY <1>2, <1>3, <1>4, <1>5 DEF Truth

LEMMA NoRecords ==
  /\ \A i \in 1 .. Len(<<>>) : FALSE
  /\ Ordered(<<>>)
  /\ \A it : Recordable(<<>>, it)
  /\ \A dir, cut : Truthful(<<>>, dir, cut)
BY DEF Ordered, Recordable, Truthful

LEMMA TruthStep == TypeInv /\ Truth /\ [Next]_vars => Truth'
<1> SUFFICES ASSUME TypeInv, Truth, [Next]_vars PROVE Truth'
  OBVIOUS
<1>1. TypeOK /\ ti \in TimeIterators
  BY DEF TypeInv, TypeOK
<1>2. CASE OutputInitial
  <2>1. /\ Process(FALSE, "loop") /\ FALSE \in BOOLEAN
        /\ UNCHANGED <<ti, snap>> /\ pc = "output initial"
    BY <1>2 DEF OutputInitial
  <2>2. QED
    BY <1>1, <2>1, ProcessTruth
<1>3. CASE SolveFails
  <2>1. /\ Process(TRUE, "down") /\ TRUE \in BOOLEAN
        /\ UNCHANGED <<ti, snap>> /\ pc \in {"solve", "output"}
    BY <1>3 DEF SolveFails
  <2>2. QED
    BY <1>1, <2>1, ProcessTruth
<1>4. CASE Output
  <2>1. /\ Process(FALSE, "save") /\ FALSE \in BOOLEAN
        /\ UNCHANGED <<ti, snap>> /\ pc \in {"solve", "output"}
    BY <1>4 DEF Output
  <2>2. QED
    BY <1>1, <2>1, ProcessTruth
<1>5. CASE WriteVtu
  BY <1>1, <1>5, WriteVtuTruth
<1>6. CASE WritePvd
  BY <1>1, <1>6, WritePvdTruth
<1>7. CASE ClosePvd
  BY <1>1, <1>7, ClosePvdTruth
<1>8. ASSUME UNCHANGED <<lastOut, list, others, vtu, pvd, snap, torn>>,
             pc' \notin {"output initial", "vtu", "pvd", "close"}
      PROVE /\ MayCut' = {} /\ SnapCut' = SnapCut
            /\ PvdTruth' /\ StageTruth'
  BY <1>8 DEF MayCut, SnapCut, Truth, PvdTruth, StageTruth
<1>9. CASE Advance
  <2>1. /\ UNCHANGED <<lastOut, list, others, vtu, pvd, snap, torn>>
        /\ pc = "loop" /\ pc' = "solve"
    BY <1>9 DEF Advance, output
  <2>2. ti' \in TimeIterators /\ ti'.n = ti.n + 1 /\ ti'.t = ti.t + ti'.dt /\ ti'.dt > 0
    BY <1>1, <1>9, AdvanceFacts DEF TypeInv, Forward
  <2>3. ti.n \in Nat /\ ti.t \in Nat /\ ti'.dt \in Nat
    BY <1>1, <2>2, ClockTypes DEF TimeIterators
  <2>4. ASSUME NEW a, a.n \in Nat, a.t \in Nat, Behind(a, ti) PROVE Behind(a, ti')
    BY <2>2, <2>3, <2>4 DEF Behind
  <2>5. ASSUME NEW l \in Records, Recordable(l, ti) PROVE Recordable(l, ti')
    BY <2>4, <2>5, RecordTypes DEF Recordable
  <2>6. MayCut = {}
    BY <2>1 DEF MayCut
  <2>7. MayCut' = {} /\ SnapCut' = SnapCut /\ PvdTruth' /\ StageTruth'
    BY <1>8, <2>1
  <2>8. ListTruth'
    BY <1>1, <2>1, <2>5, <2>6, <2>7 DEF Truth, ListTruth, TypeOK
  <2>9. ASSUME snap # NoSnapshot PROVE Behind(snap.ti, ti') /\ snap.ti.n < ti'.n
    <3>1. snap.ti.n \in Nat /\ snap.ti.t \in Nat
      BY <1>1, <2>9, SnapTypes
    <3>2. Behind(snap.ti, ti)
      BY <2>9 DEF Truth, SnapTruth
    <3>3. snap.ti.n <= ti.n
      BY <3>2 DEF Behind
    <3>4. QED
      BY <2>2, <2>3, <2>4, <3>1, <3>2, <3>3
  <2>10. SnapTruth'
    BY <2>1, <2>7, <2>9 DEF Truth, SnapTruth
  <2>11. QED
    BY <2>7, <2>8, <2>10 DEF Truth
<1>10. CASE Solve \/ Finish \/ Crash
  <2>1. /\ UNCHANGED <<ti, lastOut, list, others, vtu, pvd, snap, torn>>
        /\ \/ pc = "solve" /\ pc' = "output"
           \/ pc = "loop" /\ pc' = "done"
           \/ pc' = "down"
    BY <1>10 DEF Solve, Finish, Crash, output
  <2>2. MayCut' = {} /\ SnapCut' = SnapCut /\ PvdTruth' /\ StageTruth'
    BY <1>8, <2>1
  <2>3. pc' # "down" => MayCut = {}
    BY <2>1 DEF MayCut
  <2>4. ListTruth' /\ SnapTruth'
    BY <2>1, <2>2, <2>3 DEF Truth, ListTruth, SnapTruth
  <2>5. QED
    BY <2>2, <2>4 DEF Truth
<1>11. CASE Save
  <2>1. UNCHANGED <<ti, lastOut, list, others, vtu, pvd, torn>> /\ pc = "save" /\ pc' = "loop"
    BY <1>11 DEF Save, output
  <2>2. MayCut = {} /\ MayCut' = {}
    BY <2>1 DEF MayCut
  <2>3. ListTruth' /\ PvdTruth' /\ StageTruth'
    BY <2>1, <2>2 DEF Truth, ListTruth, PvdTruth, StageTruth
  <2>4. CASE snap' \in Snapshots
    <3>1. snap'.ti.n = ti.n /\ snap'.ti.t = ti.t /\ snap'.list \in {list, others}
      BY <2>4 DEF Snapshots, Archived
    <3>2. Behind(snap'.ti, ti')
      BY <1>1, <2>1, <3>1, ClockTypes DEF Behind
    <3>3. \A a : Behind(a, snap'.ti) <=> Behind(a, ti)
      BY <3>1 DEF Behind
    <3>4. Recordable(snap'.list, snap'.ti)
      BY <2>1, <3>1, <3>3 DEF Truth, ListTruth, Recordable
    <3>5. Truthful(snap'.list, vtu', SnapCut')
      BY <2>1, <2>2, <3>1 DEF Truth, ListTruth, Truthful
    <3>6. SnapTruth'
      BY <2>1, <3>2, <3>4, <3>5 DEF SnapTruth
    <3>7. QED
      BY <2>3, <3>6 DEF Truth
  <2>5. CASE snap' = snap
    <3>1. SnapCut' = SnapCut
      BY <2>1, <2>5 DEF SnapCut
    <3>2. SnapTruth'
      BY <2>1, <2>5, <3>1 DEF Truth, SnapTruth
    <3>3. QED
      BY <2>3, <3>2 DEF Truth
  <2>6. QED
    BY <1>11, <2>4, <2>5 DEF Save
<1>12. ASSUME NEW first, Directory(first)
       PROVE /\ \A l \in Records : \A cut : Truthful(l, vtu, cut) => Truthful(l, vtu', cut)
             /\ PvdTruth'
  <2>1. CASE UNCHANGED <<vtu, pvd, since, torn>>
    BY <2>1 DEF Truth, PvdTruth
  <2>2. CASE vtu' = [n \in Steps |-> NoFile] /\ pvd' = <<>>
    BY <2>2, RecordTypes DEF Truthful, Ordered, PvdTruth
  <2>3. QED
    BY <1>12, <2>1, <2>2 DEF Directory
<1>13. CASE RestartFresh
  <2>1. /\ list' = <<>> /\ others' = <<>> /\ snap' = NoSnapshot
        /\ pc' = "output initial"
    BY <1>13 DEF RestartFresh, NewProcess
  <2>2. PvdTruth'
    BY <1>12, <1>13 DEF RestartFresh
  <2>3. ListTruth' /\ SnapTruth' /\ StageTruth'
    BY <2>1, NoRecords DEF ListTruth, SnapTruth, StageTruth
  <2>4. QED
    BY <2>2, <2>3 DEF Truth
<1>14. CASE RestartLoad
  <2>1. /\ list' = snap.list /\ others' = snap.list /\ snap' = snap /\ snap # NoSnapshot
        /\ lastOut' = snap.lastOut /\ pc' = "output initial"
        /\ snap \in Saved
    BY <1>1, <1>14 DEF RestartLoad, NewProcess, TypeOK
  <2>2. ti'.n = snap.ti.n /\ ti'.t = snap.ti.t
    BY <1>14, <2>1, LoadedFacts DEF RestartLoad
  <2>3. snap.list \in Records /\ snap.ti.n \in Nat /\ snap.ti.t \in Nat
    BY <1>1, <2>1, SnapTypes
  <2>4. \A a : Behind(a, ti') <=> Behind(a, snap.ti)
    BY <2>2 DEF Behind
  <2>5. Behind(snap.ti, ti')
    BY <2>2, <2>3 DEF Behind
  <2>6. Recordable(snap.list, ti') /\ Recordable(snap.list, snap.ti)
    BY <2>1, <2>4 DEF Truth, SnapTruth, Recordable
  <2>7. Truthful(snap.list, vtu', SnapCut)
    BY <1>12, <1>14, <2>1, <2>3 DEF RestartLoad, Truth, SnapTruth
  <2>8. SnapCut' = SnapCut
    BY <2>1 DEF SnapCut
  <2>9. MayCut' = SnapCut
    BY <2>1, <2>2 DEF MayCut, SnapCut, IsOutputTimestep, Due
  <2>10. ListTruth'
    BY <2>1, <2>6, <2>7, <2>9 DEF ListTruth
  <2>11. SnapTruth'
    BY <2>1, <2>2, <2>5, <2>6, <2>7, <2>8 DEF SnapTruth
  <2>12. PvdTruth' /\ StageTruth'
    BY <1>12, <1>14, <2>1 DEF RestartLoad, StageTruth
  <2>13. QED
    BY <2>10, <2>11, <2>12 DEF Truth
<1>15. CASE UNCHANGED vars
  <2>1. UNCHANGED <<ti, list, others, lastOut, vtu, pvd, snap, torn, pc>>
    BY <1>15 DEF vars
  <2>2. MayCut' = MayCut /\ SnapCut' = SnapCut
    BY <2>1 DEF MayCut, SnapCut, IsOutputTimestep
  <2>3. QED
    BY <2>1, <2>2 DEF Truth, ListTruth, SnapTruth, PvdTruth, StageTruth
<1>16. QED
  BY <1>2, <1>3, <1>4, <1>5, <1>6, <1>7, <1>9, <1>10, <1>11, <1>13, <1>14, <1>15 DEF Next

LEMMA TruthInit == Init => Truth
<1> SUFFICES ASSUME Init PROVE Truth
  OBVIOUS
<1>1. /\ snap = NoSnapshot /\ list = <<>> /\ others = <<>> /\ pvd = <<>>
      /\ pc = "output initial"
  BY DEF Init
<1>2. ListTruth /\ SnapTruth /\ StageTruth
  BY <1>1, NoRecords DEF ListTruth, SnapTruth, StageTruth
<1>3. PvdTruth
  <2>1. \A i \in 1 .. Len(pvd) : FALSE
    BY <1>1, NoRecords
  <2>2. QED
    BY <1>1, <2>1, NoRecords DEF PvdTruth
<1>4. QED
  BY <1>2, <1>3 DEF Truth

(* The .pvd file names only files that hold the data of the recorded time, *)
(* but for the steps whose output was begun after it was last written, and *)
(* in strict order of step and time: whatever jobs were killed between any *)
(* two file operations, repeated steps or moved to another directory and   *)
(* whichever rank's records were archived.                                 *)
THEOREM PvdStaysTrue == Spec => []PvdTellsTheTruth
<1>1. TypeInv /\ Truth => PvdTellsTheTruth
  <2> SUFFICES ASSUME TypeInv, Truth PROVE PvdTellsTheTruth
    OBVIOUS
  <2>1. pvd \in Records
    BY DEF TypeInv, TypeOK
  <2>2. Len(pvd) \in Nat
    BY <2>1, RecordTypes
  <2>3. ASSUME NEW i \in 1 .. Len(pvd) - 1
        PROVE pvd[i].n < pvd[i + 1].n /\ pvd[i].t < pvd[i + 1].t
    <3>1. i \in 1 .. Len(pvd) /\ i + 1 \in 1 .. Len(pvd) /\ i < i + 1
      BY <2>2
    <3>2. QED
      BY <3>1 DEF Truth, PvdTruth, Ordered
  <2>4. QED
    BY <2>3 DEF Truth, PvdTruth, PvdTellsTheTruth
<1>2. Spec => [](TypeInv /\ Truth)
  BY TruthInit, TypeInit, TypeStep, TruthStep, PTL DEF Spec
<1>3. QED
  BY <1>1, <1>2, PTL

-----------------------------------------------------------------------------
(* l lists every step of from .. m that the write frequency asks for, and  *)
(* the directory has its file.                                             *)
Listed(l, dir, from, m) ==
  \A n \in from .. m : n % WriteFrequency = 0 =>
     dir[n] # NoFile /\ \E i \in 1 .. Len(l) : l[i].n = n

(* The last step that is recorded, if it is due.                           *)
Handled == IF pc \in {"close", "loop", "save", "done"} THEN ti.n ELSE ti.n - 1

(* All lists of records are complete for this directory, and so is the     *)
(* .pvd file if its last writing was completed; the records that were      *)
(* archived, up to the step before: a job that continues in another        *)
(* directory writes that step again.                                       *)
Complete ==
  /\ IF snap = NoSnapshot THEN since = 0
     ELSE since <= snap.ti.n /\ Listed(snap.list, vtu, since, snap.ti.n - 1)
  /\ Listed(list, vtu, since, Handled)
  /\ Listed(others, vtu, since, Handled)
  /\ torn = {} => Listed(pvd, vtu, since, Handled)

LEMMA ListedLess ==
  ASSUME NEW l, NEW dir, NEW from, NEW m \in Int, NEW k \in Int, k <= m,
         from \in Int, Listed(l, dir, from, m)
  PROVE Listed(l, dir, from, k)
<1>1. \A n \in from .. k : n \in from .. m
  OBVIOUS
<1>2. QED
  BY <1>1 DEF Listed

(* A file that is opened or written stays, whatever it holds.              *)
LEMMA ListedAfterWrite ==
  ASSUME TypeOK, NEW what, what # NoFile, vtu' = [vtu EXCEPT ![ti.n] = what],
         NEW l, NEW m \in Int, m <= MaxNSteps, Listed(l, vtu, since, m)
  PROVE Listed(l, vtu', since, m)
<1> SUFFICES ASSUME NEW n \in since .. m, n % WriteFrequency = 0
             PROVE vtu'[n] # NoFile /\ \E i \in 1 .. Len(l) : l[i].n = n
  BY DEF Listed
<1>1. /\ vtu \in Files /\ since \in Steps
  BY DEF TypeOK, Files
<1>2. n \in Steps
  BY <1>1 DEF Steps
<1>3. vtu'[n] = IF n = ti.n THEN what ELSE vtu[n]
  BY <1>1, <1>2 DEF Files
<1>4. vtu[n] # NoFile /\ \E i \in 1 .. Len(l) : l[i].n = n
  BY DEF Listed
<1>5. QED
  BY <1>3, <1>4

LEMMA StepRange ==
  ASSUME TypeOK
  PROVE /\ ti.n \in Nat /\ ti.n <= MaxNSteps /\ since \in Nat
        /\ Handled \in Int /\ Handled <= MaxNSteps /\ Handled <= ti.n /\ ti.n - 1 <= Handled
        /\ snap # NoSnapshot => snap.ti.n - 1 \in Int /\ snap.ti.n - 1 <= MaxNSteps
<1>1. ti.n \in Nat /\ ti.n <= MaxNSteps /\ since \in Nat
  <2>1. ti \in TimeIterators /\ since \in Steps
    BY DEF TypeOK
  <2>2. ti.n \in Steps
    BY <2>1, ClockTypes
  <2>3. QED
    BY <2>1, <2>2 DEF Steps
<1>2. Handled = ti.n \/ Handled = ti.n - 1
  BY DEF Handled
<1>3. snap # NoSnapshot => snap.ti.n \in Nat /\ snap.ti.n <= MaxNSteps
  BY SnapTypes DEF Steps
<1>4. QED
  BY <1>1, <1>2, <1>3

(* What stays complete while the files of the step are written.            *)
LEMMA CompleteAfterWrite ==
  ASSUME TypeOK, Complete, NEW what, what # NoFile, vtu' = [vtu EXCEPT ![ti.n] = what],
         UNCHANGED <<ti, list, others, since, snap>>, Handled' = Handled,
         torn' # {}
  PROVE Complete'
<1>1. /\ Handled \in Int /\ Handled <= MaxNSteps
      /\ snap # NoSnapshot => snap.ti.n - 1 \in Int /\ snap.ti.n - 1 <= MaxNSteps
  BY StepRange
<1>2. Listed(list, vtu', since, Handled) /\ Listed(others, vtu', since, Handled)
  BY <1>1, ListedAfterWrite DEF Complete
<1>3. snap # NoSnapshot => Listed(snap.list, vtu', since, snap.ti.n - 1)
  BY <1>1, ListedAfterWrite DEF Complete
<1>4. QED
  BY <1>2, <1>3 DEF Complete

(* The records with the step under way are complete up to it.              *)
LEMMA RecordedListed ==
  ASSUME TypeOK, vtu[ti.n] # NoFile,
         NEW l \in Records, Recordable(l, ti), Listed(l, vtu, since, ti.n - 1)
  PROVE Listed(Recorded(l), vtu, since, ti.n)
<1> DEFINE r == Recorded(l)
<1>1. ti \in TimeIterators
  BY DEF TypeOK
<1>2. ti.n \in Nat /\ since \in Nat
  BY StepRange
<1>3. /\ r \in Records /\ r # <<>> /\ r[Len(r)].n = ti.n
      /\ \A i \in 1 .. Len(l) : \E j \in 1 .. Len(r) : r[j] = l[i]
  BY <1>1, RecordedFacts
<1> HIDE DEF r
<1>4. Len(r) \in 1 .. Len(r)
  <2>1. r \in Seq(Record)
    BY <1>3 DEF Records, Record
  <2>2. QED
    BY <1>3, <2>1
<1> SUFFICES ASSUME NEW n \in since .. ti.n, n % WriteFrequency = 0
             PROVE vtu[n] # NoFile /\ \E i \in 1 .. Len(r) : r[i].n = n
  BY DEF Listed, r
<1>5. CASE n = ti.n
  BY <1>3, <1>4, <1>5
<1>6. CASE n # ti.n
  <2>1. n \in since .. ti.n - 1
    BY <1>2, <1>6
  <2>2. vtu[n] # NoFile /\ \E i \in 1 .. Len(l) : l[i].n = n
    BY <2>1 DEF Listed
  <2>3. QED
    BY <1>3, <2>2
<1>7. QED
  BY <1>5, <1>6

LEMMA CleanListed ==
  ASSUME NEW l \in Records, NEW dir, NEW from, NEW m, Listed(l, dir, from, m)
  PROVE Listed(CleanPvd(l, dir), dir, from, m)
<1> DEFINE c == CleanPvd(l, dir)
<1>1. \A j \in 1 .. Len(l) : dir[l[j].n] # NoFile => \E i \in 1 .. Len(c) : c[i] = l[j]
  BY CleanFacts DEF Cleaned
<1> HIDE DEF c
<1>2. ASSUME NEW n \in from .. m, n % WriteFrequency = 0
      PROVE dir[n] # NoFile /\ \E i \in 1 .. Len(c) : c[i].n = n
  <2>1. dir[n] # NoFile
    BY <1>2 DEF Listed
  <2>2. PICK j \in 1 .. Len(l) : l[j].n = n
    BY <1>2 DEF Listed
  <2>3. PICK i \in 1 .. Len(c) : c[i] = l[j]
    BY <1>1, <2>1, <2>2
  <2>4. QED
    BY <2>1, <2>2, <2>3
<1>3. QED
  BY <1>2 DEF Listed, c

LEMMA LastOfRange ==
  ASSUME NEW a \in Nat, NEW b \in Nat
  PROVE \A n \in a .. b : n \in a .. b - 1 \/ n = b
OBVIOUS

(* An output that is not due leaves no gap.                                *)
LEMMA ProcessListed ==
  ASSUME TypeOK, Complete, NEW force \in BOOLEAN, NEW next \in {"loop", "save", "down"},
         Process(force, next), UNCHANGED <<ti, snap>>,
         pc \in {"output initial", "solve", "output"}
  PROVE Complete'
<1>1. Handled = ti.n - 1
  BY DEF Handled
<1>2. ti.n \in Nat /\ since \in Nat
  BY StepRange
<1>3. CASE IsOutputTimestep \/ force
  <2>1. /\ vtu' = [vtu EXCEPT ![ti.n] = CutFile]
        /\ torn' = torn \cup {ti.n} /\ pc' = "vtu"
        /\ UNCHANGED <<ti, list, others, pvd, since, snap>>
    BY <1>3 DEF Process
  <2>2. Handled' = Handled
    BY <1>1, <2>1 DEF Handled
  <2>3. QED
    BY <2>1, <2>2, CompleteAfterWrite
<1>4. CASE ~(IsOutputTimestep \/ force)
  <2>1. UNCHANGED <<ti, snap, list, others, vtu, pvd, since, torn>> /\ ~IsOutputTimestep
    BY <1>4 DEF Process, output
  <2>2. ti.n % WriteFrequency # 0
    BY <2>1 DEF IsOutputTimestep
  <2>3. ASSUME NEW l, Listed(l, vtu, since, ti.n - 1) PROVE Listed(l, vtu, since, ti.n)
    <3>1. \A n \in since .. ti.n : n \in since .. ti.n - 1 \/ n = ti.n
      BY <1>2, LastOfRange
    <3>2. QED
      BY <2>2, <2>3, <3>1 DEF Listed
  <2>4. Handled' = ti.n \/ Handled' = ti.n - 1
    BY <2>1 DEF Handled
  <2>5. ASSUME NEW l, Listed(l, vtu, since, Handled) PROVE Listed(l, vtu, since, Handled')
    BY <1>1, <2>3, <2>4, <2>5
  <2>6. QED
    BY <2>1, <2>5 DEF Complete
<1>5. QED
  BY <1>3, <1>4

LEMMA WritePvdListed ==
  ASSUME TypeOK, Truth, Complete, WritePvd
  PROVE Complete'
<1>1. /\ pc = "pvd" /\ pc' = "close"
      /\ list' = CleanPvd(Recorded(list), vtu) /\ others' = Recorded(others)
      /\ UNCHANGED <<ti, vtu, snap, since, torn>>
  BY DEF WritePvd
<1>2. Handled = ti.n - 1 /\ Handled' = ti.n
  BY <1>1 DEF Handled
<1>3. /\ list \in Records /\ others \in Records /\ ti \in TimeIterators
      /\ Recordable(list, ti) /\ Recordable(others, ti)
  BY <1>1 DEF TypeOK, Truth, ListTruth
<1>4. vtu[ti.n] # NoFile /\ torn # {}
  BY <1>1, <1>3, ClockTypes DEF Truth, StageTruth
<1>5. Listed(list, vtu, since, ti.n - 1) /\ Listed(others, vtu, since, ti.n - 1)
  BY <1>2 DEF Complete
<1>6. Listed(Recorded(list), vtu, since, ti.n) /\ Listed(Recorded(others), vtu, since, ti.n)
  BY <1>3, <1>4, <1>5, RecordedListed
<1>7. Recorded(list) \in Records
  BY <1>3, RecordedType
<1>8. Listed(CleanPvd(Recorded(list), vtu), vtu, since, ti.n)
  BY <1>6, <1>7, CleanListed
<1>9. QED
  BY <1>1, <1>2, <1>4, <1>6, <1>8 DEF Complete

LEMMA CompleteStep == TypeInv /\ Truth /\ Complete /\ [Next]_vars => Complete'
<1> SUFFICES ASSUME TypeInv, Truth, Complete, [Next]_vars PROVE Complete'
  OBVIOUS
<1>1. TypeOK /\ ti \in TimeIterators /\ since \in Steps
  BY DEF TypeInv, TypeOK
<1>2. ti.n \in Nat /\ since \in Nat /\ Handled \in Int /\ ti.n - 1 <= Handled
  BY <1>1, StepRange
<1>3. CASE OutputInitial \/ SolveFails \/ Output
  <2>1. /\ UNCHANGED <<ti, snap>>
        /\ pc \in {"output initial", "solve", "output"}
    BY <1>3 DEF OutputInitial, SolveFails, Output
  <2>2. Process(FALSE, "loop") \/ Process(TRUE, "down") \/ Process(FALSE, "save")
    BY <1>3 DEF OutputInitial, SolveFails, Output
  <2>3. QED
    BY <1>1, <2>1, <2>2, ProcessListed
<1>4. CASE WriteVtu
  <2>1. /\ vtu' = [vtu EXCEPT ![ti.n] = ti.t]
        /\ UNCHANGED <<ti, list, others, since, snap, torn>>
        /\ pc = "vtu" /\ pc' = "pvd"
    BY <1>4 DEF WriteVtu
  <2>2. Handled' = Handled
    BY <2>1 DEF Handled
  <2>3. ti.t # NoFile /\ torn' # {}
    BY <1>1, <2>1, ClockTypes DEF Truth, StageTruth
  <2>4. QED
    BY <1>1, <2>1, <2>2, <2>3, CompleteAfterWrite
<1>5. CASE WritePvd
  BY <1>1, <1>5, WritePvdListed
<1>6. ASSUME UNCHANGED <<list, others, vtu, since, snap>>,
             Handled' \in Int, Handled' <= Handled,
             UNCHANGED <<pvd, torn>> \/ Listed(pvd', vtu, since, Handled)
      PROVE Complete'
  <2>1. /\ Listed(list, vtu, since, Handled')
        /\ Listed(others, vtu, since, Handled')
        /\ torn' = {} => Listed(pvd', vtu, since, Handled')
    BY <1>2, <1>6, ListedLess DEF Complete
  <2>2. QED
    BY <1>6, <2>1 DEF Complete
<1>7. CASE ClosePvd
  <2>1. UNCHANGED <<ti, list, others, vtu, since, snap>> /\ pvd' = list /\ pc = "close"
    BY <1>7 DEF ClosePvd
  <2>2. Handled = ti.n /\ (Handled' = ti.n \/ Handled' = ti.n - 1)
    BY <2>1 DEF Handled
  <2>3. Handled' \in Int /\ Handled' <= Handled
    BY <1>2, <2>2
  <2>4. Listed(pvd', vtu, since, Handled)
    BY <2>1 DEF Complete
  <2>5. QED
    BY <1>6, <2>1, <2>3, <2>4
<1>8. CASE Advance
  <2>1. ti'.n = ti.n + 1
    BY <1>1, <1>8, AdvanceFacts DEF TypeInv, Forward
  <2>2. Handled' = ti.n /\ Handled = ti.n
    BY <1>2, <1>8, <2>1 DEF Advance, Handled
  <2>3. UNCHANGED <<list, others, vtu, pvd, since, snap, torn>>
    BY <1>8 DEF Advance, output
  <2>4. QED
    BY <1>2, <1>6, <2>2, <2>3
<1>9. CASE Solve \/ Finish \/ Crash
  <2>1. /\ UNCHANGED <<list, others, vtu, pvd, since, snap, torn>>
        /\ ti' = ti
        /\ pc' \in {"close", "loop", "save", "done"} => pc \in {"close", "loop", "save", "done"}
    BY <1>9 DEF Solve, Finish, Crash, output
  <2>2. Handled' \in Int /\ Handled' <= Handled
    BY <1>2, <2>1 DEF Handled
  <2>3. QED
    BY <1>6, <2>1, <2>2
<1>10. CASE Save
  <2>1. /\ UNCHANGED <<ti, list, others, vtu, pvd, since, torn>> /\ pc = "save" /\ pc' = "loop"
        /\ snap' = snap \/ snap' \in Snapshots
    BY <1>10 DEF Save, output
  <2>2. Handled = ti.n /\ Handled' = ti.n
    BY <2>1 DEF Handled
  <2>3. CASE snap' = snap
    BY <2>1, <2>2, <2>3 DEF Complete
  <2>4. CASE snap' \in Snapshots
    <3>1. snap' # NoSnapshot
      BY <2>1, <2>4, SnapshotsSaved
    <3>2. snap'.ti.n = ti.n /\ snap'.list \in {list, others}
      BY <2>4 DEF Snapshots, Archived
    <3>3. since <= ti.n
      <4>1. snap # NoSnapshot =>
              since <= snap.ti.n /\ snap.ti.n <= ti.n /\ snap.ti.n \in Nat
        BY <1>1, SnapTypes DEF Complete, Truth, SnapTruth, Behind
      <4>2. snap = NoSnapshot => since = 0
        BY DEF Complete
      <4>3. QED
        BY <1>2, <4>1, <4>2
    <3>4. Listed(list, vtu, since, ti.n - 1) /\ Listed(others, vtu, since, ti.n - 1)
      BY <1>2, <2>2, ListedLess DEF Complete
    <3>5. QED
      BY <2>1, <2>2, <3>1, <3>2, <3>3, <3>4 DEF Complete
  <2>5. QED
    BY <2>1, <2>3, <2>4
<1>11. CASE RestartFresh
  <2>1. /\ list' = <<>> /\ others' = <<>> /\ snap = NoSnapshot /\ snap' = snap
        /\ pc' = "output initial" /\ ti'.n = 0 /\ Directory(0)
    BY <1>11, InitialFacts DEF RestartFresh, NewProcess
  <2>2. since' = 0
    BY <2>1 DEF Directory, Complete
  <2>3. Handled' = 0 - 1
    BY <2>1 DEF Handled
  <2>4. \A l, dir : Listed(l, dir, 0, 0 - 1)
    BY DEF Listed
  <2>5. QED
    BY <2>1, <2>2, <2>3, <2>4 DEF Complete
<1>12. CASE RestartLoad
  <2>1. /\ list' = snap.list /\ others' = snap.list /\ snap # NoSnapshot /\ snap' = snap
        /\ pc' = "output initial" /\ Directory(snap.ti.n)
    BY <1>12 DEF RestartLoad, NewProcess
  <2>2. ti'.n = snap.ti.n
    BY <1>1, <1>12, <2>1, SnapTypes, LoadedFacts DEF RestartLoad
  <2>3. Handled' = snap.ti.n - 1
    BY <2>1, <2>2 DEF Handled
  <2>4. /\ since <= snap.ti.n /\ snap.ti.n \in Nat
        /\ snap.ti.n <= ti.n
        /\ Listed(snap.list, vtu, since, snap.ti.n - 1)
    BY <1>1, <2>1, SnapTypes DEF Complete, Truth, SnapTruth, Behind
  <2>5. torn = {} => Listed(pvd, vtu, since, snap.ti.n - 1)
    <3>1. snap.ti.n - 1 <= Handled /\ snap.ti.n - 1 \in Int
      BY <1>2, <2>4
    <3>2. QED
      BY <1>2, <3>1, ListedLess DEF Complete
  <2>6. CASE UNCHANGED <<vtu, pvd, since, torn>>
    BY <2>1, <2>3, <2>4, <2>5, <2>6 DEF Complete
  <2>7. CASE since' = snap.ti.n
    <3>1. \A l, dir : Listed(l, dir, snap.ti.n, snap.ti.n - 1)
      BY <2>4 DEF Listed
    <3>2. \A l, dir : Listed(l, dir, since', Handled') /\ Listed(l, dir, since', snap'.ti.n - 1)
      BY <2>1, <2>3, <2>7, <3>1
    <3>3. snap' # NoSnapshot /\ since' <= snap'.ti.n
      <4>1. snap.ti.n <= snap.ti.n
        BY <2>4
      <4>2. since' = snap'.ti.n /\ snap'.ti.n <= snap'.ti.n /\ snap' # NoSnapshot
        BY <2>1, <2>7, <4>1
      <4>3. QED
        BY <4>2
    <3>4. QED
      BY <3>2, <3>3 DEF Complete
  <2>8. QED
    BY <2>1, <2>6, <2>7 DEF Directory
<1>13. CASE UNCHANGED vars
  BY <1>13 DEF vars, Complete, Handled
<1>14. QED
  BY <1>3, <1>4, <1>5, <1>7, <1>8, <1>9, <1>10, <1>11, <1>12, <1>13 DEF Next

Last(l) == l[Len(l)]

(* The last output and the last records, which are never older than the    *)
(* time that was archived for it.                                          *)
Recent ==
  /\ lastOut <= ti.t
  /\ snap # NoSnapshot => /\ snap.lastOut <= snap.ti.t
                          /\ snap.list # <<>> /\ snap.lastOut <= Last(snap.list).t
  /\ pc \in {"loop", "save", "done"} => ti.t - lastOut < WriteTimeStep
  /\ pc = "output initial" /\ (list = <<>> \/ others = <<>>) => ti.n = 0
  /\ pc \notin {"output initial", "vtu", "pvd", "down"} => list # <<>> /\ others # <<>>
  /\ pc # "down" => /\ list # <<>> => lastOut <= Last(list).t
                    /\ others # <<>> => lastOut <= Last(others).t
  /\ pc = "close" => Last(list).t = ti.t /\ Last(others).t = ti.t
  /\ torn = {} /\ pvd # <<>> => /\ lastOut <= Last(pvd).t
                                /\ snap # NoSnapshot => snap.lastOut <= Last(pvd).t

LEMMA LastType ==
  ASSUME NEW l \in Records, l # <<>>
  PROVE Last(l).t \in Nat /\ Last(l).t >= StartTime
<1>1. l \in Seq(Record)
  BY DEF Records, Record
<1>2. Last(l) \in Record
  BY <1>1 DEF Last
<1>3. QED
  BY <1>2 DEF Record, Times

(* The clocks that an output compares.                                     *)
LEMMA OutputClocks ==
  TypeOK => ti.t \in Nat /\ lastOut \in Nat
<1> SUFFICES ASSUME TypeOK PROVE ti.t \in Nat /\ lastOut \in Nat
  OBVIOUS
<1>1. ti \in TimeIterators /\ lastOut \in Times
  BY DEF TypeOK
<1>2. Times \subseteq Nat
  BY DEF Times
<1>3. QED
  BY <1>1, <1>2, ClockTypes

LEMMA NotDue ==
  ASSUME NEW t \in Nat, NEW last \in Nat, ~(t - last >= WriteTimeStep)
  PROVE t - last < WriteTimeStep
OBVIOUS

LEMMA Later ==
  ASSUME NEW s \in Nat, NEW t \in Nat, NEW d \in Nat, s <= t
  PROVE s <= t + d
OBVIOUS

LEMMA ProcessRecent ==
  ASSUME TypeOK, Recent, NEW force \in BOOLEAN, NEW next \in {"loop", "save", "down"},
         Process(force, next), UNCHANGED <<ti, snap>>,
         pc \in {"output initial", "solve", "output"}
  PROVE Recent'
<1>1. CASE IsOutputTimestep \/ force
  <2>1. /\ torn' # {} /\ pc' = "vtu"
        /\ UNCHANGED <<ti, list, others, pvd, lastOut, snap>>
    BY <1>1 DEF Process
  <2>2. QED
    BY <2>1 DEF Recent, Last
<1>2. CASE ~(IsOutputTimestep \/ force)
  <2>1. /\ UNCHANGED <<ti, snap, list, others, lastOut, pvd, torn>> /\ pc' = next
        /\ ~IsOutputTimestep
    BY <1>2 DEF Process, output
  <2>2. ti.n # 0 /\ ~(ti.t - lastOut >= WriteTimeStep)
    BY <2>1 DEF IsOutputTimestep
  <2>3. ti.t - lastOut < WriteTimeStep
    BY <2>2, OutputClocks, NotDue
  <2>4. list # <<>> /\ others # <<>>
    BY <2>2 DEF Recent
  <2>5. pc' \in {"loop", "save", "down"}
    BY <2>1
  <2>6. QED
    BY <2>1, <2>3, <2>4, <2>5 DEF Recent, Last
<1>3. QED
  BY <1>1, <1>2

(* The last record of every rank is that of the step.                      *)
LEMMA WritePvdLast ==
  ASSUME TypeOK, Truth, WritePvd
  PROVE /\ list' # <<>> /\ Last(list').t = ti.t
        /\ others' # <<>> /\ Last(others').t = ti.t
<1>1. /\ pc = "pvd"
      /\ list' = CleanPvd(Recorded(list), vtu) /\ others' = Recorded(others)
  BY DEF WritePvd
<1>2. /\ list \in Records /\ others \in Records /\ ti \in TimeIterators
      /\ Recordable(list, ti) /\ Recordable(others, ti)
  BY <1>1 DEF TypeOK, Truth, ListTruth
<1> DEFINE r == Recorded(list)
           o == Recorded(others)
<1>3. /\ r \in Records /\ r # <<>> /\ r[Len(r)].n = ti.n /\ r[Len(r)].t = ti.t
      /\ o # <<>> /\ o[Len(o)].t = ti.t
  BY <1>2, RecordedFacts
<1>4. vtu[ti.n] # NoFile
  BY <1>1, <1>2, ClockTypes DEF Truth, StageTruth
<1> HIDE DEF r, o
<1> DEFINE c == CleanPvd(r, vtu)
<1>5. c # <<>> /\ c[Len(c)] = r[Len(r)]
  BY <1>3, <1>4, CleanFacts
<1>6. list' = c /\ others' = o
  BY <1>1 DEF r, o
<1> HIDE DEF c
<1>7. QED
  BY <1>3, <1>5, <1>6 DEF Last

LEMMA RecentStep == TypeInv /\ Truth /\ Recent /\ [Next]_vars => Recent'
<1> SUFFICES ASSUME TypeInv, Truth, Recent, [Next]_vars PROVE Recent'
  OBVIOUS
<1>1. TypeOK /\ TypeOK'
  BY TypeStep DEF TypeInv
<1>2. ti \in TimeIterators /\ lastOut \in Times
  BY <1>1 DEF TypeOK
<1>3. ti.t \in Nat /\ lastOut \in Nat
  BY <1>2, ClockTypes DEF Times
<1>4. ASSUME snap # NoSnapshot
      PROVE snap.lastOut \in Nat /\ snap.lastOut <= ti.t
  <2>1. snap.lastOut \in Nat /\ snap.ti.t \in Nat
    BY <1>1, <1>4, SnapTypes
  <2>2. snap.lastOut <= snap.ti.t /\ snap.ti.t <= ti.t
    BY <1>4 DEF Recent, Truth, SnapTruth, Behind
  <2>3. QED
    BY <1>3, <2>1, <2>2
<1>5. CASE OutputInitial \/ SolveFails \/ Output
  <2>1. /\ UNCHANGED <<ti, snap>>
        /\ pc \in {"output initial", "solve", "output"}
    BY <1>5 DEF OutputInitial, SolveFails, Output
  <2>2. Process(FALSE, "loop") \/ Process(TRUE, "down") \/ Process(FALSE, "save")
    BY <1>5 DEF OutputInitial, SolveFails, Output
  <2>3. QED
    BY <1>1, <2>1, <2>2, ProcessRecent
<1>6. CASE WriteVtu
  <2>1. /\ pc = "vtu" /\ pc' = "pvd"
        /\ UNCHANGED <<ti, list, others, lastOut, pvd, snap, torn>>
    BY <1>6 DEF WriteVtu
  <2>2. QED
    BY <2>1 DEF Recent, Last
<1>7. CASE WritePvd
  <2>1. /\ list' # <<>> /\ Last(list').t = ti.t
        /\ others' # <<>> /\ Last(others').t = ti.t
    BY <1>1, <1>7, WritePvdLast
  <2>2. /\ pc = "pvd" /\ pc' = "close"
        /\ UNCHANGED <<ti, lastOut, snap, torn>>
    BY <1>7 DEF WritePvd
  <2>3. torn' # {}
    BY <2>2 DEF Truth, StageTruth
  <2>4. Last(list)' = Last(list') /\ Last(others)' = Last(others')
    BY DEF Last
  <2>5. lastOut' <= ti'.t /\ lastOut' <= Last(list)'.t /\ lastOut' <= Last(others)'.t
    BY <2>1, <2>2, <2>4 DEF Recent
  <2>6. QED
    BY <2>1, <2>2, <2>3, <2>4, <2>5 DEF Recent, Last
<1>8. CASE ClosePvd
  <2>1. /\ pc = "close" /\ pc' \in {"loop", "save", "down"}
        /\ pvd' = list /\ lastOut' = ti.t
        /\ UNCHANGED <<ti, list, others, snap>>
    BY <1>1, <1>8 DEF ClosePvd, TypeOK
  <2>2. list # <<>> /\ others # <<>> /\ Last(list).t = ti.t /\ Last(others).t = ti.t
    BY <2>1 DEF Recent
  <2>3. ti.t <= ti.t /\ ti.t - ti.t < WriteTimeStep
    BY <1>3
  <2>4. QED
    BY <1>4, <2>1, <2>2, <2>3 DEF Recent, Last
<1>9. CASE Advance
  <2>1. UNCHANGED <<list, others, lastOut, pvd, snap, torn>> /\ pc = "loop" /\ pc' = "solve"
    BY <1>9 DEF Advance, output
  <2>2. ti' \in TimeIterators /\ ti'.t = ti.t + ti'.dt
    BY <1>1, <1>2, <1>9, AdvanceFacts DEF TypeInv, Forward
  <2>3. lastOut <= ti'.t
    <3>1. ti'.dt \in Nat
      BY <2>2 DEF TimeIterators
    <3>2. lastOut <= ti.t
      BY DEF Recent
    <3>3. lastOut <= ti.t + ti'.dt
      BY <1>3, <3>1, <3>2, Later
    <3>4. QED
      BY <2>2, <3>3
  <2>4. QED
    BY <2>1, <2>3 DEF Recent, Last
<1>10. CASE Solve \/ Finish \/ Crash
  <2>1. /\ UNCHANGED <<ti, list, others, lastOut, pvd, snap, torn>>
        /\ \/ pc = "solve" /\ pc' = "output"
           \/ pc = "loop" /\ pc' = "done"
           \/ pc' = "down"
    BY <1>10 DEF Solve, Finish, Crash, output
  <2>2. QED
    BY <2>1 DEF Recent, Last
<1>11. CASE Save
  <2>1. /\ UNCHANGED <<ti, list, others, lastOut, pvd, torn>> /\ pc = "save" /\ pc' = "loop"
        /\ snap' = snap \/ snap' \in Snapshots
    BY <1>11 DEF Save, output
  <2>2. CASE snap' = snap
    BY <2>1, <2>2 DEF Recent, Last
  <2>3. CASE snap' \in Snapshots
    <3>1. snap'.lastOut = lastOut /\ snap'.ti.t = ti.t /\ snap'.list \in {list, others}
      BY <2>3 DEF Snapshots, Archived
    <3>2. snap'.list # <<>> /\ lastOut <= Last(snap'.list).t
      BY <2>1, <3>1 DEF Recent
    <3>4. QED
      BY <2>1, <3>1, <3>2 DEF Recent, Last
  <2>4. QED
    BY <2>1, <2>2, <2>3
<1>12. CASE RestartFresh
  <2>1. /\ lastOut' = StartTime /\ snap' = NoSnapshot /\ pc' = "output initial"
        /\ list' = <<>> /\ others' = <<>>
    BY <1>12 DEF RestartFresh, NewProcess
  <2>2. ti'.t = StartTime /\ ti'.n = 0
    BY <1>12, InitialFacts DEF RestartFresh
  <2>3. ASSUME pvd' # <<>> PROVE StartTime <= Last(pvd').t
    <3>1. pvd' \in Records
      BY <1>1 DEF TypeOK
    <3>2. Last(pvd').t \in Nat /\ Last(pvd').t >= StartTime
      BY <2>3, <3>1, LastType
    <3>4. QED
      BY <3>2
  <2>4. StartTime <= StartTime
    OBVIOUS
  <2>5. Last(pvd)' = Last(pvd')
    BY DEF Last
  <2>6. QED
    BY <2>1, <2>2, <2>3, <2>4, <2>5 DEF Recent
<1>13. CASE RestartLoad
  <2>1. /\ lastOut' = snap.lastOut /\ snap' = snap /\ snap # NoSnapshot
        /\ list' = snap.list /\ others' = snap.list
        /\ pc' = "output initial" /\ Directory(snap.ti.n)
    BY <1>13 DEF RestartLoad, NewProcess
  <2>2. ti'.t = snap.ti.t
    BY <1>1, <1>13, <2>1, SnapTypes, LoadedFacts DEF RestartLoad
  <2>3. pvd' = <<>> \/ (pvd' = pvd /\ torn' = torn)
    BY <2>1 DEF Directory
  <2>4. QED
    BY <2>1, <2>2, <2>3 DEF Recent, Last
<1>14. CASE UNCHANGED vars
  BY <1>14 DEF vars, Recent, Last
<1>15. QED
  BY <1>5, <1>6, <1>7, <1>8, <1>9, <1>10, <1>11, <1>12, <1>13, <1>14 DEF Next

(* No output is lost by a restart: whenever a step is about to begin, the  *)
(* records, and the .pvd file if its last writing was completed, list      *)
(* every step that the write frequency asks for since the directory is in  *)
(* use, and the last record is less than one write time step old.          *)
THEOREM OutputStaysComplete == Spec => []NoOutputLost
<1>1. ASSUME Init PROVE Complete /\ Recent
  <2>1. /\ snap = NoSnapshot /\ list = <<>> /\ others = <<>> /\ pvd = <<>>
        /\ pc = "output initial" /\ since = 0 /\ lastOut = StartTime
    BY <1>1 DEF Init
  <2>2. ti.n = 0 /\ ti.t = StartTime
    BY <1>1, InitialFacts DEF Init
  <2>3. Complete
    <3>1. Handled = 0 - 1
      BY <2>1, <2>2 DEF Handled
    <3>2. \A l, dir : Listed(l, dir, 0, 0 - 1)
      BY DEF Listed
    <3>4. \A l, dir : Listed(l, dir, since, Handled)
      BY <2>1, <3>1, <3>2
    <3>5. QED
      BY <2>1, <3>4 DEF Complete
  <2>4. lastOut <= ti.t
    <3>1. StartTime <= StartTime
      OBVIOUS
    <3>2. QED
      BY <2>1, <2>2, <3>1
  <2>5. Recent
    BY <2>1, <2>2, <2>4 DEF Recent
  <2>6. QED
    BY <2>3, <2>5
<1>2. TypeInv /\ Complete /\ Recent => NoOutputLost
  <2> SUFFICES ASSUME TypeInv, Complete, Recent, pc = "loop"
               PROVE list # <<>> /\ Covers(list) /\ (torn = {} => Covers(pvd))
    BY DEF NoOutputLost
  <2>0. ti \in TimeIterators /\ lastOut \in Times
    BY DEF TypeInv, TypeOK
  <2>1. /\ ti.t \in Nat /\ lastOut \in Nat /\ list \in Records /\ pvd \in Records
    BY <2>0, ClockTypes DEF TypeInv, TypeOK, Times
  <2>2. ASSUME NEW l \in Records, Listed(l, vtu, since, ti.n),
               l # <<>> => lastOut <= Last(l).t
        PROVE Covers(l)
    <3>1. ASSUME l # <<>> PROVE ti.t - l[Len(l)].t < WriteTimeStep
      <4>1. Last(l).t \in Nat
        BY <3>1, LastType
      <4>2. lastOut <= Last(l).t /\ ti.t - lastOut < WriteTimeStep
        BY <2>2, <3>1 DEF Recent
      <4>3. ti.t - Last(l).t < WriteTimeStep
        BY <2>1, <4>1, <4>2
      <4>4. QED
        BY <4>3 DEF Last
    <3>2. QED
      BY <2>2, <3>1 DEF Listed, Covers
  <2>3. Handled = ti.n
    BY DEF Handled
  <2>4. list # <<>> /\ Covers(list)
    BY <2>1, <2>2, <2>3 DEF Complete, Recent
  <2>5. torn = {} => Covers(pvd)
    BY <2>1, <2>2, <2>3 DEF Complete, Recent
  <2>6. QED
    BY <2>4, <2>5
<1>3. Spec => [](TypeInv /\ Truth /\ Complete /\ Recent)
  BY <1>1, TruthInit, TypeInit, TypeStep, TruthStep, CompleteStep, RecentStep, PTL DEF Spec
<1>4. QED
  BY <1>2, <1>3, PTL
=============================================================================

------------------------- MODULE FieldHistoryProofs -------------------------
(***************************************************************************)
(* Proofs about FieldHistory for every number of old solutions, every      *)
(* bound on the coupling iterations and every sequence of step sizes: the  *)
(* types; and, for every predictor that commits the history as it is (all  *)
(* but the least-squares projection, which swaps its buffer in first),     *)
(* that field, old solutions and extrapolation match the clock.            *)
(***************************************************************************)
EXTENDS FieldHistory, TLAPS

(* What the assumptions say of the numbers.                                *)
LEMMA Numbers ==
  /\ StartTime \in Nat /\ EndTime \in Nat /\ StartTime < EndTime
  /\ TimeStepSize \in Nat /\ TimeStepSize > 0
  /\ MaxNSteps \in Nat
  /\ NOld \in Nat /\ NOld > 0
  /\ MaxIter \in Nat /\ MaxIter > 0
  /\ Blank \notin Int
BY TimeAssumption, HistoryAssumption

USE Numbers

LEMMA PairMin ==
  ASSUME NEW a \in Int, NEW b \in Int
  PROVE Min({a, b}) = IF a <= b THEN a ELSE b
BY DEF Min

(* There is always a recent old solution.                                  *)
LEMMA SizeFacts == Size \in Nat /\ Size >= 2
<1>1. 2 \in Int /\ NOld \in Int
  OBVIOUS
<1>2. \A a, b \in Int : Max({a, b}) = IF a >= b THEN a ELSE b
  BY DEF Max
<1>3. Max({NOld, 2}) = IF NOld >= 2 THEN NOld ELSE 2
  BY <1>1, <1>2
<1>4. QED
  BY <1>3 DEF Size

(* A step is taken forwards and not beyond the end time; from the second   *)
(* step on the old increment is that of the step itself.                   *)
LEMMA NextIncrement ==
  ASSUME NEW it \in TimeIterators, it.dt > 0, ~IsFinished(it)
  PROVE LET next == ComputeNextTimeIncrement(it) IN
        /\ next \in TimeIterators
        /\ next.dt \in Nat /\ next.dt > 0
        /\ next.n = it.n + 1
        /\ next.t = it.t + next.dt
        /\ next.n >= 2 => next.oldDt = next.dt
<1> DEFINE f == TimeStepSizeFunction[it.t]
           asked == IF f > 0 THEN f ELSE it.dt
           left == EndTime - it.t
           dt == Min({asked, left})
<1>1. /\ it.n \in 0 .. MaxNSteps /\ it.n < MaxNSteps
      /\ it.t \in StartTime .. EndTime /\ it.t < EndTime
      /\ it.oldT \in StartTime .. EndTime /\ it.oldDt \in Nat
      /\ it.dt \in Nat
  BY DEF TimeIterators, Times, IsFinished
<1>2. asked \in Nat /\ asked > 0
  BY <1>1, TimeAssumption
<1>3. left \in Nat /\ left > 0
  BY <1>1
<1>4. dt \in Nat /\ 0 < dt /\ dt <= left
  <2> HIDE DEF asked, left
  <2>1. dt = IF asked <= left THEN asked ELSE left
    BY <1>2, <1>3, PairMin
  <2> HIDE DEF dt
  <2>2. QED
    BY <1>2, <1>3, <2>1
<1>5. ComputeNextTimeIncrement(it) =
        [n |-> it.n + 1, t |-> it.t + dt, dt |-> dt,
         oldT |-> IF it.n >= 1 THEN it.t ELSE it.oldT,
         oldDt |-> IF it.n >= 1 THEN dt ELSE it.oldDt]
  BY DEF ComputeNextTimeIncrement
<1> HIDE DEF dt
<1>6. /\ it.n + 1 \in 0 .. MaxNSteps
      /\ it.t + dt \in StartTime .. EndTime
      /\ (IF it.n >= 1 THEN it.t ELSE it.oldT) \in StartTime .. EndTime
      /\ (IF it.n >= 1 THEN dt ELSE it.oldDt) \in Nat
      /\ it.n + 1 >= 2 => it.n >= 1
  BY <1>1, <1>4
<1>7. QED
  BY <1>4, <1>5, <1>6 DEF TimeIterators, Times

LEMMA ResetFacts ==
  /\ Reset \in TimeIterators
  /\ Reset.dt = TimeStepSize /\ Reset.n = 0 /\ Reset.t = StartTime
BY DEF Reset, TimeIterators, Times

(* Equal increments: the difference of the old fields is added unchanged.  *)
LEMMA Quotient ==
  ASSUME NEW d \in Nat, d > 0, NEW x \in Int
  PROVE (d * x) \div d = x
<1> DEFINE q == (d * x) \div d
<1>1. /\ q \in Int
      /\ d * x = d * q + ((d * x) % d)
      /\ (d * x) % d \in 0 .. d - 1
  OBVIOUS
<1>2. QED
  BY <1>1

-----------------------------------------------------------------------------
(* Types.                                                                  *)
LEMMA HistoryTypes ==
  ASSUME NEW h \in Histories
  PROVE /\ h[0] \in Vector /\ h[1] \in Vector
        /\ Committed(h) \in Histories
        /\ \A v \in Vector : [h EXCEPT ![0] = v] \in Histories
<1>1. 0 \in 0 .. Size - 1 /\ 1 \in 0 .. Size - 1
  BY SizeFacts
<1>2. h \in [0 .. Size - 1 -> Vector]
  BY DEF Histories
<1>3. ASSUME NEW i \in 0 .. Size - 1 PROVE (IF i = 0 THEN h[0] ELSE h[i - 1]) \in Vector
  <2>1. CASE i = 0
    BY <1>1, <1>2, <2>1
  <2>2. CASE i # 0
    <3>1. i - 1 \in 0 .. Size - 1
      BY SizeFacts, <2>2
    <3>2. QED
      BY <1>2, <2>2, <3>1
  <2>3. QED
    BY <2>1, <2>2
<1>4. Committed(h) \in Histories
  BY <1>3 DEF Committed, Histories
<1>5. QED
  BY <1>1, <1>2, <1>4 DEF Histories

LEMMA GuessType ==
  ASSUME ti \in TimeIterators, NEW h \in Histories
  PROVE Guess(h) \in Vector
<1>1. h[0] \in Vector /\ h[1] \in Vector
  BY HistoryTypes
<1>2. ti.t \in Int /\ ti.dt \in Int /\ ti.oldDt \in Nat
  BY DEF TimeIterators, Times
<1>3. LinearPredictor(h) \in Vector
  <2>1. CASE ti.oldDt = 0
    BY <1>1, <2>1 DEF LinearPredictor
  <2>2. CASE ti.oldDt # 0 /\ Blank \in {h[0], h[1]}
    BY <2>2 DEF LinearPredictor, Vector
  <2>3. CASE ti.oldDt # 0 /\ Blank \notin {h[0], h[1]}
    <3>1. h[0] \in Int /\ h[1] \in Int
      BY <1>1, <2>3 DEF Vector
    <3> DEFINE x == ti.dt * (h[0] - h[1])
    <3>2. x \in Int
      BY <1>2, <3>1
    <3>3. LinearPredictor(h) = h[0] + x \div ti.oldDt
      BY <2>3 DEF LinearPredictor
    <3> HIDE DEF x
    <3>4. x \div ti.oldDt \in Int
      BY <1>2, <2>3, <3>2
    <3>5. QED
      BY <3>1, <3>3, <3>4 DEF Vector
  <2>4. QED
    BY <2>1, <2>2, <2>3
<1>4. QED
  BY <1>1, <1>2, <1>3 DEF Guess, Vector

LEMMA PredictedType ==
  ASSUME ti \in TimeIterators, NEW h \in Histories, NEW b \in Vector
  PROVE Predicted(h, b).hist \in Histories /\ Predicted(h, b).buffer \in Vector
<1>1. CASE SwapFirst
  <2>1. [h EXCEPT ![0] = b] \in Histories /\ h[0] \in Vector
    BY HistoryTypes
  <2>2. [Committed([h EXCEPT ![0] = b]) EXCEPT ![0] = h[0]] \in Histories
    BY <2>1, HistoryTypes
  <2>3. QED
    BY <1>1, <2>2 DEF Predicted
<1>2. CASE ~SwapFirst
  <2>1. Committed(h) \in Histories /\ Guess(h) \in Vector /\ h[0] \in Vector
    BY HistoryTypes, GuessType
  <2>2. [Committed(h) EXCEPT ![0] = Guess(h)] \in Histories
    BY <2>1, HistoryTypes
  <2>3. QED
    BY <1>2, <2>1, <2>2 DEF Predicted
<1>3. QED
  BY <1>1, <1>2

LEMMA InitialType == InitialHistory \in Histories
BY DEF InitialHistory, Histories, Vector

(* The increment is never zero, so that every step goes forwards.          *)
TypeInv == TypeOK /\ ti.dt > 0

LEMMA SnapshotType ==
  ASSUME TypeOK
  PROVE Snapshot \in Snapshots /\ Len(Snapshot.past) = Snapshot.ti.n + 1
BY DEF TypeOK, Snapshot, Snapshots, Archived, TimeIterators

LEMMA BeginStepFacts ==
  ASSUME TypeInv, BeginStep
  PROVE /\ ti' \in TimeIterators
        /\ ti'.dt \in Nat /\ ti'.dt > 0
        /\ ti'.n = ti.n + 1 /\ ti'.t = ti.t + ti'.dt
        /\ ti'.n >= 2 => ti'.oldDt = ti'.dt
        /\ ti.n \in Nat /\ ti.t \in Nat
        /\ past' \in Seq(Times) /\ Len(past') = ti'.n + 1
        /\ past'[ti'.n + 1] = ti'.t
        /\ \A k \in 1 .. ti.n + 1 : past'[k] = past[k]
<1>1. ti \in TimeIterators /\ ti.dt > 0 /\ past \in Seq(Times) /\ Len(past) = ti.n + 1
  BY DEF TypeInv, TypeOK
<1>2. /\ ti' = ComputeNextTimeIncrement(ti) /\ ~IsFinished(ti)
      /\ past' = Append(past, ti'.t)
  BY DEF BeginStep
<1>3. /\ ti' \in TimeIterators
      /\ ti'.dt \in Nat /\ ti'.dt > 0
      /\ ti'.n = ti.n + 1 /\ ti'.t = ti.t + ti'.dt
      /\ ti'.n >= 2 => ti'.oldDt = ti'.dt
  BY <1>1, <1>2, NextIncrement
<1>4. ti'.t \in Times /\ ti.n \in Nat /\ ti.t \in Nat
  BY <1>1, <1>3 DEF TimeIterators, Times
<1>5. QED
  BY <1>1, <1>2, <1>3, <1>4

LEMMA TypeStep == TypeInv /\ [Next]_vars => TypeInv'
<1> SUFFICES ASSUME TypeInv, [Next]_vars PROVE TypeInv'
  OBVIOUS
<1>1. /\ ti \in TimeIterators /\ hist \in Histories /\ buffer \in Vector /\ calls \in Nat
      /\ iter \in 0 .. MaxIter
  BY DEF TypeInv, TypeOK
<1>2. CASE BeginStep
  <2>1. /\ ti' \in TimeIterators /\ ti'.dt > 0
        /\ past' \in Seq(Times) /\ Len(past') = ti'.n + 1
    BY <1>2, BeginStepFacts
  <2>2. iter' \in 0 .. MaxIter
    BY <1>2 DEF BeginStep
  <2>3. QED
    BY <1>2, <2>1, <2>2 DEF BeginStep, TypeInv, TypeOK
<1>3. CASE InitTimeAdvance
  <2>1. BufferAtInit \in Vector
    BY <1>1 DEF BufferAtInit, Vector
  <2>2. hist' \in Histories /\ buffer' \in Vector
    BY <1>1, <1>3, <2>1, PredictedType DEF InitTimeAdvance
  <2>3. QED
    BY <1>1, <1>3, <2>2 DEF InitTimeAdvance, TypeInv, TypeOK
<1>4. CASE Solve
  <2>1. hist[1] \in Vector /\ ti.dt \in Int
    BY <1>1, HistoryTypes DEF TimeIterators
  <2>2. Solution \in Vector
    BY <2>1 DEF Solution, Vector
  <2>3. hist' \in Histories
    BY <1>1, <1>4, <2>2, HistoryTypes DEF Solve
  <2>4. iter' \in 0 .. MaxIter
    BY <1>1, <1>4 DEF Solve
  <2>5. QED
    BY <1>4, <2>3, <2>4 DEF Solve, TypeInv, TypeOK
<1>5. CASE FinishTimeAdvance
  BY <1>5 DEF FinishTimeAdvance, TypeInv, TypeOK
<1>6. CASE RefineMesh
  BY <1>6 DEF RefineMesh, TypeInv, TypeOK, Vector
<1>7. CASE Save
  <2>1. snap' \in Snapshots /\ Len(snap'.past) = snap'.ti.n + 1
    BY <1>7, SnapshotType DEF Save, TypeInv
  <2>2. QED
    BY <1>7, <2>1 DEF Save, TypeInv, TypeOK
<1>8. CASE Stop
  BY <1>8 DEF Stop, TypeInv, TypeOK
<1>9. CASE Restart
  <2>1. snap \in Snapshots /\ Len(snap.past) = snap.ti.n + 1
    BY DEF TypeInv, TypeOK
  <2>2. ti' \in TimeIterators /\ ti'.dt > 0 /\ ti'.n = snap.ti.n
    BY <1>9, <2>1, ResetFacts DEF Restart, LoadArchived, Snapshots, TimeIterators
  <2>3. hist' \in Histories /\ past' \in Seq(Times) /\ Len(past') = ti'.n + 1
    BY <1>9, <2>1, <2>2 DEF Restart, Snapshots
  <2>4. iter' \in 0 .. MaxIter
    BY <1>9 DEF Restart
  <2>5. QED
    BY <1>9, <2>2, <2>3, <2>4 DEF Restart, TypeInv, TypeOK, Vector
<1>10. CASE UNCHANGED vars
  BY <1>10 DEF vars, TypeInv, TypeOK
<1>11. QED
  BY <1>2, <1>3, <1>4, <1>5, <1>6, <1>7, <1>8, <1>9, <1>10 DEF Next

LEMMA TypeInit == Init => TypeInv
<1>1. ASSUME Init PROVE TypeInv
  <2>1. ti = Reset /\ hist = InitialHistory /\ past = <<StartTime>> /\ snap = Snapshot
    BY <1>1 DEF Init
  <2>2. /\ ti \in TimeIterators /\ ti.dt > 0 /\ ti.n = 0
    BY <2>1, ResetFacts
  <2>3. past \in Seq(Times) /\ Len(past) = ti.n + 1
    BY <2>1, <2>2 DEF Times
  <2>4. hist \in Histories
    BY <2>1, InitialType
  <2>5. snap \in Snapshots /\ Len(snap.past) = snap.ti.n + 1
    BY <2>1, <2>2, <2>3, <2>4 DEF Snapshot, Snapshots, Archived, TimeIterators
  <2>6. iter \in 0 .. MaxIter /\ calls \in Nat /\ buffer \in Vector
    BY <1>1 DEF Init, Vector
  <2>7. QED
    BY <1>1, <2>2, <2>3, <2>4, <2>5, <2>6 DEF Init, TypeInv, TypeOK
<1>2. QED
  BY <1>1

(* Every variable keeps its type, for every predictor.                     *)
THEOREM TypeCorrect == Spec => []TypeOK
<1>1. Spec => []TypeInv
  BY TypeInit, TypeStep, PTL DEF Spec
<1>2. TypeInv => TypeOK
  BY DEF TypeInv
<1>3. QED
  BY <1>1, <1>2, PTL

-----------------------------------------------------------------------------
(* The clock of the steps.                                                 *)
StepClock ==
  /\ past[ti.n + 1] = ti.t
  /\ snap.past[snap.ti.n + 1] = snap.ti.t
  /\ pc = "couple" => /\ ti.n >= 1
                      /\ past[ti.n] + ti.dt = ti.t
                      /\ ti.n >= 2 => ti.oldDt = ti.dt

(* The flag is set in a step only, and before its first solve.             *)
Protocol ==
  /\ pc = "end" => ~ready
  /\ pc = "couple" /\ ~ready => iter = 0

(* From index i0 on, h holds the fields of step n and of the steps before. *)
InOrder(h, p, n, i0) == \A i \in i0 .. Size - 1 : i <= n => h[i] = p[n + 1 - i]

(* The fields at each place of the protocol: between steps and after a     *)
(* solve all of them are in order; before the step is initialised they are *)
(* those of the step before; after that, the old ones are in order.        *)
History ==
  /\ InOrder(snap.hist, snap.past, snap.ti.n, 0)
  /\ pc = "end" \/ (pc = "couple" /\ iter > 0) => InOrder(hist, past, ti.n, 0)
  /\ pc = "couple" /\ ~ready => InOrder(hist, past, ti.n - 1, 0)
  /\ pc = "couple" /\ ready => InOrder(hist, past, ti.n, 1)

(* Under linear extrapolation the guess goes on as the last step did.      *)
Extrapolated ==
  pc = "couple" /\ ready /\ iter = 0 /\ ti.n >= 2 =>
    hist[0] = past[ti.n] + (past[ti.n] - past[ti.n - 1])

LEMMA ClockInit == Init => StepClock /\ Protocol /\ History /\ Extrapolated
<1>1. ASSUME Init PROVE StepClock /\ Protocol /\ History /\ Extrapolated
  <2>1. /\ ti = Reset /\ hist = InitialHistory /\ past = <<StartTime>> /\ snap = Snapshot
    BY <1>1 DEF Init
  <2>2. pc = "end" /\ ready = FALSE
    BY <1>1 DEF Init
  <2>3. ti.n = 0 /\ ti.t = StartTime
    BY <2>1, ResetFacts
  <2>4. past[ti.n + 1] = ti.t
    BY <2>1, <2>3
  <2>5. hist[0] = StartTime
    BY <2>1, SizeFacts DEF InitialHistory
  <2>6. InOrder(hist, past, ti.n, 0)
    <3>1. ASSUME NEW i \in 0 .. Size - 1, i <= 0 PROVE hist[i] = past[0 + 1 - i]
      <4>1. i = 0
        BY <3>1
      <4>2. QED
        BY <2>3, <2>4, <2>5, <4>1
    <3>2. QED
      BY <2>3, <3>1 DEF InOrder
  <2>7. snap.hist = hist /\ snap.past = past /\ snap.ti.n = ti.n /\ snap.ti.t = ti.t
    BY <2>1 DEF Snapshot, Archived
  <2>8. QED
    BY <2>2, <2>4, <2>6, <2>7 DEF StepClock, Protocol, History, Extrapolated
<1>2. QED
  BY <1>1

LEMMA ClockStep == TypeInv /\ StepClock /\ [Next]_vars => StepClock'
<1> SUFFICES ASSUME TypeInv, StepClock, [Next]_vars PROVE StepClock'
  OBVIOUS
<1>1. CASE BeginStep
  <2>1. /\ ti'.dt > 0 /\ ti'.dt \in Nat
        /\ ti'.n = ti.n + 1 /\ ti'.t = ti.t + ti'.dt
        /\ ti'.n >= 2 => ti'.oldDt = ti'.dt
        /\ past'[ti'.n + 1] = ti'.t
        /\ ti.n \in Nat /\ ti.t \in Nat
        /\ \A k \in 1 .. ti.n + 1 : past'[k] = past[k]
    BY <1>1, BeginStepFacts
  <2>2. past'[ti'.n] = ti.t
    BY <2>1 DEF StepClock
  <2>3. UNCHANGED snap
    BY <1>1 DEF BeginStep
  <2>4. QED
    BY <2>1, <2>2, <2>3 DEF StepClock
<1>2. CASE InitTimeAdvance
  BY <1>2 DEF InitTimeAdvance, StepClock
<1>3. CASE Solve
  BY <1>3 DEF Solve, StepClock
<1>4. CASE FinishTimeAdvance
  BY <1>4 DEF FinishTimeAdvance, StepClock
<1>5. CASE RefineMesh
  BY <1>5 DEF RefineMesh, StepClock
<1>6. CASE Save
  BY <1>6 DEF Save, Snapshot, Archived, StepClock
<1>7. CASE Stop
  BY <1>7 DEF Stop, StepClock
<1>8. CASE Restart
  <2>1. ti'.n = snap.ti.n /\ ti'.t = snap.ti.t
    BY <1>8 DEF Restart, LoadArchived
  <2>2. past' = snap.past /\ pc' = "end" /\ snap' = snap
    BY <1>8 DEF Restart
  <2>3. QED
    BY <2>1, <2>2 DEF StepClock
<1>9. CASE UNCHANGED vars
  BY <1>9 DEF vars, StepClock
<1>10. QED
  BY <1>1, <1>2, <1>3, <1>4, <1>5, <1>6, <1>7, <1>8, <1>9 DEF Next

LEMMA ProtocolStep == TypeInv /\ Protocol /\ [Next]_vars => Protocol'
<1> SUFFICES ASSUME TypeInv, Protocol, [Next]_vars PROVE Protocol'
  OBVIOUS
<1>1. iter \in 0 .. MaxIter
  BY DEF TypeInv, TypeOK
<1>2. QED
  BY <1>1 DEF Protocol, Next, BeginStep, InitTimeAdvance, Solve, FinishTimeAdvance,
     RefineMesh, Save, Stop, Restart, vars

(* Without the projection the prediction is a commit and a new guess.      *)
LEMMA InitFacts ==
  ASSUME Type # "least_squares_projection", TypeInv, InitTimeAdvance
  PROVE /\ hist'[0] = Guess(hist)
        /\ \A i \in 1 .. Size - 1 : hist'[i] = hist[i - 1]
<1>1. hist' = [Committed(hist) EXCEPT ![0] = Guess(hist)]
  BY DEF InitTimeAdvance, Predicted, SwapFirst
<1>2. /\ 0 \in 0 .. Size - 1
      /\ \A i \in 1 .. Size - 1 : i \in 0 .. Size - 1 /\ i # 0
  BY SizeFacts
<1>3. QED
  BY <1>1, <1>2 DEF Committed

(* The steps before the one under way are times.                           *)
LEMMA PastTypes ==
  ASSUME TypeInv
  PROVE ti.n \in Nat /\ ti.t \in Nat /\ ti.dt \in Nat
        /\ \A k \in 1 .. ti.n + 1 : past[k] \in Int
<1>1. ti \in TimeIterators /\ past \in Seq(Times) /\ Len(past) = ti.n + 1
  BY DEF TypeInv, TypeOK
<1>2. ti.n \in Nat /\ ti.t \in Nat /\ ti.dt \in Nat
  BY <1>1 DEF TimeIterators, Times
<1>3. \A k \in 1 .. ti.n + 1 : past[k] \in Times
  BY <1>1
<1>4. QED
  BY <1>2, <1>3 DEF Times

(* A solve finds the field of the new time.                                *)
LEMMA SolveFacts ==
  ASSUME TypeInv, StepClock, History, Solve
  PROVE /\ hist'[0] = ti.t
        /\ \A i \in 1 .. Size - 1 : hist'[i] = hist[i]
<1>1. pc = "couple" /\ ready /\ hist' = [hist EXCEPT ![0] = Solution] /\ hist \in Histories
  BY DEF Solve, TypeInv, TypeOK
<1>2. ti.n >= 1 /\ past[ti.n] + ti.dt = ti.t
  BY <1>1 DEF StepClock
<1>3. ti.n \in Nat /\ past[ti.n] \in Int
  BY <1>2, PastTypes
<1>4. hist[1] = past[ti.n]
  <2>1. 1 \in 1 .. Size - 1 /\ 1 <= ti.n /\ ti.n + 1 - 1 = ti.n
    BY <1>2, <1>3, SizeFacts
  <2>2. InOrder(hist, past, ti.n, 1)
    BY <1>1 DEF History
  <2>3. hist[1] = past[ti.n + 1 - 1]
    BY <2>1, <2>2 DEF InOrder
  <2>4. QED
    BY <2>1, <2>3
<1>5. Solution = ti.t
  BY <1>2, <1>3, <1>4 DEF Solution
<1>6. QED
  BY <1>1, <1>5, SizeFacts DEF Histories

LEMMA HistoryStep ==
  ASSUME Type # "least_squares_projection"
  PROVE TypeInv /\ StepClock /\ Protocol /\ History /\ [Next]_vars => History'
<1> SUFFICES ASSUME TypeInv, StepClock, Protocol, History, [Next]_vars PROVE History'
  OBVIOUS
<1>1. ti.n \in Nat /\ Size \in Nat /\ Size >= 2
  BY PastTypes, SizeFacts
<1>2. CASE BeginStep
  <2>1. /\ ti'.n = ti.n + 1
        /\ \A k \in 1 .. ti.n + 1 : past'[k] = past[k]
    BY <1>2, BeginStepFacts
  <2>2. /\ pc = "end" /\ pc' = "couple" /\ iter' = 0
        /\ UNCHANGED <<hist, snap, ready>>
    BY <1>2 DEF BeginStep
  <2>3. InOrder(hist, past, ti.n, 0)
    BY <2>2 DEF History
  <2>4. InOrder(hist, past', ti'.n - 1, 0)
    <3>1. ti'.n - 1 = ti.n
      BY <1>1, <2>1
    <3>2. ASSUME NEW i \in 0 .. Size - 1, i <= ti.n PROVE hist[i] = past'[ti.n + 1 - i]
      <4>1. ti.n + 1 - i \in 1 .. ti.n + 1
        BY <1>1, <3>2
      <4>2. QED
        BY <2>1, <2>3, <3>2, <4>1 DEF InOrder
    <3>3. QED
      BY <3>1, <3>2 DEF InOrder
  <2>5. ~ready
    BY <2>2 DEF Protocol
  <2>6. QED
    BY <2>2, <2>4, <2>5 DEF History
<1>3. CASE InitTimeAdvance
  <2>1. /\ pc = "couple" /\ ~ready /\ iter = 0 /\ ready'
        /\ UNCHANGED <<ti, past, pc, iter, snap>>
    BY <1>3 DEF InitTimeAdvance, Protocol
  <2>2. InOrder(hist, past, ti.n - 1, 0)
    BY <2>1 DEF History
  <2>3. ASSUME NEW i \in 1 .. Size - 1, i <= ti.n PROVE hist'[i] = past[ti.n + 1 - i]
    <3>1. i - 1 \in 0 .. Size - 1 /\ i - 1 <= ti.n - 1 /\ ti.n - 1 + 1 - (i - 1) = ti.n + 1 - i
      BY <1>1, <2>3
    <3>2. hist[i - 1] = past[ti.n - 1 + 1 - (i - 1)]
      BY <2>2, <3>1 DEF InOrder
    <3>3. QED
      BY <1>3, <3>1, <3>2, InitFacts
  <2>4. QED
    BY <2>1, <2>3 DEF History, InOrder
<1>4. CASE Solve
  <2>1. /\ pc = "couple" /\ ready
        /\ UNCHANGED <<ti, past, pc, ready, snap>>
    BY <1>4 DEF Solve
  <2>2. InOrder(hist, past, ti.n, 1) /\ past[ti.n + 1] = ti.t
    BY <2>1 DEF History, StepClock
  <2>3. ASSUME NEW i \in 0 .. Size - 1, i <= ti.n PROVE hist'[i] = past[ti.n + 1 - i]
    <3>1. CASE i = 0
      BY <1>1, <1>4, <2>2, <3>1, SolveFacts
    <3>2. CASE i # 0
      <4>1. i \in 1 .. Size - 1
        BY <1>1, <3>2
      <4>2. QED
        BY <1>4, <2>2, <2>3, <4>1, SolveFacts DEF InOrder
    <3>3. QED
      BY <3>1, <3>2
  <2>4. ASSUME NEW i \in 1 .. Size - 1 PROVE i \in 0 .. Size - 1
    OBVIOUS
  <2>5. QED
    BY <2>1, <2>3, <2>4 DEF History, InOrder
<1>5. CASE FinishTimeAdvance
  BY <1>5 DEF FinishTimeAdvance, History
<1>6. CASE RefineMesh
  BY <1>6 DEF RefineMesh, History
<1>7. CASE Save
  BY <1>7 DEF Save, Snapshot, Archived, History
<1>8. CASE Stop
  BY <1>8 DEF Stop, History
<1>9. CASE Restart
  <2>1. ti'.n = snap.ti.n
    BY <1>9 DEF Restart, LoadArchived
  <2>2. hist' = snap.hist /\ past' = snap.past /\ pc' = "end" /\ snap' = snap
    BY <1>9 DEF Restart
  <2>3. QED
    BY <2>1, <2>2 DEF History
<1>10. CASE UNCHANGED vars
  BY <1>10 DEF vars, History
<1>11. QED
  BY <1>2, <1>3, <1>4, <1>5, <1>6, <1>7, <1>8, <1>9, <1>10 DEF Next

LEMMA HistoryInvariant ==
  ASSUME Type # "least_squares_projection"
  PROVE Spec => [](TypeInv /\ StepClock /\ Protocol /\ History)
BY TypeInit, ClockInit, TypeStep, ClockStep, ProtocolStep, HistoryStep, PTL DEF Spec

(* After every solve of a step and between the steps the current solution  *)
(* is the field of the current time, for every predictor that commits the  *)
(* history as it is.                                                       *)
THEOREM FieldStaysOnTime ==
  ASSUME Type # "least_squares_projection"
  PROVE Spec => []FieldOnTime
<1>1. TypeInv /\ StepClock /\ History => FieldOnTime
  <2>1. ASSUME TypeInv, StepClock, History, pc = "end" \/ (pc = "couple" /\ iter > 0)
        PROVE hist[0] = ti.t
    <3>1. 0 \in 0 .. Size - 1 /\ 0 <= ti.n /\ ti.n + 1 - 0 = ti.n + 1
      BY <2>1, PastTypes, SizeFacts
    <3>2. hist[0] = past[ti.n + 1 - 0]
      BY <2>1, <3>1 DEF History, InOrder
    <3>3. QED
      BY <2>1, <3>1, <3>2 DEF StepClock
  <2>2. QED
    BY <2>1 DEF FieldOnTime
<1>2. QED
  BY <1>1, HistoryInvariant, PTL

(* The old solutions a solve, a refinement, a save or the next predictor   *)
(* finds are those of the steps before, in order, for the same predictors. *)
THEOREM HistoryStaysInOrder ==
  ASSUME Type # "least_squares_projection"
  PROVE Spec => []HistoryInOrder
<1>1. TypeInv /\ History => HistoryInOrder
  <2>1. ASSUME TypeInv, History, pc = "end" \/ (pc = "couple" /\ ready),
               NEW i \in 1 .. Size - 1, i <= ti.n
        PROVE hist[i] = past[ti.n + 1 - i]
    <3>1. i \in 0 .. Size - 1
      BY SizeFacts
    <3>2. QED
      BY <2>1, <3>1 DEF History, InOrder
  <2>2. QED
    BY <2>1 DEF HistoryInOrder
<1>2. QED
  BY <1>1, HistoryInvariant, PTL

LEMMA ExtrapolatedStep ==
  ASSUME Type = "linear_extrapolation"
  PROVE TypeInv /\ StepClock /\ Protocol /\ History /\ Extrapolated /\ [Next]_vars
          => Extrapolated'
<1> SUFFICES ASSUME TypeInv, StepClock, Protocol, History, Extrapolated, [Next]_vars
             PROVE Extrapolated'
  OBVIOUS
<1>1. CASE BeginStep
  <2>1. ~ready'
    BY <1>1 DEF BeginStep, Protocol
  <2>2. QED
    BY <2>1 DEF Extrapolated
<1>2. CASE InitTimeAdvance
  <2>1. /\ pc = "couple" /\ ~ready
        /\ UNCHANGED <<ti, past>>
    BY <1>2 DEF InitTimeAdvance
  <2>2. ASSUME ti.n >= 2 PROVE hist'[0] = past[ti.n] + (past[ti.n] - past[ti.n - 1])
    <3>1. ti.n \in Nat /\ ti.dt \in Nat /\ ti.dt > 0
      BY PastTypes DEF TypeInv
    <3>2. past[ti.n] \in Int /\ past[ti.n - 1] \in Int
      BY <2>2, <3>1, PastTypes
    <3>3. ti.oldDt = ti.dt
      BY <2>1, <2>2 DEF StepClock
    <3>4. hist[0] = past[ti.n] /\ hist[1] = past[ti.n - 1]
      <4>1. /\ 0 \in 0 .. Size - 1 /\ 0 <= ti.n - 1 /\ ti.n - 1 + 1 - 0 = ti.n
            /\ 1 \in 0 .. Size - 1 /\ 1 <= ti.n - 1 /\ ti.n - 1 + 1 - 1 = ti.n - 1
        BY <2>2, <3>1, SizeFacts
      <4>2. InOrder(hist, past, ti.n - 1, 0)
        BY <2>1 DEF History
      <4>3. hist[0] = past[ti.n - 1 + 1 - 0] /\ hist[1] = past[ti.n - 1 + 1 - 1]
        BY <4>1, <4>2 DEF InOrder
      <4>4. QED
        BY <4>1, <4>3
    <3> DEFINE d == past[ti.n] - past[ti.n - 1]
    <3>5. d \in Int
      BY <3>2
    <3>6. Blank \notin {hist[0], hist[1]}
      BY <3>2, <3>4
    <3>7. ti.oldDt # 0
      BY <3>1, <3>3
    <3>8. LinearPredictor(hist) = past[ti.n] + (ti.dt * d) \div ti.dt
      BY <3>3, <3>4, <3>6, <3>7 DEF LinearPredictor
    <3> HIDE DEF d
    <3>9. LinearPredictor(hist) = past[ti.n] + d
      BY <3>1, <3>5, <3>8, Quotient
    <3>10. hist'[0] = LinearPredictor(hist)
      BY <1>2, InitFacts DEF Guess
    <3>11. QED
      BY <3>9, <3>10 DEF d
  <2>3. QED
    BY <2>1, <2>2 DEF Extrapolated
<1>3. CASE Solve
  <2>1. iter' # 0
    <3>1. iter \in 0 .. MaxIter
      BY DEF TypeInv, TypeOK
    <3>2. QED
      BY <1>3, <3>1 DEF Solve
  <2>2. QED
    BY <2>1 DEF Extrapolated
<1>4. CASE FinishTimeAdvance \/ Stop \/ Restart
  <2>1. pc' # "couple"
    BY <1>4 DEF FinishTimeAdvance, Stop, Restart
  <2>2. QED
    BY <2>1 DEF Extrapolated
<1>5. CASE RefineMesh
  BY <1>5 DEF RefineMesh, Extrapolated
<1>6. CASE Save
  BY <1>6 DEF Save, Extrapolated
<1>7. CASE UNCHANGED vars
  BY <1>7 DEF vars, Extrapolated
<1>8. QED
  BY <1>1, <1>2, <1>3, <1>4, <1>5, <1>6, <1>7 DEF Next

(* Under linear extrapolation the first guess of a step is the field at    *)
(* the new time, if the field is linear in time and the step as long as    *)
(* the last one, also right after a refinement or a restart.               *)
THEOREM GuessStaysOnTime ==
  ASSUME Type = "linear_extrapolation"
  PROVE Spec => []GuessOnTime
<1>1. TypeInv /\ StepClock /\ Extrapolated => GuessOnTime
  <2>1. ASSUME TypeInv, StepClock, Extrapolated,
               pc = "couple", ready, iter = 0, EqualSteps
        PROVE hist[0] = ti.t
    <3>1. /\ ti.n >= 2
          /\ past[ti.n + 1] - past[ti.n] = past[ti.n] - past[ti.n - 1]
      BY <2>1 DEF EqualSteps
    <3>2. /\ ti.n \in Nat
          /\ past[ti.n + 1] \in Int /\ past[ti.n] \in Int /\ past[ti.n - 1] \in Int
      BY <2>1, <3>1, PastTypes
    <3>3. hist[0] = past[ti.n] + (past[ti.n] - past[ti.n - 1])
      BY <2>1, <3>1 DEF Extrapolated
    <3>4. past[ti.n + 1] = ti.t
      BY <2>1 DEF StepClock
    <3>5. QED
      BY <3>1, <3>2, <3>3, <3>4
  <2>2. QED
    BY <2>1 DEF GuessOnTime
<1>2. Type # "least_squares_projection"
  OBVIOUS
<1>3. TypeInv /\ StepClock /\ Protocol /\ History /\ [Next]_vars => History'
  BY <1>2, HistoryStep
<1>4. QED
  BY <1>1, <1>3, TypeInit, ClockInit, TypeStep, ClockStep, ProtocolStep,
     ExtrapolatedStep, PTL DEF Spec
=============================================================================

---------------------------- MODULE FieldHistory ----------------------------
(***************************************************************************)
(* One solved field over the steps of a job: SolutionHistory, the          *)
(* Predictor, and the protocol init_time_advance() / solve(false) ... /    *)
(* finish_time_advance() by which the time loop and the coupling           *)
(* iterations drive an operation; mesh refinement and restart act on the   *)
(* same vectors.  A vector is represented by the time level it is the      *)
(* field of (the field of a linear problem evolves linearly in time), or   *)
(* Blank if it was zeroed or computed from zeroed vectors.                 *)
(*                                                                         *)
(* Code: time_integration/solution_history.hpp, linear_algebra/            *)
(* predictor.hpp, heat_diffuse_operation.cpp, advection_diffusion_         *)
(* operation.cpp.                                                          *)
(***************************************************************************)
EXTENDS TimeIterator, Sequences

CONSTANTS
  Kinds,       (* of "heat" and "advection": whose history it may be        *)
  Type,        (* PredictorType                                             *)
  NOld,        (* "predictor: n old solutions" after PredictorData::post()  *)
  MaxIter,     (* "n max iter" of the coupling loop around solve(false)     *)
  Blank        (* a vector of zeros                                         *)

ASSUME HistoryAssumption ==
  /\ Kinds \subseteq {"heat", "advection"}
  /\ Type \in {"none", "zero", "linear_extrapolation", "least_squares_projection"}
  /\ NOld \in Nat \ {0}
  /\ MaxIter \in Nat \ {0}
  /\ Blank \notin Int

VARIABLES
  kind,    (* the operation, chosen by the parameters of the job            *)
  ti,      (* the time iterator the operation refers to                     *)
  hist,    (* solution_history: 0 is the current solution, 1 the recent old *)
  buffer,  (* the vector the predictor writes to                            *)
  calls,   (* Predictor::n_calls                                            *)
  ready,   (* ready_for_time_advance                                        *)
  iter,    (* solves done in this step                                      *)
  pc,      (* "end" (between steps), "couple" (in a step), "down"           *)
  past,    (* history: past[k + 1] is the time of step k                    *)
  snap     (* restart data of the newest save                               *)

vars == <<kind, ti, hist, buffer, calls, ready, iter, pc, past, snap>>

(* As long as the predictor wants it, with the old solution in any case.   *)
Size == Max({NOld, 2})
Vector == Int \cup {Blank}
Histories == [0 .. Size - 1 -> Vector]

(* set_initial_condition(): only the advected field is written to the old  *)
(* solution as well.                                                       *)
InitialHistory ==
  [i \in 0 .. Size - 1 |->
     IF i = 0 \/ (i = 1 /\ kind = "advection") THEN StartTime ELSE Blank]

Snapshot == [ti |-> Archived(ti), hist |-> hist, past |-> past]

Snapshots == [ti : [n : 0 .. MaxNSteps, t : Times, oldT : Times, oldDt : Nat],
              hist : Histories, past : Seq(Times)]

Init ==
  /\ kind \in Kinds
  /\ ti = Reset
  /\ hist = InitialHistory
  /\ buffer = Blank
  /\ calls = 0
  /\ ready = FALSE
  /\ iter = 0
  /\ pc = "end"
  /\ past = <<StartTime>>
  /\ snap = Snapshot

-----------------------------------------------------------------------------
(* commit_old_solutions()                                                  *)
Committed(h) == [i \in 0 .. Size - 1 |-> IF i = 0 THEN h[0] ELSE h[i - 1]]

(* compute_linear_predictor(): q_n + dt_n+1 / dt_n (q_n - q_n-1), or q_n   *)
(* as long as there is no old increment.                                   *)
LinearPredictor(h) ==
  IF ti.oldDt = 0 THEN h[0]
  ELSE IF Blank \in {h[0], h[1]} THEN Blank
  ELSE h[0] + (ti.dt * (h[0] - h[1])) \div ti.oldDt

(* Predictor::vmult() fills the buffer, commits the history and swaps the  *)
(* buffer with the current solution.  The projection itself is taken to    *)
(* find the new field in the span of the old ones; before it is used, the  *)
(* buffer is swapped with the current solution first.                      *)
Guess(h) ==
  CASE Type = "none" -> h[0]
    [] Type = "zero" -> Blank
    [] Type = "linear_extrapolation" -> LinearPredictor(h)
    [] OTHER -> ti.t

SwapFirst == Type = "least_squares_projection" /\ calls < NOld

(* [hist, buffer] after the predictor was applied to history h and buffer b *)
Predicted(h, b) ==
  IF SwapFirst
    THEN [hist   |-> [Committed([h EXCEPT ![0] = b]) EXCEPT ![0] = h[0]],
          buffer |-> b]
    ELSE [hist   |-> [Committed(h) EXCEPT ![0] = Guess(h)],
          buffer |-> h[0]]

(* The heat operation initialises the buffer anew in every step.           *)
BufferAtInit == IF kind = "heat" THEN Blank ELSE buffer

(* Mutated: the step is extrapolated before it is committed.               *)
InitWithoutCommit ==
  /\ pc = "couple"
  /\ ~ready
  /\ hist' = [hist EXCEPT ![0] = Guess(hist)]
  /\ UNCHANGED buffer
  /\ calls' = calls + 1
  /\ ready' = TRUE
  /\ UNCHANGED <<kind, ti, iter, pc, past, snap>>

(* init_time_advance(), called by the application ("do extrapolate         *)
(* coupling terms") or by the first solve() of the step.                   *)
InitTimeAdvance ==
  /\ pc = "couple"
  /\ ~ready
  /\ LET p == Predicted(hist, BufferAtInit) IN
       /\ hist' = p.hist
       /\ buffer' = p.buffer
  /\ calls' = calls + 1
  /\ ready' = TRUE
  /\ UNCHANGED <<kind, ti, iter, pc, past, snap>>

-----------------------------------------------------------------------------
BeginStep ==
  /\ pc = "end"
  /\ ~IsFinished(ti)
  /\ ti' = ComputeNextTimeIncrement(ti)
  /\ past' = Append(past, ti'.t)
  /\ iter' = 0
  /\ pc' = "couple"
  /\ UNCHANGED <<kind, hist, buffer, calls, ready, snap>>

(* The converged solution: one step from the recent old solution.          *)
Solution == IF hist[1] = Blank THEN Blank ELSE hist[1] + ti.dt

(* Mutated: every solve() ends the step, as the cut operation's does.      *)
SolveEndsStep ==
  /\ pc = "couple"
  /\ ready
  /\ iter < MaxIter
  /\ hist' = [hist EXCEPT ![0] = Solution]
  /\ iter' = iter + 1
  /\ ready' = FALSE
  /\ UNCHANGED <<kind, ti, buffer, calls, pc, past, snap>>

(* solve(false), once per coupling iteration.                              *)
Solve ==
  /\ pc = "couple"
  /\ ready
  /\ iter < MaxIter
  /\ hist' = [hist EXCEPT ![0] = Solution]
  /\ iter' = iter + 1
  /\ UNCHANGED <<kind, ti, buffer, calls, ready, pc, past, snap>>

(* The coupling loop ends at its limit or earlier, when the field changes  *)
(* no more.                                                                *)
FinishTimeAdvance ==
  /\ pc = "couple"
  /\ iter > 0
  /\ ready' = FALSE
  /\ pc' = "end"
  /\ UNCHANGED <<kind, ti, hist, buffer, calls, iter, past, snap>>

(* Mutated: only the current solution is attached.                         *)
RefineMeshCurrentOnly ==
  /\ pc = "end"
  /\ hist' = [i \in 0 .. Size - 1 |-> IF i = 0 THEN hist[0] ELSE Blank]
  /\ buffer' = Blank
  /\ UNCHANGED <<kind, ti, calls, ready, iter, pc, past, snap>>

(* refine_mesh(): reinit() zeroes all vectors; those of the history were   *)
(* attached and are interpolated to the new mesh.                          *)
RefineMesh ==
  /\ pc = "end"
  /\ buffer' = Blank
  /\ UNCHANGED <<kind, ti, hist, calls, ready, iter, pc, past, snap>>

Save ==
  /\ pc = "end"
  /\ snap' = Snapshot
  /\ UNCHANGED <<kind, ti, hist, buffer, calls, ready, iter, pc, past>>

(* The solver does not converge, or the job is killed.                     *)
Stop ==
  /\ pc \in {"couple", "end"}
  /\ pc' = "down"
  /\ UNCHANGED <<kind, ti, hist, buffer, calls, ready, iter, past, snap>>

(* The next job loads the vectors; predictor and flag are new objects.     *)
Restart ==
  /\ pc = "down"
  /\ ti' = LoadArchived(Reset, snap.ti)
  /\ hist' = snap.hist
  /\ past' = snap.past
  /\ buffer' = Blank
  /\ calls' = 0
  /\ ready' = FALSE
  /\ iter' = 0
  /\ pc' = "end"
  /\ UNCHANGED <<kind, snap>>

Next ==
  \/ BeginStep
  \/ InitTimeAdvance
  \/ Solve
  \/ FinishTimeAdvance
  \/ RefineMesh
  \/ Save
  \/ Stop
  \/ Restart

Spec == Init /\ [][Next]_vars

-----------------------------------------------------------------------------
(* Types; the number of predictions matches the protocol.                  *)
TypeOK ==
  /\ kind \in Kinds
  /\ ti \in TimeIterators
  /\ hist \in Histories
  /\ buffer \in Vector
  /\ calls \in Nat
  /\ ready \in BOOLEAN
  /\ iter \in 0 .. MaxIter
  /\ pc \in {"end", "couple", "down"}
  /\ past \in Seq(Times)
  /\ Len(past) = ti.n + 1
  /\ snap \in Snapshots
  /\ Len(snap.past) = snap.ti.n + 1
  /\ ready /\ pc # "down" => pc = "couple"

(* After every solve of a step, the first as well as the last of the       *)
(* coupling iterations, and between the steps, the current solution is the *)
(* field of the time iterator's current time: no iteration, refinement or  *)
(* restart makes the field fall behind or run ahead of the clock           *)
(* (ready_for_time_advance in heat_diffuse_operation.cpp and               *)
(* advection_diffusion_operation.cpp).                                     *)
FieldOnTime ==
  pc = "end" \/ (pc = "couple" /\ iter > 0) => hist[0] = ti.t

(* The old solutions a solve, a refinement, a save or the next predictor   *)
(* finds are those of the steps before, in order (solution_history.hpp:    *)
(* "the number is increasing with the age of the solution").               *)
HistoryInOrder ==
  pc = "end" \/ (pc = "couple" /\ ready) =>
    \A i \in 1 .. Size - 1 : i <= ti.n => hist[i] = past[ti.n + 1 - i]

(* predictor_linear.hpp: "q_n + dt_n+1 / dt_n (q_n - q_n-1)" is the field  *)
(* at the new time, if the field is linear in time; the code finds it as   *)
(* long as the step size stays the same, also in the first step after a    *)
(* restart and after a refinement.                                         *)
EqualSteps ==
  ti.n >= 2 /\ past[ti.n + 1] - past[ti.n] = past[ti.n] - past[ti.n - 1]

GuessOnTime ==
  pc = "couple" /\ ready /\ iter = 0 /\ EqualSteps => hist[0] = ti.t
=============================================================================

---------------------------- MODULE TimeIterator ----------------------------
(***************************************************************************)
(* TimeIntegration::TimeIterator as operations on a record                 *)
(*   [n, t, dt, oldT, oldDt]                                               *)
(* (n_time_steps, current_time, current_time_increment, old_time,          *)
(* old_time_increment).  Time is counted in whole units; the tolerances    *)
(* 1e-16 and epsilon of the code compare for equality.                     *)
(*                                                                         *)
(* Code: source/time_integration/time_iterator.cpp.                        *)
(***************************************************************************)
EXTENDS Integers, FiniteSetsExt

CONSTANTS
  StartTime, EndTime,
  TimeStepSize,         (* parameter "time step size"                       *)
  TimeStepSizeFunction, (* "time step size function" at each time; 0: unset *)
  MaxNSteps             (* parameter "max n steps"                          *)

ASSUME TimeAssumption ==
  /\ StartTime \in Nat
  /\ EndTime \in Nat
  /\ StartTime < EndTime
  /\ TimeStepSize \in Nat \ {0}
  /\ TimeStepSizeFunction \in [StartTime .. EndTime -> Nat]
  /\ MaxNSteps \in Nat

Times == StartTime .. EndTime

TimeIterators ==
  [n : 0 .. MaxNSteps, t : Times, dt : Nat, oldT : Times, oldDt : Nat]

(* reset()                                                                 *)
Reset == [n |-> 0, t |-> StartTime, dt |-> TimeStepSize,
          oldT |-> StartTime, oldDt |-> 0]

(* is_finished()                                                           *)
IsFinished(ti) == ti.n >= MaxNSteps \/ ti.t >= EndTime

(* compute_next_time_increment(): the prescribed function first, then the  *)
(* cut at the end time; the old values are left alone in the first step    *)
(* and otherwise taken after the increment was determined.                 *)
ComputeNextTimeIncrement(ti) ==
  LET f  == TimeStepSizeFunction[ti.t]
      dt == Min({IF f > 0 THEN f ELSE ti.dt, EndTime - ti.t})
  IN [n     |-> ti.n + 1,
      t     |-> ti.t + dt,
      dt    |-> dt,
      oldT  |-> IF ti.n >= 1 THEN ti.t ELSE ti.oldT,
      oldDt |-> IF ti.n >= 1 THEN dt ELSE ti.oldDt]

(* Mutated: an old increment that was never set is taken for one.          *)
SetIncrementFromUnset(ti, value, factor) ==
  [ti EXCEPT !.dt = IF ti.oldDt < value THEN Min({factor * ti.oldDt, value})
                    ELSE Max({ti.oldDt \div factor, value})]

(* set_current_time_increment(value, max_allowed_change_factor): the       *)
(* factor limits the change from old_time_increment, if that was set.      *)
SetCurrentTimeIncrement(ti, value, factor) ==
  [ti EXCEPT !.dt = IF ti.oldDt = 0 THEN value
                    ELSE IF ti.oldDt < value THEN Min({factor * ti.oldDt, value})
                    ELSE Max({ti.oldDt \div factor, value})]

(* serialize(): current_time_increment is not archived, the loading object *)
(* keeps its own.                                                          *)
Archived(ti) == [n |-> ti.n, t |-> ti.t, oldT |-> ti.oldT, oldDt |-> ti.oldDt]

LoadArchived(ti, a) ==
  [n |-> a.n, t |-> a.t, dt |-> ti.dt, oldT |-> a.oldT, oldDt |-> a.oldDt]
=============================================================================

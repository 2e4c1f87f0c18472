--------------------------- MODULE MCSimulationRun ---------------------------
(* SimulationRun with a time step size function that is set for a while.   *)
EXTENDS SimulationRun

MCFunction == [t \in StartTime .. EndTime |-> IF t \in 10 .. 15 THEN 2 ELSE 0]
=============================================================================

--------------------------- MODULE MCMeltPoolStep ---------------------------
(* MeltPoolStep for a few parameter files.                                 *)
EXTENDS MeltPoolStep

(* Local temperature, both coupling iterations.                            *)
Local == [advect |-> TRUE, extrapolate |-> FALSE, interface |-> FALSE,
          sharp |-> FALSE, amr |-> TRUE, gravity |-> TRUE, explicit |-> TRUE,
          ls |-> 2, heat |-> 2]

(* Interface temperature, sharp fluxes, extrapolated coupling terms.       *)
Interface == [advect |-> TRUE, extrapolate |-> TRUE, interface |-> TRUE,
              sharp |-> TRUE, amr |-> TRUE, gravity |-> FALSE, explicit |-> FALSE,
              ls |-> 1, heat |-> 1]

(* The same with iterations instead of extrapolation.                      *)
Iterated == [Interface EXCEPT !.extrapolate = FALSE, !.ls = 2, !.heat = 2]

(* An interface that does not move, with diffuse and with sharp fluxes.    *)
Fixed == [Local EXCEPT !.advect = FALSE]
FixedSharp == [Fixed EXCEPT !.sharp = TRUE, !.heat = 1]

MCCases == {Local, Interface, Iterated, Fixed, [FixedSharp EXCEPT !.amr = FALSE]}
MCFixedSharp == {FixedSharp}
=============================================================================

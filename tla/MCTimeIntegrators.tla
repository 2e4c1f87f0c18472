------------------------- MODULE MCTimeIntegrators -------------------------
(* TimeIntegrators with the schemes and callers that go together; the      *)
(* coefficients of the low storage scheme are rounded to thousandths.      *)
EXTENDS TimeIntegrators, TLC

LSRK1 == [kind |-> "LSRK", order |-> 1, rounding |-> 0, unit |-> 1,
          b |-> <<<<1, 1>>>>, a |-> <<<<0, 1>>>>]
LSRK3 == [kind |-> "LSRK", order |-> 2, rounding |-> 1000, unit |-> 1000,
          b |-> <<<<245, 1000>>, <<185, 1000>>, <<570, 1000>>>>,
          a |-> <<<<756, 1000>>, <<387, 1000>>>>]
SSP1 == [kind |-> "SSP", order |-> 1, rounding |-> 0, unit |-> 1,
         old |-> <<<<1, 1>>>>, stage |-> <<<<0, 1>>>>,
         step |-> <<<<1, 1>>>>, time |-> <<<<0, 1>>>>]
SSP2 == [kind |-> "SSP", order |-> 2, rounding |-> 0, unit |-> 2, old |-> <<<<1, 1>>, <<1, 2>>>>,
         stage |-> <<<<0, 1>>, <<1, 2>>>>, step |-> <<<<1, 1>>, <<1, 2>>>>,
         time |-> <<<<0, 1>>, <<1, 1>>>>]
SSP3 == [kind |-> "SSP", order |-> 3, rounding |-> 0, unit |-> 12,
         old |-> <<<<1, 1>>, <<3, 4>>, <<1, 3>>>>,
         stage |-> <<<<0, 1>>, <<1, 4>>, <<2, 3>>>>, step |-> <<<<1, 1>>, <<1, 4>>, <<2, 3>>>>,
         time |-> <<<<0, 1>>, <<1, 1>>, <<1, 2>>>>]
RKC(s, unit) == [kind |-> "RKC", order |-> 2, rounding |-> 0, unit |-> unit, s |-> s]
Theta(q, order) == [kind |-> "theta", order |-> order, rounding |-> 0, unit |-> 2, theta |-> q]
Imex == [kind |-> "imex", order |-> 1, rounding |-> 0, unit |-> 1]
BDF(k) == [kind |-> "BDF", order |-> 1, rounding |-> 0, unit |-> 1, order_bdf |-> k]

Reads == [advection |-> "velocity", reinit |-> "argument", flow |-> "time"]
Case(caller, scheme) ==
  [caller |-> caller, scheme |-> scheme, reads |-> Reads[caller], diffusion |-> FALSE]
Split(scheme) == [Case("reinit", scheme) EXCEPT !.diffusion = TRUE]
Inflow(scheme) == [Case("advection", scheme) EXCEPT !.reads = "boundary"]

MCCases ==
  {Inflow(Theta(<<0, 1>>, 1)), Inflow(Theta(<<1, 2>>, 2)), Inflow(Theta(<<1, 1>>, 1)),
   Case("advection", Theta(<<1, 2>>, 1)),
   Case("reinit", LSRK3), Split(LSRK3), Case("reinit", RKC(3, 864)), Split(RKC(2, 4)),
   Case("flow", LSRK1), Case("flow", SSP1), Case("flow", SSP2), Case("flow", SSP3),
   Case("flow", RKC(2, 4)), Case("flow", RKC(3, 864)), Case("flow", Imex)}
    \cup {Case("flow", BDF(k)) : k \in 1 .. 6}

\* With Cases <- MCVelocity, VelocityAtArgument is violated: the Crank-Nicolson scheme of the DG
\* advection reads a velocity that changes in time at the new time only.
MCVelocity == {Case("advection", Theta(<<1, 2>>, 1))}

\* With Cases <- MCDiffusion, ChangeOfWholeStep is violated: the change is measured from the diffused
\* solution.
MCDiffusion == {Split([LSRK3 EXCEPT !.order = 1])}

\* With Cases <- MCStages, RhsOnTime is violated: the flow reads the time, and a low storage scheme of
\* several stages hands it that of the stage before.  LandsOnTime is then, too.
MCStages == {Case("flow", LSRK3)}
=============================================================================

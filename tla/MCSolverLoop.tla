---------------------------- MODULE MCSolverLoop ----------------------------
(***************************************************************************)
(* The optimiser with its standard parameters, logarithms to the base 1.6  *)
(* (lambdaFactor) in hundredths, and MAX_ITER of the solver node.          *)
(***************************************************************************)
EXTENDS SolverLoop

MCFactor    == 100        \* 1.6
MCLambdaMax == 4899       \* 1e10
MCLambdaMin == -2939      \* 1e-6
MCSmall     == -2450      \* 1e-5
MCZero      == -1000000
=============================================================================

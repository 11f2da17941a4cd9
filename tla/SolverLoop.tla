----------------------------- MODULE SolverLoop -----------------------------
(***************************************************************************)
(* The outer loop of the trajectory optimiser                              *)
(* (evasive_maneuver/src/iLQG/iLQG.c, function iLQG; built single-threaded)*)
(*                                                                         *)
(* Each iteration differentiates along the current trajectory, runs the    *)
(* backward pass with more and more regularisation until it succeeds, and  *)
(* searches along the direction found.  Whether the numerical parts        *)
(* succeed is left open.  The regularisation lambda and its rate of change *)
(* dlambda are given by their logarithms, so products are sums; lambda may *)
(* also be zero, whose logarithm is Zero, below every other.               *)
(***************************************************************************)
EXTENDS Integers

CONSTANTS
  max_iter,
  lambdaInit, dlambdaInit,    \* logarithms, as are the next four
  lambdaFactor,
  lambdaMin, lambdaMax,
  Small,                      \* 1e-5, below which a small gradient counts
  Zero

ASSUME SolverAssumption ==
  /\ max_iter \in Nat
  /\ lambdaInit \in Int /\ dlambdaInit \in Int
  /\ lambdaFactor \in Nat \ {0}
  /\ lambdaMin \in Int /\ lambdaMax \in Int /\ Small \in Int /\ Zero \in Int
  /\ lambdaMin < Small /\ Small < lambdaMax /\ lambdaInit <= lambdaMax
  /\ Zero < lambdaMin

VARIABLES
  pc,             \* where the loop is: "head", "back", "gradient", "search", "done"
  iter,           \* iter
  lambda,         \* o->lambda
  dlambda,        \* dlambda
  newDeriv,       \* newDeriv
  backPassDone,   \* backPassDone, without a value before the first pass
  result,         \* what the function returns
  exit            \* history: which exit it took

vars == <<pc, iter, lambda, dlambda, newDeriv, backPassDone, result, exit>>

Exit == {"none", "max_iter", "derivatives", "gradient", "direction", "cost", "lambda"}

TypeOK ==
  /\ pc \in {"head", "back", "gradient", "search", "done"}
  /\ iter \in 0 .. max_iter
  /\ lambda \in Int /\ dlambda \in Int
  /\ newDeriv \in BOOLEAN /\ backPassDone \in BOOLEAN /\ result \in BOOLEAN
  /\ exit \in Exit

Init ==
  /\ pc = "head" /\ iter = 0
  /\ lambda = lambdaInit /\ dlambda = dlambdaInit
  /\ newDeriv = TRUE
  /\ backPassDone \in BOOLEAN
  /\ result = FALSE /\ exit = "none"

----------------------------------------------------------------------------
Larger(a, b)  == IF a > b THEN a ELSE b
Smaller(a, b) == IF a < b THEN a ELSE b
Times(l, d)   == IF l = Zero THEN Zero ELSE l + d

\* More regularisation, faster each time, and at least lambdaMin: the floor
\* is what lifts it off zero.  Less, down to zero.
MoreAtSameRate ==
  /\ dlambda' = dlambda
  /\ lambda' = Larger(Times(lambda, dlambda'), lambdaMin)

MoreWithoutFloor ==
  /\ dlambda' = Larger(dlambda + lambdaFactor, lambdaFactor)
  /\ lambda' = Times(lambda, dlambda')

More ==
  /\ dlambda' = Larger(dlambda + lambdaFactor, lambdaFactor)
  /\ lambda' = Larger(Times(lambda, dlambda'), lambdaMin)

Less ==
  /\ dlambda' = Smaller(dlambda - lambdaFactor, -lambdaFactor)
  /\ lambda' = IF lambda > lambdaMin THEN Times(lambda, dlambda') ELSE Zero

\* The function returns: 0 without a direction or after too many iterations.
Return(why) ==
  /\ pc' = "done"
  /\ exit' = why
  /\ result' = (backPassDone /\ iter < max_iter)

----------------------------------------------------------------------------
\* The head of the loop, and the derivatives of a new trajectory.
HeadWithoutLimit ==
  /\ pc = "head"
  /\ newDeriv' = FALSE /\ backPassDone' = FALSE
  /\ pc' = "back"
  /\ UNCHANGED <<iter, lambda, dlambda, result, exit>>

Head ==
  /\ pc = "head" /\ iter < max_iter
  /\ newDeriv' = FALSE /\ backPassDone' = FALSE
  /\ pc' = "back"
  /\ UNCHANGED <<iter, lambda, dlambda, result, exit>>

DerivativesFail ==
  /\ pc = "head" /\ iter < max_iter /\ newDeriv
  /\ Return("derivatives")
  /\ UNCHANGED <<iter, lambda, dlambda, newDeriv, backPassDone>>

TooManyIterations ==
  /\ pc = "head" /\ iter >= max_iter
  /\ Return("max_iter")
  /\ UNCHANGED <<iter, lambda, dlambda, newDeriv, backPassDone>>

\* One backward pass.
BackPassFails ==
  /\ pc = "back"
  /\ More
  /\ pc' = IF lambda' > lambdaMax THEN "gradient" ELSE "back"
  /\ UNCHANGED <<iter, newDeriv, backPassDone, result, exit>>

BackPassSucceeds ==
  /\ pc = "back"
  /\ backPassDone' = TRUE
  /\ pc' = "gradient"
  /\ UNCHANGED <<iter, lambda, dlambda, newDeriv, result, exit>>

\* The test for a small gradient, before it is known whether the backward
\* pass succeeded; the norm of the gradient may be that of an earlier pass.
GradientOnly ==
  /\ pc = "gradient"
  /\ Less
  /\ Return("gradient")
  /\ UNCHANGED <<iter, newDeriv, backPassDone>>

GradientSmall ==
  /\ pc = "gradient" /\ lambda < Small
  /\ Less
  /\ Return("gradient")
  /\ UNCHANGED <<iter, newDeriv, backPassDone>>

GradientLarge ==
  /\ pc = "gradient"
  /\ IF backPassDone
       THEN pc' = "search" /\ UNCHANGED <<result, exit>>
       ELSE Return("direction")
  /\ UNCHANGED <<iter, lambda, dlambda, newDeriv, backPassDone>>

\* The line search finds a better trajectory, which is accepted; the change
\* in cost may be small enough to stop.
Accept(dcostSmall) ==
  /\ pc = "search"
  /\ Less
  /\ newDeriv' = TRUE
  /\ IF dcostSmall
       THEN Return("cost") /\ UNCHANGED iter
       ELSE pc' = "head" /\ iter' = iter + 1 /\ UNCHANGED <<result, exit>>
  /\ UNCHANGED backPassDone

\* It finds none.
RejectForever ==
  /\ pc = "search"
  /\ More
  /\ pc' = "head" /\ iter' = iter + 1
  /\ UNCHANGED <<newDeriv, backPassDone, result, exit>>

Reject ==
  /\ pc = "search"
  /\ More
  /\ IF lambda' > lambdaMax
       THEN Return("lambda") /\ UNCHANGED iter
       ELSE pc' = "head" /\ iter' = iter + 1 /\ UNCHANGED <<result, exit>>
  /\ UNCHANGED <<newDeriv, backPassDone>>

Next ==
  \/ Head \/ DerivativesFail \/ TooManyIterations
  \/ BackPassFails \/ BackPassSucceeds
  \/ GradientSmall \/ GradientLarge
  \/ \E dcostSmall \in BOOLEAN : Accept(dcostSmall)
  \/ Reject

\* The process runs on.  No outcome is owed by the numerical parts: fairness is
\* only assumed of the step that follows when nothing better happens.
Fairness ==
  /\ WF_vars(Head) /\ WF_vars(TooManyIterations)
  /\ WF_vars(BackPassFails) /\ WF_vars(GradientLarge) /\ WF_vars(Reject)

Spec     == Init /\ [][Next]_vars
FairSpec == Spec /\ Fairness

----------------------------------------------------------------------------
\* A call returns, whatever the numerical parts do.
Terminates == <>(pc = "done")

\* A backward pass that failed is repeated with strictly more
\* regularisation, also when an earlier success had brought it to zero.
RetriesAreStronger ==
  [][pc = "back" /\ pc' = "back" => lambda' > lambda]_vars

\* No backward pass is run, and no search made, with more regularisation
\* than lambdaMax.
RegularisationBounded ==
  (pc = "back" \/ (pc = "gradient" /\ backPassDone) \/ pc = "search") => lambda <= lambdaMax

\* A call that converged, by its gradient or by its cost, is not reported as
\* a failure, although the gradient is tested before the backward pass is
\* known to have succeeded.
ConvergedIsSuccess ==
  pc = "done" /\ exit \in {"gradient", "cost"} => result
=============================================================================

--------------------------- MODULE SolverLoop_proofs ---------------------------
(***************************************************************************)
(* The optimiser's outer loop (iLQG.c, iLQG), for every number of          *)
(* iterations and all parameters that satisfy SolverAssumption: whatever   *)
(* its numerical parts answer, the regularisation stays bounded, grows     *)
(* from one backward pass to the next, and a converged call returns 1.     *)
(***************************************************************************)
EXTENDS SolverLoop, TLAPS

USE SolverAssumption

----------------------------------------------------------------------------
(* The regularisation.  *)

\* More raises the regularisation, from zero too, and stays an integer.
LEMMA MoreRaises ==
  ASSUME lambda \in Int, dlambda \in Int, More
  PROVE  lambda' \in Int /\ dlambda' \in Int /\ lambda' > lambda
<1>1. dlambda' \in Int /\ dlambda' > 0
  BY DEF More, Larger
<1>2. CASE lambda = Zero
  BY <1>1, <1>2 DEF More, Larger, Times
<1>3. CASE lambda # Zero
  BY <1>1, <1>3 DEF More, Larger, Times
<1> QED
  BY <1>2, <1>3, <1>1

\* Less never brings the regularisation above lambdaMax.
LEMMA LessKeepsBound ==
  ASSUME lambda \in Int, dlambda \in Int, lambda <= lambdaMax, Less
  PROVE  lambda' \in Int /\ dlambda' \in Int /\ lambda' <= lambdaMax
<1>1. dlambda' \in Int /\ dlambda' < 0
  BY DEF Less, Smaller
<1> QED
  BY <1>1 DEF Less, Times

----------------------------------------------------------------------------
(* The inductive invariant.  The bound on iter holds inside an iteration   *)
(* only because the head tests it; and the two tests after the backward    *)
(* pass, of the gradient and of backPassDone, are told apart by lambda,    *)
(* which is above lambdaMax exactly when the pass was given up.            *)

Inside == {"back", "gradient", "search"}

Within    == pc \in Inside => iter < max_iter
PassKnown == (pc = "back" => ~backPassDone) /\ (pc = "search" => backPassDone)
GivenUp   == pc = "gradient" /\ ~backPassDone => lambda > lambdaMax
Bounded   == (pc \in {"head", "back", "search"} \/ (pc = "gradient" /\ backPassDone))
                => lambda <= lambdaMax

IInv ==
  TypeOK /\ Within /\ PassKnown /\ GivenUp /\ Bounded /\ ConvergedIsSuccess

LEMMA InitIInv == Init => IInv
<1> SUFFICES ASSUME Init PROVE IInv
  OBVIOUS
<1> USE DEF Init
<1>1. TypeOK
  <2>1. iter \in 0 .. max_iter /\ lambda \in Int /\ dlambda \in Int
    OBVIOUS
  <2>2. newDeriv \in BOOLEAN /\ backPassDone \in BOOLEAN /\ result \in BOOLEAN
    OBVIOUS
  <2> QED
    BY <2>1, <2>2 DEF TypeOK, Exit
<1>2. Within /\ PassKnown /\ GivenUp /\ ConvergedIsSuccess
  BY DEF Within, Inside, PassKnown, GivenUp, ConvergedIsSuccess
<1>3. Bounded
  BY DEF Bounded
<1> QED
  BY <1>1, <1>2, <1>3 DEF IInv

LEMMA NextIInv == IInv /\ [Next]_vars => IInv'
<1> SUFFICES ASSUME IInv, [Next]_vars PROVE IInv'
  OBVIOUS
<1> USE DEF IInv, TypeOK, Within, Inside, PassKnown, GivenUp, Bounded,
            ConvergedIsSuccess, Exit
<1>1. CASE Head
  BY <1>1 DEF Head
<1>2. CASE DerivativesFail
  BY <1>2 DEF DerivativesFail, Return
<1>3. CASE TooManyIterations
  BY <1>3 DEF TooManyIterations, Return
<1>4. CASE BackPassFails
  <2>1. lambda' \in Int /\ dlambda' \in Int
    BY <1>4, MoreRaises DEF BackPassFails
  <2> QED
    BY <1>4, <2>1 DEF BackPassFails
<1>5. CASE BackPassSucceeds
  BY <1>5 DEF BackPassSucceeds
<1>6. CASE GradientSmall
  <2>1. lambda <= lambdaMax /\ backPassDone
    BY <1>6 DEF GradientSmall
  <2>2. lambda' \in Int /\ dlambda' \in Int
    BY <1>6, <2>1, LessKeepsBound DEF GradientSmall
  <2> QED
    BY <1>6, <2>1, <2>2 DEF GradientSmall, Return
<1>7. CASE GradientLarge
  <2>1. CASE backPassDone
    BY <1>7, <2>1 DEF GradientLarge
  <2>2. CASE ~backPassDone
    BY <1>7, <2>2 DEF GradientLarge, Return
  <2> QED
    BY <2>1, <2>2
<1>8. ASSUME NEW dcostSmall \in BOOLEAN, Accept(dcostSmall) PROVE IInv'
  <2>1. lambda' \in Int /\ dlambda' \in Int /\ lambda' <= lambdaMax
    BY <1>8, LessKeepsBound DEF Accept
  <2>2. CASE dcostSmall
    BY <1>8, <2>1, <2>2 DEF Accept, Return
  <2>3. CASE ~dcostSmall
    BY <1>8, <2>1, <2>3 DEF Accept
  <2> QED
    BY <2>2, <2>3
<1>9. CASE Reject
  <2>1. lambda' \in Int /\ dlambda' \in Int
    BY <1>9, MoreRaises DEF Reject
  <2>2. CASE lambda' > lambdaMax
    BY <1>9, <2>1, <2>2 DEF Reject, Return
  <2>3. CASE ~(lambda' > lambdaMax)
    BY <1>9, <2>1, <2>3 DEF Reject
  <2> QED
    BY <2>2, <2>3
<1>10. CASE UNCHANGED vars
  BY <1>10 DEF vars
<1> QED
  BY <1>1, <1>2, <1>3, <1>4, <1>5, <1>6, <1>7, <1>8, <1>9, <1>10 DEF Next

LEMMA Invariant == Spec => []IInv
  BY InitIInv, NextIInv, PTL DEF Spec

----------------------------------------------------------------------------
(* The results.  *)

\* Every variable keeps its range; iter, which indexes the logs of the line
\* search, never passes max_iter.
THEOREM SolverTypeCorrect == Spec => []TypeOK
<1>1. IInv => TypeOK
  BY DEF IInv
<1> QED
  BY <1>1, Invariant, PTL

\* No backward pass is run, and no search made, above lambdaMax.
THEOREM RegularisationAlwaysBounded == Spec => []RegularisationBounded
<1>1. IInv => RegularisationBounded
  BY DEF IInv, Bounded, RegularisationBounded
<1> QED
  BY <1>1, Invariant, PTL

\* The gradient is tested before backPassDone, and still a call that ends by
\* either test for convergence returns 1.
THEOREM ConvergedAlwaysSuccess == Spec => []ConvergedIsSuccess
<1>1. IInv => ConvergedIsSuccess
  BY DEF IInv
<1> QED
  BY <1>1, Invariant, PTL

\* A backward pass that failed is repeated with strictly more regularisation.
THEOREM RetriesAlwaysStronger == Spec => RetriesAreStronger
<1>1. IInv /\ [Next]_vars => [pc = "back" /\ pc' = "back" => lambda' > lambda]_vars
  <2> SUFFICES ASSUME IInv, Next, pc = "back", pc' = "back" PROVE lambda' > lambda
    BY DEF vars
  <2>1. BackPassFails
    BY DEF Next, Head, DerivativesFail, TooManyIterations, BackPassSucceeds, GradientSmall,
           GradientLarge, Accept, Reject
  <2> QED
    BY <2>1, MoreRaises DEF BackPassFails, IInv, TypeOK
<1> QED
  BY <1>1, Invariant, PTL DEF Spec, RetriesAreStronger
=============================================================================

--------------------------- MODULE MCMatrixSession ---------------------------
EXTENDS MatrixSession
MCAccount == [n \in Names |-> IF n = "al" THEN "alice" ELSE n]
FairSpec == Spec /\ Fairness
=============================================================================

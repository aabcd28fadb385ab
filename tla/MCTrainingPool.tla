---------------------------- MODULE MCTrainingPool ----------------------------
(* TrainingPool on small instances. *)
EXTENDS TrainingPool, TLC

CONSTANTS d, t1, t2, t3

\* Who reports an outcome is interchangeable, and so are the test customers.
Symmetry == Permutations(Sources) \cup Permutations(Test)
===============================================================================

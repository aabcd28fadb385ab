------------------------------ MODULE MCTuning ------------------------------
(***************************************************************************)
(* Tuning on small instances: one study name, and budgets of two and       *)
(* three trials.                                                           *)
(***************************************************************************)
EXTENDS Tuning

\* A wide band around the best, a simpler trial within it, and a narrow band.
MCOutcomes == { [value |-> 2, se |-> 1, size |-> 2], [value |-> 1, se |-> 1, size |-> 1],
                [value |-> 2, se |-> 0, size |-> 1] }
=============================================================================

------------------------------- MODULE MCDeploy -------------------------------
(* Deploy on small instances; the slots for scripts are interchangeable. *)
EXTENDS Deploy, TLC

Symmetry == Permutations(Slots)

===============================================================================

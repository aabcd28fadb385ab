------------------------------ MODULE MCServing ------------------------------
(***************************************************************************)
(* Serving on small instances: three versions, of which v3 was not logged  *)
(* under the packages installed here.                                      *)
(***************************************************************************)
EXTENDS Serving, TLC

\* The compatible versions are interchangeable, and so are the requests.
\* Only for runs that check invariants alone.
Symmetry == Permutations(Compatible) \cup Permutations(Requests)

=============================================================================

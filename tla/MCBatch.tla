------------------------------- MODULE MCBatch -------------------------------
(***************************************************************************)
(* Batch on small instances: two customers, one required column and one    *)
(* that may be unset, a champion and a challenger that rank rows unlike    *)
(* each other.                                                             *)
(***************************************************************************)
EXTENDS Batch, TLC, Functions

CONSTANTS c1, c2, v1, v2

MCFields == {"tenure", "totalcharges"}
MCRequired == {"tenure"}

\* The second version finds long tenures riskier, and is the stricter.
MCRisk ==
  [v \in {v1, v2} |-> [row \in Rows |->
     IF v = v1 THEN (2 - 2 * row["tenure"]) + (IF row["totalcharges"] = 1 THEN 1 ELSE 0)
     ELSE 1 + 2 * row["tenure"]]]
MCPolicy ==
  [v \in {v1, v2} |-> IF v = v1 THEN [threshold |-> 1, gain |-> 2, cost |-> 2]
                      ELSE [threshold |-> 2, gain |-> 3, cost |-> 3]]
MCSlice == {<<c1, v2>>, <<c2, v1>>}
MCCostFiles == {[capacity |-> 1, budget |-> 9], [capacity |-> 3, budget |-> 5]}

Row(t, charges) == [f \in MCFields |-> IF f = "tenure" THEN t ELSE charges]
Item(c, t, charges) == [customer |-> c, given |-> Row(t, charges)]

\* By id; by id with an override; complete, with and without a customer;
\* malformed.  Incomplete anonymous items go the way of the malformed.
ById == Item(c1, None, None)
ByIdToo == Item(c2, None, None)
Override == Item(c1, None, 1)
Inline == Item(c2, 0, None)
Anonymous == Item(None, 1, 1)

\* One item; three different ones; and a payload that is too large.
MCPayloads ==
  {<<ById>>, <<ByIdToo>>, <<Inline>>, <<Anonymous>>, <<Malformed, ById, ByIdToo>>}
  \cup {p \in [1..3 -> {ById, Override, Inline, Anonymous}] :
          IsInjective(p) /\ p[1] \in {Override, Anonymous}}
  \cup {[i \in 1..4 |-> Inline]}

\* No challenger, a challenger, and the challenger promoted.
MCRuntimes == {[champion |-> v1, challenger |-> None], [champion |-> v1, challenger |-> v2],
               [champion |-> v2, challenger |-> v2]}

\* Before and after months have passed and a second customer has been ingested.
MCCrms == {[c \in {c1, c2} |-> IF c = c1 THEN Row(0, None) ELSE None],
           [c \in {c1, c2} |-> Row(1, IF c = c1 THEN 0 ELSE 1)]}

Symmetry == Permutations(Requests)
=============================================================================

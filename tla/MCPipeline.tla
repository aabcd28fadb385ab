----------------------------- MODULE MCPipeline -----------------------------
(* Values of Pipeline's constants for TLC. *)
EXTENDS Pipeline

CONSTANTS c1, c2, c3

MCCustomers == {c1, c2, c3}
MCCsvs == << {c1, c2}, {c1, c2, c3} >>

\* Two seeds.  Who is in the test set changes with the seed, and with the table.
TestUnder(first, second) ==
  [S \in SUBSET MCCustomers |->
     IF S = {c1, c2} THEN first ELSE IF S = MCCustomers THEN second ELSE {}]
MCTestOf == << TestUnder({c2}, {c1}), TestUnder({c1}, {c3}) >>

MCMax == [events |-> 3, runs |-> 2, fits |-> 2, versions |-> 2, evals |-> 3]
=============================================================================

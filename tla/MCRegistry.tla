------------------------------ MODULE MCRegistry ------------------------------
(* Registry for TLC: processes are interchangeable, and a later start. *)
EXTENDS Registry, TLC

Symmetry == Permutations(Procs)

\* Every version has been minted and has passed its screen, and nothing has been
\* evaluated yet: a state Init leads to, from which two commands can race over
\* two candidates within TLC's reach.
MintedInit ==
    /\ status = [v \in Versions |-> "pending"]
    /\ modelTag = [v \in Versions |-> TRUE]
    /\ champion = NoVersion /\ challenger = MaxVersion
    /\ evalTag = [v \in Versions |-> NoEval] /\ critTag = [v \in Versions |-> NoEval]
    /\ eaTag = [v \in Versions |-> FALSE] /\ thrTag = [v \in Versions |-> FALSE]
    /\ log = <<>>
    /\ evals = [e \in EvalRuns |-> [version |-> NoVersion, champ |-> NoVersion,
                                    gate |-> "fail"]]
    /\ reviews = [e \in EvalRuns |-> <<>>]
    /\ screen = [v \in Versions |-> "pass"]
    /\ evalReceipt = NoEval /\ eaReceipt = NoVersion /\ rerunReceipt = NoVersion
    /\ approvals = {} /\ vetted = {}
    /\ pc = [p \in Procs |-> "idle"] /\ loc = [p \in Procs |-> Blank]
    /\ crashes = 0 /\ faults = 0

MintedSpec == MintedInit /\ [][Next]_vars
===============================================================================

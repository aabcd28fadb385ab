----------------------------- MODULE TrainingPool -----------------------------
(***************************************************************************)
(* The tables that feed retraining, and who reads and writes them.  The    *)
(* server logs predictions, operators record outcomes, ingest seeds        *)
(* training_pool, and a retrain cycle joins the outcomes of a matured      *)
(* reserve cohort back to the predictions, writes the result to the pool  *)
(* and judges a candidate on it (pipelines/performance_check.py).          *)
(*                                                                         *)
(* None of the reads and writes of a cycle share a transaction: a new      *)
(* outcome, a new prediction or a new reserve manifest may come between    *)
(* any two of them.                                                        *)
(***************************************************************************)
EXTENDS Naturals, FiniteSets

CONSTANTS
    Customers,        \* customers of the raw CSV
    Dev,              \* those of the dev partition; the others are test
    Months,           \* training_setup.reserve_months
    Sources,          \* who reports an outcome: crm_sync, manual, ...
    Csv,              \* stands for the outcome of a row seeded from the CSV
    MaxPredictions, MaxOutcomes, MaxWrites, MaxCarves   \* bounds

\* The label is not kept: which outcome a row comes from says which it is.
Outcome == [cust : Customers, at : Nat, source : Sources]

ASSUME PoolAssumption ==
    /\ IsFiniteSet(Customers) /\ Dev \subseteq Customers
    /\ Months \in Nat \ {0} /\ Csv \notin Outcome
    /\ {MaxPredictions, MaxOutcomes, MaxWrites, MaxCarves} \subseteq Nat

Test == Customers \ Dev

VARIABLES
    reserve,          \* reserve_manifest.parquet: a month, or 0 for NULL
    log,              \* prediction_log
    outcomes,         \* prediction_outcomes
    pool,             \* training_pool; month 0 is a NULL reserve_month
    pc, month,        \* the cycle: what it does next, and for which month
    manifest,         \* the reserve manifest as it read it
    frame,            \* the cohort built and not yet appended
    window,           \* the comparison cohort loaded and not yet scored
    report,           \* the last decision logged
    writes, carves    \* transactions that wrote the pool, re-runs of the split

tables    == <<log, outcomes, pool>>
cycleVars == <<pc, month, manifest, frame, window>>
vars == <<reserve, tables, cycleVars, report, writes, carves>>

Prediction == [cust : Customers, at : Nat]
\* Which append a row came with stands for its surrogate key; when it was built
\* is no column but what the clock showed then.
Row == [cust : Customers, month : Nat, snap : Nat, out : Outcome \cup {Csv},
        built : Nat, write : Nat]
Match == [out : Outcome, pred : Prediction]

\* Time is counted in predictions: predicted_at is the server's own clock.
Now == Cardinality(log)

-----------------------------------------------------------------------------
(* Serving and its outcomes. *)

\* A scored request of a known customer, logged (serving/prediction_log.py).
LogPrediction(c) ==
    /\ Now < MaxPredictions
    /\ log' = log \cup {[cust |-> c, at |-> Now + 1]}
    /\ UNCHANGED <<reserve, outcomes, pool, cycleVars, report, writes, carves>>

\* observed_at is an argument of the command: any time, past or still to come.
WriteOutcomes(c, t, s) ==
    /\ Cardinality(outcomes) < MaxOutcomes
    /\ outcomes' = outcomes \cup {[cust |-> c, at |-> t, source |-> s]}
    /\ UNCHANGED <<reserve, log, pool, cycleVars, report, writes, carves>>

-----------------------------------------------------------------------------
(* The stages of the DVC pipeline that share this state. *)

SeedRow(c, n) == [cust |-> c, month |-> 0, snap |-> 0, out |-> Csv, built |-> 0, write |-> n]

\* Mutants: the reload deletes every row, or none.
Seed_DeletesAll ==
    /\ writes < MaxWrites
    /\ writes' = writes + 1
    /\ pool' = {SeedRow(c, writes') : c \in Customers}
    /\ UNCHANGED <<reserve, log, outcomes, cycleVars, report, carves>>

Seed_AppendsOnly ==
    /\ writes < MaxWrites
    /\ writes' = writes + 1
    /\ pool' = pool \cup {SeedRow(c, writes') : c \in Customers}
    /\ UNCHANGED <<reserve, log, outcomes, cycleVars, report, carves>>

\* ingest runs again: the seeded rows are deleted and reloaded in one transaction.
Seed ==
    /\ writes < MaxWrites
    /\ writes' = writes + 1
    /\ pool' = {r \in pool : r.month # 0} \cup {SeedRow(c, writes') : c \in Customers}
    /\ UNCHANGED <<reserve, log, outcomes, cycleVars, report, carves>>

MonthIds(res, m) == {c \in Test : res[c] = m}

\* Mutant: the cohorts are numbered one too far.
MadeReserves_OffByOne == {r \in [Test -> 0..(Months + 1)] : MonthIds(r, 0) # {}}

\* Cohorts are filled in turn from month 1 on, and some of test stays sealed.
\* Labels are not kept, so neither is the stratification by them.
MadeReserves ==
    {r \in [Test -> 0..Months] :
        /\ MonthIds(r, 0) # {} /\ MonthIds(r, 1) # {}
        /\ \A m \in 2..Months : MonthIds(r, m) # {} => MonthIds(r, m - 1) # {}}

DisabledReserve == [c \in Test |-> 0]

\* The split stage is run again with other reserve parameters.
Carve ==
    /\ carves < MaxCarves
    /\ reserve' \in MadeReserves \cup {DisabledReserve}
    /\ carves' = carves + 1
    /\ UNCHANGED <<tables, cycleVars, report, writes>>

\* What training reads: the seeded rows and those of the months asked for.
FeatureRows(months) == {r \in pool : r.month \in {0} \cup months}

-----------------------------------------------------------------------------
(* The retrain cycle. *)

Earlier_AnyTime(o) == {p \in log : p.cust = o.cust}  \* mutant: no time bound

\* JOIN LATERAL: an outcome with its customer's latest prediction before it.
Earlier(o) == {p \in log : p.cust = o.cust /\ p.at <= o.at}

\* Mutant: the oldest, ordered without DESC.
Latest_Oldest(o) == CHOOSE p \in Earlier(o) : \A q \in Earlier(o) : q.at >= p.at
Latest(o) == CHOOSE p \in Earlier(o) : \A q \in Earlier(o) : q.at <= p.at
Joined(ids) ==
    {[out |-> o, pred |-> Latest(o)] : o \in {x \in outcomes : x.cust \in ids /\ Earlier(x) # {}}}

Covers(matches, ids) == ids # {} /\ ids = {j.out.cust : j \in matches}

\* The caller reads the manifest and then, at any later time, hands it over.
ReadReserve ==
    /\ pc = "idle"
    /\ manifest' = reserve
    /\ pc' = "build"
    /\ UNCHANGED <<reserve, tables, month, frame, window, report, writes, carves>>

\* Asked for any customers that have matured: those of several months, and those
\* the manifest names without giving them a month.
BuildCohort(ids) ==
    /\ pc = "build"
    /\ Covers(Joined(ids), ids)
    /\ ids \subseteq DOMAIN manifest
    /\ frame' = {[cust |-> j.out.cust, month |-> manifest[j.out.cust], snap |-> j.pred.at,
                  out |-> j.out, built |-> Now] : j \in Joined(ids)}
    /\ pc' = "append" /\ manifest' = DisabledReserve
    /\ UNCHANGED <<reserve, tables, month, window, report, writes, carves>>

\* Appends what it is given; whether that was validated is its caller's affair.
WriteCohort ==
    /\ pc = "append" /\ writes < MaxWrites
    /\ writes' = writes + 1
    /\ pool' = pool \cup {[cust |-> r.cust, month |-> r.month, snap |-> r.snap, out |-> r.out,
                           built |-> r.built, write |-> writes'] : r \in frame}
    /\ pc' = "idle" /\ frame' = {}
    /\ UNCHANGED <<reserve, log, outcomes, month, manifest, window, report, carves>>

StartCheck(m) ==
    /\ pc = "idle"
    /\ month' = m
    /\ pc' = "cohort"
    /\ UNCHANGED <<reserve, tables, manifest, frame, window, report, writes, carves>>

LoadComparisonCohort ==
    /\ pc = "cohort"
    /\ LET ids == MonthIds(reserve, month) IN
       /\ Covers(Joined(ids), ids)
       /\ window' = Joined(ids)
    /\ pc' = "score"
    /\ UNCHANGED <<reserve, tables, month, manifest, frame, report, writes, carves>>

\* engineered.loc[expected_ids]: one row of scores for every row of the cohort
\* and every row the pool has of its customer.
CohortRows == {r \in pool : r.month = month}
Aligned == {x \in window \X CohortRows : x[2].cust = x[1].out.cust}

\* Mutant: lengths are not compared, as a zip would not.
ScoreCandidate_AnyLength ==
    /\ pc = "score"
    /\ \A w \in window : \E r \in CohortRows : r.cust = w.out.cust
    /\ report' = [month |-> month, cohort |-> window, scores |-> Aligned]
    /\ pc' = "idle" /\ window' = {}
    /\ UNCHANGED <<reserve, tables, month, manifest, frame, writes, carves>>

\* The metrics refuse labels and scores of different lengths.
ScoreCandidate ==
    /\ pc = "score"
    /\ \A w \in window : \E r \in CohortRows : r.cust = w.out.cust
    /\ Cardinality(Aligned) = Cardinality(window)
    /\ report' = [month |-> month, cohort |-> window, scores |-> Aligned]
    /\ pc' = "idle" /\ window' = {}
    /\ UNCHANGED <<reserve, tables, month, manifest, frame, writes, carves>>

\* A read that raises, a caller's gate that refuses, a cycle that is killed.
Abandon ==
    /\ pc # "idle"
    /\ pc' = "idle" /\ manifest' = DisabledReserve /\ frame' = {} /\ window' = {}
    /\ UNCHANGED <<reserve, tables, month, report, writes, carves>>

-----------------------------------------------------------------------------
NoReport == [month |-> 0, cohort |-> {}, scores |-> {}]

Init ==
    /\ reserve \in MadeReserves \cup {DisabledReserve}
    /\ log = {} /\ outcomes = {} /\ pool = {}
    /\ pc = "idle" /\ month = 0 /\ manifest = DisabledReserve /\ frame = {} /\ window = {}
    /\ report = NoReport
    /\ writes = 0 /\ carves = 0

Next ==
    \/ \E c \in Customers : LogPrediction(c)
    \/ \E c \in Customers, t \in 0..MaxPredictions, s \in Sources : WriteOutcomes(c, t, s)
    \/ Seed \/ Carve
    \/ \E ids \in SUBSET Customers : BuildCohort(ids)
    \/ \E m \in 1..Months : StartCheck(m)
    \/ ReadReserve \/ WriteCohort \/ LoadComparisonCohort \/ ScoreCandidate \/ Abandon

Spec == Init /\ [][Next]_vars

-----------------------------------------------------------------------------
(* Properties. *)

\* Types, with the parts of a cycle only where it has them.
TypeOK ==
    /\ reserve \in [Test -> 0..Months]
    /\ log \subseteq Prediction /\ outcomes \subseteq Outcome /\ pool \subseteq Row
    /\ pc \in {"idle", "build", "append", "cohort", "score"} /\ month \in 0..Months
    /\ manifest \in [Test -> 0..Months]
    /\ frame \subseteq [cust : Test, month : 0..Months, snap : Nat, out : Outcome, built : Nat]
    /\ window \subseteq Match
    /\ report \in [month : 0..Months, cohort : SUBSET Match,
                   scores : SUBSET (Match \X Row)]
    /\ writes \in Nat /\ carves \in Nat
    /\ pc # "append" => frame = {}
    /\ pc # "score" => window = {}

\* No label leaks into the features: a row that ingest did not seed is a prediction
\* that was made of that customer no later than the outcome the row is labelled
\* with, and both are still on record (build_training_pool_cohort, _COHORT_QUERY).
RowsAreMatured ==
    \A r \in pool : r.out # Csv =>
        /\ r.out \in outcomes /\ r.out.cust = r.cust
        /\ r.snap <= r.out.at
        /\ \E p \in log : p.cust = r.cust /\ p.at = r.snap

\* "Most recent prediction before observed_at": a row of the pool keeps the features
\* its customer was last scored on before the outcome, however often the customer is
\* scored, reported on and appended afterwards; only an outcome dated after the row
\* was built may still come to follow another prediction (_COHORT_QUERY).
SnapshotIsLatest ==
    \A r \in pool : r.out # Csv /\ r.out.at <= r.built =>
        \A p \in log : p.cust = r.cust /\ p.at <= r.out.at => p.at <= r.snap

\* Neither write path of training_pool takes a cohort row away, whatever the
\* other one is in the middle of (seed_training_pool, write_training_pool_cohort).
CohortsPersist == [][\A r \in pool : r.month # 0 => r \in pool']_vars

\* Rows of customers that were asked for although the manifest gives them no month:
\* NULL is a month that build_training_pool_cohort does find in the manifest.
Strays == {r \in pool : r.month = 0 /\ r.out # Csv}

\* What the cold-start stages read stays what ingest seeded, one row per customer,
\* whatever has been appended, as long as no customer without a month was: on one
\* row per customer split.partition joins one to one.
SeedIsUnaffected ==
    \/ FeatureRows({}) = {} \/ Strays # {}
    \/ /\ \A r, s \in FeatureRows({}) : r.cust = s.cust => r = s
       /\ {r.cust : r \in FeatureRows({})} = Customers

\* A decision that was logged compared like with like: every row of its cohort
\* had exactly one score of the candidate, of the same customer and of the month
\* judged, though the pool can hold a customer twice for one month, and the
\* cohort and the pool were read at different times.
ComparisonIsPaired ==
    /\ \A w \in report.cohort : \E x \in report.scores : x[1] = w
    /\ \A x, y \in report.scores : x[1] = y[1] => x = y
    /\ \A x \in report.scores :
          x[1] \in report.cohort /\ x[1].out.cust = x[2].cust /\ x[2].month = report.month
===============================================================================

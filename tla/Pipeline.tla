------------------------------ MODULE Pipeline ------------------------------
(***************************************************************************)
(* A training cycle: the nine DVC stages from ingest to error_analysis,    *)
(* the commands that run a stage by hand, and the mint and the promotion   *)
(* between and after them.                                                 *)
(*                                                                         *)
(* Three kinds of state are kept by three parties that do not know each    *)
(* other.  The files in the workspace are DVC's, which compares them with  *)
(* dvc.lock.  The two tables are the database's.  Runs, models, versions   *)
(* and evaluations are MLflow's; train, calibrate and threshold all write  *)
(* to one MLflow run, and a file only says which.  A stage that fails      *)
(* leaves what it has written where it is.                                 *)
(***************************************************************************)
EXTENDS Naturals, Sequences, FiniteSets

CONSTANTS
  Customers,  \* the customers
  Csvs,       \* Csvs[n]: the customers in the n-th raw CSV put in place
  TestOf,     \* TestOf[n][S]: whom of S the n-th random_seed puts in the test set
  None,       \* no file, no entry, no override
  Max         \* bounds: Max.events, runs, fits, versions, evals

Inputs == {"csv", "seed", "tuning", "calib", "costs"}

ASSUME PipelineAssumption ==
  /\ Csvs \in Seq(SUBSET Customers) /\ Len(Csvs) > 0
  /\ TestOf \in Seq([SUBSET Customers -> SUBSET Customers]) /\ Len(TestOf) > 0
  /\ \A n \in DOMAIN TestOf : \A S \in SUBSET Customers : TestOf[n][S] \subseteq S
  /\ Max \in [{"events", "runs", "fits", "versions", "evals"} -> Nat]

Stages == << "ingest", "validate", "split", "features", "train", "calibrate",
             "threshold", "evaluate", "error_analysis" >>

\* Mutant: train does not declare the split manifest.
DepsOf_NoSplit == [ingest |-> {}, validate |-> {"ingest"}, split |-> {"valid"},
                   features |-> {"valid"}, train |-> {"feats"},
                   calibrate |-> {"split", "feats", "train"},
                   threshold |-> {"split", "feats", "cal"},
                   evaluate |-> {"split", "feats", "cal", "policy"},
                   error_analysis |-> {"feats", "cal", "pred", "policy"}]

\* dvc.yaml: the files and the configuration a stage depends on, and its outputs.
DepsOf == [ingest |-> {}, validate |-> {"ingest"}, split |-> {"valid"},
           features |-> {"valid"}, train |-> {"split", "feats"},
           calibrate |-> {"split", "feats", "train"},
           threshold |-> {"split", "feats", "cal"},
           evaluate |-> {"split", "feats", "cal", "policy"},
           error_analysis |-> {"feats", "cal", "pred", "policy"}]

\* Mutant: the calibration configuration is not declared.
ParamsOf_NoCalibration ==
  [ingest |-> {"csv"}, validate |-> {}, split |-> {"seed"}, features |-> {},
   train |-> {"seed", "tuning"}, calibrate |-> {}, threshold |-> {"costs"},
   evaluate |-> {"costs"}, error_analysis |-> {}]

ParamsOf == [ingest |-> {"csv"}, validate |-> {}, split |-> {"seed"}, features |-> {},
             train |-> {"seed", "tuning"}, calibrate |-> {"calib"},
             threshold |-> {"costs"}, evaluate |-> {"costs"}, error_analysis |-> {}]

OutsOf == [ingest |-> {"ingest"}, validate |-> {"valid"}, split |-> {"split"},
           features |-> {"feats"}, train |-> {"train"}, calibrate |-> {"cal"},
           threshold |-> {"policy"}, evaluate |-> {"eval", "pred"},
           error_analysis |-> {"ea"}]

NoChampion == [version |-> None, eval |-> None]

Files == UNION {OutsOf[s] : s \in DOMAIN OutsOf}

VARIABLES
  inp,       \* inp[k]: which CSV, seed or configuration is in place
  raw, pool, \* the tables customers_raw and training_pool (its seeded rows)
  file,      \* file[f]: what file f says
  cache,     \* dvc.lock and the run cache: deps and outs of the runs that succeeded
  runs,      \* the training runs
  ev,        \* ev[r]: what calibrate has logged to run r, and threshold after it
  fits,      \* the calibrated models logged
  versions,  \* the registry: versions[v] is the model version v was minted from
  evals,     \* the evaluation runs
  champ,     \* the champion's version and the evaluation tagged on it
  pc,        \* what the command that is running does next
  cmd,       \* that command: its stage, whether DVC runs it, its override
  goal, at,  \* `dvc repro`: up to which stage it goes, at which one it is
  used       \* how many edits, commands by hand and failures there have been

vars == <<inp, raw, pool, file, cache, runs, ev, fits, versions, evals, champ,
          pc, cmd, goal, at, used>>

data == <<raw, pool>>
tracking == <<runs, ev, fits>>
registry == <<versions, champ>>
repro == <<goal, at>>

---------------------------------------------------------------------------
(* What the stages compute.                                                *)

\* partition(): it refuses features of customers the manifest does not know.
Partitioned == /\ file.feats # None /\ file.split # None
               /\ file.feats \subseteq file.split.dev \cup file.split.test
Dev == file.feats \cap file.split.dev
Sealed == file.feats \cap file.split.test

Min(S) == CHOOSE x \in S : \A y \in S : x <= y

\* resolve_model_version_from_run_id: the one version minted from run r, or None.
VersionsOf(r) == {v \in DOMAIN versions : fits[versions[v]].run = r}
VersionOfRun(r) == IF Cardinality(VersionsOf(r)) = 1 THEN Min(VersionsOf(r)) ELSE None

\* resolve_model_identifier: an explicit version, or by way of calibrate's receipt.
Version == IF cmd.version # None THEN cmd.version
           ELSE IF file.cal = None THEN None
           ELSE VersionOfRun(file.cal.run)
Run == fits[versions[Version]].run
Evidence == ev[Run]

\* check_threshold_provenance and check_threshold_screen_passed.
ScreenHolds == /\ Evidence.screen # None
               /\ Evidence.screen.model = versions[Version]
               /\ Evidence.screen.passed

---------------------------------------------------------------------------
(* DVC.                                                                    *)

Sig(s) == [files |-> [f \in DepsOf[s] |-> file[f]],
           params |-> [k \in ParamsOf[s] |-> inp[k]]]

\* The runs of stage s that had the same deps and parameters as it has now.
Known(s) == {c \in cache : c.stage = s /\ c.sig = Sig(s)}
Clean(s) == \E c \in Known(s) : \A f \in OutsOf[s] : file[f] = c.outs[f]

First == [ingest |-> "merge", validate |-> "validate", split |-> "split",
          features |-> "features", train |-> "train", calibrate |-> "evidence",
          threshold |-> "screen", evaluate |-> "score", error_analysis |-> "analyse"]

\* Nothing runs any more; what the command knew is gone.
NoCmd == [stage |-> "ingest", dvc |-> FALSE, run |-> None, version |-> None]
Idle == pc' = "idle" /\ cmd' = NoCmd /\ goal' = 0 /\ at' = 0

\* The command has written its last output: DVC locks what it finds.
Finish == IF cmd.dvc
          THEN /\ cache' = cache \cup
                    {[stage |-> cmd.stage, sig |-> Sig(cmd.stage),
                      outs |-> [f \in OutsOf[cmd.stage] |-> file'[f]]]}
               /\ at' = at + 1
               /\ pc' = "next"
               /\ UNCHANGED <<cmd, goal, used>>
          ELSE Idle /\ UNCHANGED <<cache, used>>

Goto(l) == pc' = l /\ UNCHANGED <<cache, cmd, goal, at, used>>
Write(f, c) == file' = [file EXCEPT ![f] = c]

\* Someone edits the configuration or replaces the CSV by one with more
\* customers, between two stages.
LastInput == [csv |-> Len(Csvs), seed |-> Len(TestOf), tuning |-> 2, calib |-> 2, costs |-> 2]

Edit(k, n) ==
  /\ pc \in {"idle", "next"} /\ used < Max.events
  /\ inp[k] # n /\ (k = "csv" => Csvs[inp.csv] \subseteq Csvs[n])
  /\ inp' = [inp EXCEPT ![k] = n]
  /\ used' = used + 1
  /\ UNCHANGED <<data, file, cache, tracking, registry, evals, pc, cmd, repro>>

\* `dvc repro calibrate` and `dvc repro error_analysis`.
Repro(g) ==
  /\ pc = "idle"
  /\ pc' = "next" /\ goal' = g /\ at' = 1
  /\ UNCHANGED <<inp, data, file, cache, tracking, registry, evals, cmd, used>>

ReproDone ==
  /\ pc = "next" /\ at > goal
  /\ Idle
  /\ UNCHANGED <<inp, data, file, cache, tracking, registry, evals, used>>

\* A stage that has been run with these deps and parameters is not run: its
\* outputs are left as they are or restored.  Any other has its outputs removed
\* and is run.
SkipStage ==
  /\ pc = "next" /\ at <= goal
  /\ \E c \in Known(Stages[at]) :
       file' = [f \in Files |-> IF f \in OutsOf[Stages[at]] THEN c.outs[f] ELSE file[f]]
  /\ at' = at + 1
  /\ UNCHANGED <<inp, data, cache, tracking, registry, evals, pc, cmd, goal, used>>

RunStage ==
  /\ pc = "next" /\ at <= goal /\ Known(Stages[at]) = {}
  /\ file' = [f \in Files |-> IF f \in OutsOf[Stages[at]] THEN None ELSE file[f]]
  /\ cmd' = [stage |-> Stages[at], dvc |-> TRUE, run |-> None, version |-> None]
  /\ pc' = First[Stages[at]]
  /\ UNCHANGED <<inp, data, cache, tracking, registry, evals, repro, used>>

\* `make calibrate|threshold|evaluate|error-analysis`, with RUN_ID or
\* MODEL_VERSION or without; DVC knows nothing of it.
ByHand(s, r, v) ==
  /\ pc = "idle" /\ used < Max.events
  /\ cmd' = [stage |-> s, dvc |-> FALSE, run |-> r, version |-> v]
  /\ pc' = First[s]
  /\ used' = used + 1
  /\ UNCHANGED <<inp, data, file, cache, tracking, registry, evals, repro>>

\* A stage raises or its process dies; `dvc repro` stops there.
Stop == Idle /\ UNCHANGED <<inp, data, cache, registry>>

Fail ==
  /\ pc \notin {"idle", "next"} /\ used < Max.events
  /\ used' = used + 1
  /\ Stop /\ UNCHANGED <<file, tracking, evals>>

\* A check of the stage fails before it has written anything.
Refuse(ok) == ~ok /\ Stop /\ UNCHANGED <<file, tracking, evals, used>>

---------------------------------------------------------------------------
(* ingest, validate, split, features.                                      *)

Csv == Csvs[inp.csv]

\* _merge_from_staging: an upsert; who is not in the CSV stays in the table.
Merge ==
  /\ pc = "merge"
  /\ raw' = raw \cup Csv
  /\ Goto("seed") /\ UNCHANGED <<inp, pool, file, tracking, registry, evals>>

\* seed_training_pool: delete and reload.
SeedPool ==
  /\ pc = "seed"
  /\ pool' = Csv
  /\ Goto("ingest_receipt") /\ UNCHANGED <<inp, raw, file, tracking, registry, evals>>

IngestReceipt ==
  /\ pc = "ingest_receipt"
  /\ Write("ingest", Csv)
  /\ Finish /\ UNCHANGED <<inp, data, tracking, registry, evals>>

Validate ==
  /\ pc = "validate"
  /\ Write("valid", raw)
  /\ Finish /\ UNCHANGED <<inp, data, tracking, registry, evals>>

Split ==
  /\ pc = "split"
  /\ Write("split", [test |-> TestOf[inp.seed][raw], dev |-> raw \ TestOf[inp.seed][raw]])
  /\ Finish /\ UNCHANGED <<inp, data, tracking, registry, evals>>

Features ==
  /\ pc = "features"
  /\ Write("feats", pool)
  /\ Finish /\ UNCHANGED <<inp, data, tracking, registry, evals>>

---------------------------------------------------------------------------
(* train and calibrate.                                                    *)

Train ==
  /\ pc = "train"
  /\ \/ Refuse(Partitioned)
     \/ /\ Partitioned /\ Len(runs) < Max.runs
        /\ runs' = Append(runs, [dev |-> Dev, tuning |-> inp.tuning])
        /\ ev' = Append(ev, [fit |-> None, tag |-> None, screen |-> None])
        /\ Goto("train_receipt")
        /\ UNCHANGED <<inp, data, file, fits, registry, evals>>

TrainReceipt ==
  /\ pc = "train_receipt"
  /\ Write("train", Len(runs))
  /\ Finish /\ UNCHANGED <<inp, data, tracking, registry, evals>>

\* calibrate's run: RUN_ID, or train's receipt.
CalibrationRun == IF cmd.run # None THEN cmd.run ELSE file.train

\* What is fitted: the pipeline of run r, under the calibration configuration,
\* on the dev rows there are now.
Fit(r) == [run |-> r, dev |-> Dev, calib |-> inp.calib]

\* Mutant: the tag that names the model is set before the model is logged.
LogEvidence_TagsAhead ==
  /\ pc = "evidence"
  /\ LET ok == CalibrationRun # None /\ Partitioned IN
     \/ Refuse(ok)
     \/ /\ ok /\ Len(fits) < Max.fits
        /\ ev' = [ev EXCEPT ![CalibrationRun].fit = Fit(CalibrationRun),
                            ![CalibrationRun].tag = Len(fits) + 1]
        /\ Goto("log_model")
        /\ UNCHANGED <<inp, data, file, runs, fits, registry, evals>>

\* _log_calibration_run first logs the out-of-fold predictions and the golden
\* predictions of the new fit, over those of an earlier fit of the same run.
LogEvidence ==
  /\ pc = "evidence"
  /\ LET ok == CalibrationRun # None /\ Partitioned IN
     \/ Refuse(ok)
     \/ /\ ok /\ Len(fits) < Max.fits
        /\ ev' = [ev EXCEPT ![CalibrationRun].fit = Fit(CalibrationRun)]
        /\ Goto("log_model")
        /\ UNCHANGED <<inp, data, file, runs, fits, registry, evals>>

\* Then the model, and on the run the tag that says which model.
LogModel ==
  /\ pc = "log_model"
  /\ fits' = Append(fits, Fit(CalibrationRun))
  /\ ev' = [ev EXCEPT ![CalibrationRun].tag = Len(fits) + 1]
  /\ Goto("calibrate_receipt")
  /\ UNCHANGED <<inp, data, file, runs, registry, evals>>

CalibrateReceipt ==
  /\ pc = "calibrate_receipt"
  /\ Write("cal", [run |-> CalibrationRun, model |-> ev[CalibrationRun].tag])
  /\ Finish /\ UNCHANGED <<inp, data, tracking, registry, evals>>

---------------------------------------------------------------------------
(* threshold, evaluate, error_analysis.                                    *)

\* run_threshold_step: the screen is run on the out-of-fold predictions the run
\* holds, which must cover the dev rows there are now, and is stamped with the
\* model of the version.
Screen(passed) ==
  /\ pc = "screen"
  /\ LET ok == /\ Version # None /\ Partitioned
               /\ Evidence.fit # None /\ Dev \subseteq Evidence.fit.dev IN
     \/ Refuse(ok)
     \/ /\ ok
        /\ ev' = [ev EXCEPT ![Run].screen =
              [model |-> versions[Version], of |-> Evidence.fit, passed |-> passed]]
        /\ Goto("policy")
        /\ UNCHANGED <<inp, data, file, runs, fits, registry, evals>>

\* The policy file is a function of the costs; then a failed screen raises.
Policy ==
  /\ pc = "policy"
  /\ Write("policy", inp.costs)
  /\ \/ /\ Evidence.screen.passed /\ Finish
        /\ UNCHANGED <<inp, data, tracking, registry, evals>>
     \/ /\ ~Evidence.screen.passed /\ Stop
        /\ UNCHANGED <<tracking, evals, used>>

\* run_threshold_rerun_step for the champion: a run of its own, and the file.
Rerun ==
  /\ pc = "idle" /\ used < Max.events /\ champ.version # None
  /\ Partitioned
  /\ LET e == ev[fits[versions[champ.version]].run].fit IN e # None /\ Dev \subseteq e.dev
  /\ Write("policy", inp.costs)
  /\ used' = used + 1
  /\ UNCHANGED <<inp, data, cache, tracking, registry, evals, pc, cmd, repro>>

\* Mutant: only the features are compared.
Comparable_SameFeatures(c) == c.version # None => evals[c.eval].feats = file.feats

\* load_incumbent_proba: the incumbent's own predictions are compared only if
\* they are on the same features and the same customers.
Comparable(c) == c.version # None =>
                   /\ evals[c.eval].feats = file.feats
                   /\ evals[c.eval].sealed = Sealed

\* resolve_evaluation_champion: who holds the alias now, or nobody if the command
\* line pins "none"; dvc.yaml's command pins nothing.
Incumbents == IF cmd.dvc THEN {champ} ELSE {champ, NoChampion}

\* run_evaluation_step, up to the end of the evaluation's MLflow run.
Score ==
  /\ pc = "score"
  /\ \E c \in Incumbents :
     LET ok == /\ Version # None /\ Partitioned /\ ScreenHolds
               /\ file.policy # None /\ Comparable(c) IN
     \/ Refuse(ok)
     \/ /\ ok /\ Len(evals) < Max.evals
        /\ evals' = Append(evals,
              [version |-> Version, feats |-> file.feats, sealed |-> Sealed,
               screen |-> Evidence.screen.of, policy |-> file.policy,
               against |-> c, dvc |-> cmd.dvc])
        /\ Goto("eval_receipt")
        /\ UNCHANGED <<inp, data, file, tracking, registry>>

EvalReceipt ==
  /\ pc = "eval_receipt"
  /\ Write("eval", Len(evals))
  /\ Goto("mirror") /\ UNCHANGED <<inp, data, tracking, registry, evals>>

\* _write_reports_mirror: test_predictions.parquet, each row with its model.
Mirror ==
  /\ pc = "mirror"
  /\ Write("pred", versions[evals[Len(evals)].version])
  /\ Finish /\ UNCHANGED <<inp, data, tracking, registry, evals>>

\* _load_error_analysis_inputs and the rest of run_error_analysis_step.
Analyse ==
  /\ pc = "analyse"
  /\ LET ok == /\ Version # None /\ ScreenHolds /\ file.pred = versions[Version]
               /\ file.policy # None /\ file.feats # None IN
     \/ Refuse(ok)
     \/ /\ ok
        /\ Write("ea", [version |-> Version, of |-> file.pred])
        /\ Finish /\ UNCHANGED <<inp, data, tracking, registry, evals>>

---------------------------------------------------------------------------
(* The registry, as far as the cycle needs it: see Registry.               *)

\* register_challenger, by default for the model of calibrate's receipt, or for
\* the one tagged on RUN_ID.
Mint(r) ==
  /\ pc \in {"idle", "next"} /\ Len(versions) < Max.versions
  /\ LET m == IF r # None THEN ev[r].tag
              ELSE IF file.cal # None THEN file.cal.model ELSE None IN
     /\ m # None
     /\ versions' = Append(versions, m)
  /\ UNCHANGED <<inp, data, file, cache, tracking, evals, champ, pc, cmd, repro, used>>

\* run_registration_step for an approved version: the receipts are for it, the
\* screen has passed, its golden predictions are its own, and the champion is
\* the one it was compared with, if it was compared with one.
Promote(v) ==
  /\ pc \in {"idle", "next"} /\ champ.version # v
  /\ file.eval # None /\ evals[file.eval].version = v
  /\ file.ea # None /\ file.ea.version = v
  /\ LET m == versions[v]  e == ev[fits[m].run]  IN
     /\ e.screen # None /\ e.screen.model = m /\ e.screen.passed
     /\ e.fit = fits[m]
  /\ evals[file.eval].against.version \in {None, champ.version}
  /\ champ' = [version |-> v, eval |-> file.eval]
  /\ UNCHANGED <<inp, data, file, cache, tracking, versions, evals, pc, cmd, repro, used>>

\* refresh_champion_reference: what later candidates are compared with becomes
\* the champion's evaluation of the receipt, which was compared with nobody.
Refresh ==
  /\ pc \in {"idle", "next"} /\ champ.version # None
  /\ file.eval # None /\ evals[file.eval].version = champ.version
  /\ evals[file.eval].against.version = None
  /\ champ' = [champ EXCEPT !.eval = file.eval]
  /\ UNCHANGED <<inp, data, file, cache, tracking, versions, evals, pc, cmd, repro, used>>

---------------------------------------------------------------------------
(* Properties.                                                             *)

Opt(S) == S \cup {None}

Fitted == [run : DOMAIN runs, dev : SUBSET Customers, calib : Nat]
Evaluation == [version : DOMAIN versions, feats : SUBSET Customers,
               sealed : SUBSET Customers, screen : Fitted, policy : Nat,
               against : [version : Opt(DOMAIN versions), eval : Opt(DOMAIN evals)],
               dvc : BOOLEAN]

Content ==
  [ingest |-> SUBSET Customers, valid |-> SUBSET Customers,
   split |-> [test : SUBSET Customers, dev : SUBSET Customers],
   feats |-> SUBSET Customers, train |-> DOMAIN runs,
   cal |-> [run : DOMAIN runs, model : DOMAIN fits],
   policy |-> Nat, eval |-> DOMAIN evals, pred |-> DOMAIN fits,
   ea |-> [version : DOMAIN versions, of : DOMAIN fits]]

\* Types, and that whatever a file, a tag or a record refers to exists.
TypeOK ==
  /\ inp \in [Inputs -> Nat] /\ raw \subseteq Customers /\ pool \subseteq Customers
  /\ DOMAIN file = Files /\ \A f \in Files : file[f] \in Opt(Content[f])
  /\ \A c \in cache : /\ c.stage \in DOMAIN OutsOf
                      /\ \A f \in OutsOf[c.stage] : c.outs[f] \in Opt(Content[f])
  /\ runs \in Seq([dev : SUBSET Customers, tuning : Nat])
  /\ ev \in [DOMAIN runs ->
        [fit : Opt(Fitted), tag : Opt(DOMAIN fits),
         screen : Opt([model : DOMAIN fits, of : Fitted, passed : BOOLEAN])]]
  /\ fits \in Seq(Fitted) /\ versions \in Seq(DOMAIN fits) /\ evals \in Seq(Evaluation)
  /\ champ \in [version : Opt(DOMAIN versions), eval : Opt(DOMAIN evals)]
  /\ pc \in {"idle", "next", "merge", "seed", "ingest_receipt", "validate", "split",
             "features", "train", "train_receipt", "evidence", "log_model",
             "calibrate_receipt", "screen", "policy", "score", "eval_receipt",
             "mirror", "analyse"}
  /\ cmd \in [stage : DOMAIN OutsOf, dvc : BOOLEAN, run : Opt(DOMAIN runs),
              version : Opt(DOMAIN versions)]
  /\ goal \in 0..9 /\ at \in 0..10 /\ used \in Nat

\* The rows the run of version v was trained on.
TrainedOn(v) == runs[fits[versions[v]].run].dev

\* No run that a `dvc repro` evaluates a version of was trained on a row the
\* version is scored on, whatever was edited between its stages, run by hand or
\* crashed before.  The version's own model was fitted on those rows too, unless it
\* was calibrated by hand, with RUN_ID, under another split than its run's: that is
\* checked nowhere, and such a model may have been fitted on what it is scored on.
DvcSealedIsUnseen ==
  \A e \in DOMAIN evals :
    evals[e].dvc => evals[e].sealed \cap TrainedOn(evals[e].version) = {}

\* Nor was the champion's run it is compared with, whose predictions are those of
\* its own evaluation: they are refused once the features or the split have moved.
ComparisonIsUnseenByBoth ==
  \A e \in DOMAIN evals :
    /\ evals[e].dvc /\ evals[e].against.version # None
    /\ evals[evals[e].against.eval].dvc
    => evals[e].sealed \cap TrainedOn(evals[e].against.version) = {}

\* When DVC finds every stage up to date, the files on disk are those of the CSV,
\* the tables and the configuration in place, down to the dev rows of the run,
\* the calibrated model and the sealed rows and costs of the evaluation, and one
\* version has been evaluated and analysed.
CleanIsCurrent ==
  (pc = "idle" /\ \A s \in DOMAIN OutsOf : Clean(s)) =>
    /\ file.feats = Csv
    /\ file.split.dev \cup file.split.test = raw
    /\ runs[file.train] = [dev |-> Dev, tuning |-> inp.tuning]
    /\ fits[file.cal.model] = Fit(file.train)
    /\ file.policy = inp.costs
    /\ evals[file.eval].policy = inp.costs
    /\ evals[file.eval].feats = file.feats
    /\ evals[file.eval].sealed = Csv \cap TestOf[inp.seed][raw]
    /\ file.ea.version = evals[file.eval].version

\* check_threshold_provenance says of itself that "this is that check" without
\* which "applying a threshold derived against a different calibration map would
\* otherwise produce plausible, wrong numbers with nothing raised": the screen an
\* evaluation relies on was run on the predictions of the model it evaluates.
ScreenIsOfItsMap ==
  \A e \in DOMAIN evals : evals[e].screen = fits[versions[evals[e].version]]

---------------------------------------------------------------------------
Init ==
  /\ inp = [k \in Inputs |-> 1]
  /\ raw = {} /\ pool = {}
  /\ file = [f \in Files |-> None]
  /\ cache = {}
  /\ runs = <<>> /\ ev = <<>> /\ fits = <<>> /\ versions = <<>> /\ evals = <<>>
  /\ champ = NoChampion
  /\ pc = "idle"
  /\ cmd = NoCmd /\ goal = 0 /\ at = 0
  /\ used = 0

IngestStep == Merge \/ SeedPool \/ IngestReceipt
TrainStep == Train \/ TrainReceipt
CalibrateStep == LogEvidence \/ LogModel \/ CalibrateReceipt
ThresholdStep == (\E passed \in BOOLEAN : Screen(passed)) \/ Policy
EvaluateStep == Score \/ EvalReceipt \/ Mirror
StageStep == \/ IngestStep \/ Validate \/ Split \/ Features \/ TrainStep
             \/ CalibrateStep \/ ThresholdStep \/ EvaluateStep \/ Analyse
ReproStep == SkipStage \/ RunStage \/ ReproDone

Goals == {6, 9}  \* calibrate and error_analysis

Operator ==
  \/ \E k \in Inputs : \E n \in 1..LastInput[k] : Edit(k, n)
  \/ \E g \in Goals : Repro(g)
  \/ \E r \in DOMAIN runs \cup {None} : ByHand("calibrate", r, None) \/ Mint(r)
  \/ \E s \in {"threshold", "evaluate", "error_analysis"}, v \in DOMAIN versions \cup {None} :
       ByHand(s, None, v)
  \/ Rerun
  \/ \E v \in DOMAIN versions : Promote(v)
  \/ Refresh

Next == StageStep \/ ReproStep \/ Operator \/ Fail

Spec == Init /\ [][Next]_vars
=============================================================================

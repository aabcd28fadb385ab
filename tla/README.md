# Telco churn: formal models

TLA+ models of the parts of `telco_churn` in which something can go wrong that
no unit test reaches: the model registry and the commands that move its
`champion` alias, the stages that produce what those commands judge, the search
for hyper-parameters among them, the server that follows that alias and the
requests it answers, the tables that feed retraining, and the workflow that
delivers the images to the one machine that runs it. Each model is checked with
TLC on small instances, and the safety properties that matter most are proved
with TLAPS for all instances. Paths are those of the repository.

## 1. The system

A training side, a serving side and a delivery side share an MLflow server, a
PostgreSQL database, an S3 bucket and a few JSON files under `reports/`. The
training side is a chain of DVC stages and some commands run by hand; each is an
operating-system process of its own, and none takes a lock or has a transaction
that spans two MLflow calls. The serving side is one FastAPI process with one
background task. The delivery side is a GitHub workflow and a script on the box.

| Component | Source (`src/telco_churn/` unless noted) | State | Operations | Hard behaviour | What makes it correct |
|---|---|---|---|---|---|
| Model registry lifecycle | `models/register.py`, `models/registry_alias.py` | tags and aliases in MLflow, `promotion_log` | mint, promote, reject, roll back, refresh reference, tag threshold rerun | partial failure at any call, crash, two operators | only versions that were cleared are served; a rejection is final; log, tags and alias agree |
| Evidence stages | `models/threshold.py`, `evaluate.py`, `error_analysis.py`, `review.py`, `utils/mlflow.py` | MLflow runs, receipt files | write and read receipts, record a review | one shared receipt file per stage, overwritten by other versions | a version is judged by its own evidence |
| Promotion gate | `models/gate.py`, `models/sealed_test.py` | none | compare, decide | boundaries of the criteria | verdict follows from the criteria |
| Serving: load, poll, readiness | `serving/app.py`, `serving/predict.py` | `app.state.runtime`, readiness | load with retry, poll, swap, SIGTERM | alias moves during a load, failed calls, incompatible versions | never loses a champion, follows the alias, loads only compatible versions |
| Serving: requests | `serving/app.py`, `serving/predict.py`, `serving/prediction_log.py` | per-request runtime, `prediction_log` | predict, canary, shadow, log after the response | swaps during a request | score and threshold from one bundle, log row says who answered |
| Customer lookup, CRM | `serving/customer_lookup.py`, `crm_data.py` | `customers_crm` | lookup with a timeout, override, reload | timeout, items that drop out, a reload during the lookup | 503, not a wrong row; every item its own row |
| Contact policy | `serving/contact_policy.py`, `models/policy_config.py` | none | choose whom to call | capacity, budget, ties | the best affordable set |
| DVC pipeline | `dvc.yaml`, `Makefile`, and the `__main__` of each stage | workspace files, `dvc.lock`, two tables, MLflow runs | repro, a stage by hand, edit | a stage fails halfway, three stores that know nothing of one another, edits between stages | what DVC calls up to date is; no repro scores a version on rows its run was trained on |
| Outcomes, training pool, split | `serving/outcomes.py`, `data/training_pool.py`, `data/split.py`, `data/ingest.py` | database rows | record outcome, seed, carve the reserve, build and append a cohort | repeated calls, outcomes reported twice or late, no transaction across a cycle | labels later than features, the two write paths apart, the reserve never trains |
| Validation, EDA, features | `data/`, `features/` | receipt and features file | column checks, transformations | none but as stages | numeric |
| Training and tuning | `models/train/` | persistent Optuna study | tune, resume, compare, log | death in a trial, resume, reuse | the budget is spent once, trials pool on purpose only, re-runs agree |
| Calibration, explanation, economics, drift | `models/calibrate.py`, `explain.py`, `economics.py`, `drift_reference.py`, ... | runs, receipts | fit, plot, summarise | numeric | numeric |
| Routine performance check | `pipelines/performance_check.py` | evaluation runs, receipts | compare a candidate with the incumbent on a matured cohort | the cohort and its features are read apart | like is compared with like |
| Streamlit UI | `ui/streamlit_app.py` | session | calls the API | none of its own | presentation |
| Continuous delivery | `.github/workflows/cd.yml`, `scripts/*.sh`, `infra/deploy/refresh-env.sh`, `infra/ecr.tf`, `infra/ssm.tf` | SSM parameters, S3 prefix, ECR tags, the box, the schema | build, point, converge, verify, roll back | runner death, failure between two steps, a script nobody watches, a migration | what a run reports is true; a rollback recovers |
| Infrastructure, utilities | `infra/*.tf`, `utils/` | none | declarative, connections, logging | none | configuration |

How they interact: the stages hand their results to the registry commands
through MLflow runs and through *receipts*, JSON files that say which run is for
which version; the registry commands move the aliases; the server reads the
aliases and the tags by polling, never by being told; the server writes the
prediction log, outcomes are recorded against it, and the training pool joins
the outcomes back. Delivery replaces the server's process and migrates its
database, and knows nothing of models.

`PROJECT.json` lists the hazards of the code, each at its line, with the
properties that would catch it and, where there is none, the reason.

## 2. Modules

| Module | Models | Used by |
|---|---|---|
| `PromotionPolicy` | what the registry promises: put on trial only while cleared, one trial at a time, every trial ends, withdrawals go to a promoted version or none, a rejection is final and a promotion is revoked between trials only | `Registry` (refinement) |
| `Registry` | the lifecycle commands and the evidence they act on, one MLflow call per action | `MCRegistry`, `RegistryProofs`, `RegistrySerialProofs` |
| `AliasCache` | what a server promises about the alias it caches | `Serving` (refinement) |
| `Serving` | the load-and-poll task, requests, the log, SIGTERM | `MCServing`, `ServingProofs` |
| `Deploy` | the workflow, its rollback, the script on the box, ECR, SSM, S3, alembic | `MCDeploy`, `DeployProofs` |
| `Batch` | `/predict` and `/predict/batch` row by row: lookup, overriding, canary, thresholds, contacts, log rows | `MCBatch`, `BatchProofs` |
| `Pipeline` | the nine DVC stages, DVC itself as far as they need it, the commands that run a stage by hand, mint and promotion between them | `MCPipeline`, `PipelineProofs` |
| `Tuning` | the Optuna study and the invocations that find it again by name | `MCTuning`, `TuningProofs` |
| `TrainingPool` | the prediction log, outcomes, the training pool, the reserve manifest and the retrain cycle that joins them | `MCTrainingPool`, `TrainingPoolProofs` |
| `MC*` | symmetry sets, values of the constants that are functions or payloads, and for the registry a later start | TLC |
| `*Proofs` | inductive invariants and theorems | TLAPS |

### Registry

A process in `Procs` runs one command at a time. `pc[p]` is the call it makes
next, `loc[p]` its local variables: what it has read and will use later without
reading it again, which is where the races are. An action is one MLflow call
that writes, with the reads and checks that precede it since the last one;
reads whose age matters (the promotion log, the versions tagged promoted, the
review document, the eval_run_id) are actions of their own. The labels follow
the code: `m_*` is `register_challenger`, `p_*` is `run_registration_step` with
`promote_if_approved`, `_flip_and_confirm` and `_complete_promotion`, `r_*` is
`rollback_champion`, `f_*` is `refresh_champion_reference`, and the two log steps of
each are `_append_promotion_event`. `Raise` is a call that raises: it takes the
path of the `except` clauses around that call, which is what `FinalizeSteps`
tells apart. `Crash` loses the local variables and nothing else.

Data is reduced to what is branched on. A gate verdict, a screen outcome and a
review are chosen freely; a `status` of `minted` is a version whose mint has not written its
`promotion_status` tag, and `modelTag` says whether it has written the tag that names the
model. `evals` holds of every evaluation run which version it is for and which incumbent it recorded;
`evalReceipt` and the other receipts hold what the shared file says last. The evaluation run and
its receipt are two steps (`EvaluateLog`, `EvaluateReceipt`). The criteria tags of a version, a row of
writes that only a later comparison reads, are one value written in one step
(`PromoteCriteria`, `RefreshTagCriteria`); what such a row leaves when it is cut in its middle is not told
apart from what it leaves when it is cut before its start.

A screen can be run again at any time, with another outcome, as `models.threshold` can
(`Threshold`, for the versions in `Rescreens`): a version whose screen passed when its promotion
checked it may fail it while it is promoted or served. `vetted` is a history variable: the versions a
promotion of which found the screen passing. `ServedIsCleared` asks that, an evaluation that passes and an
approval of what is served; the policy asks that a candidate is `Cleared` when its trial starts. `PreSealReject` is the screen tagger: it asks nothing of the
version it is given, so it can reject one that was promoted, or the champion.

### Serving

`wpc` is the background thread, with one action per MLflow call of
`resolve_champion_model` and `resolve_challenger_model`; `Swap` is the assignment
to `app.state` on the event loop. `ChampionFails` and `ChallengerFails` are the
`except` branches: before the first load they end in a retry, afterwards in
keeping the bundle that is there. A request takes the runtime in `GetRuntime`,
may wait for a lookup, is scored in `Answer` and logged in `LogPrediction` or
`LogFails`, after its response. `window` is a history variable: the values the
alias has had since the last swap; it is what the refinement needs.

`Serving` and `Batch` share the request and divide it: `Serving` has every call by which a
runtime comes about and one score per request; `Batch` has a runtime that is simply
swapped, and rows.

### Batch

`pc[r]` is where request `r` is, `held[r]` the runtime `get_runtime` gave it before the body of
the handler ran, `found[r]` what the lookup returned. There is one suspension, the lookup;
everything after it (resolve, score, rank, answer) runs on the event loop without
another and is the one action `Answer`. Items may be malformed, incomplete, complete,
anonymous or override what is looked up. `RowIndices` is the array that leads from the
k-th scored row back to its item; contacts, answers and log rows all go through it.
A row has two columns, one required, and a risk is a function of version and row.
`Slice` stands for the hash buckets: whether customer `c`, salted with version `v`, is below
the fraction. `seen` is a history variable: what `customers_crm` held while the request
was on its way. The costs file is read by each request anew.

### Pipeline

Three stores, as in the code. `file` is the workspace: `file[f]` is what file `f` says, a
set of customers or an index of a run, model or evaluation. `raw` and `pool` are the
tables. `runs`, `ev`, `fits`, `versions`, `evals`, `champ` are MLflow's: `ev[r]` is what calibrate and
threshold have logged to training run `r`, which both write over. `inp` is what a
person edits: CSV, `random_seed`, tuning, calibration and cost configuration. DVC is
`cache`: the runs of stages that succeeded, with signatures of their deps and
parameters (`DepsOf`, `ParamsOf`, `OutsOf` are `dvc.yaml`'s). A stage with a known signature is
skipped and its outputs restored; any other has its outputs removed and is run, one
action per output or MLflow write, each of which may be its last (`Fail`). `ByHand` runs a
stage outside DVC. `Mint` and `Promote` are Registry's commands, reduced to what they read and
leave: Registry has their races and failures. evaluate compares with the champion that its
alias names, which is what `dvc.yaml`'s command does, or, run by hand, with none at all if
`evaluate.champion_version` pins "none" (`Incumbents`); a pin at a version that is champion no more is
left out. `Refresh` is `refresh_champion_reference`, which moves the champion's reference to such an
evaluation of its own. Files are as contents, not hashes.

### Tuning

One invocation at a time works on `study[run.name]`; the name stands for all
configurations with one hash. A trial is taken up (`Ask`), and completes, is pruned or
fails (`Tell`); a death in between leaves it `RUNNING` for good. `asked` and a trial's `by` and
`resumed` are history variables: how many trials have been asked of the study, and
which invocation took the trial up. What a trial measures is chosen from `Outcomes`;
`SelectBest` selects by one of the two rules of `tuning.selection_rule`, one standard error or
the plain maximum; the rule is no part of the name, so each invocation may come
with either (`Rules`). Between two trials the timeout may end the optimisation. Optuna's part (`enqueue_trial`, `ask`, `tell`) is external,
modelled from how `tuning.py` uses it.

### Deploy

`jpc` is the step the job is at, `script[s]` where a `deploy_on_box.sh` is. The job
only watches the script (`ssm_run.sh`), so when it gives up or dies the script goes
on by itself: that is why there are several slots, and why the two share
`boxFiles`, `env` and `applied`. A commit may be good, have images that do not
work, or deploy files that do not work; it may add an alembic revision.
`JobFault` fails any step, `BoxFault` any command of the script, `Die` is a runner
that is lost (no `failure()`, so no rollback). A command of the script that is long under way is two
steps, one that reads and one that writes, with `read[s]` between them: `refresh-env.sh` asks
for the parameters and writes `.env`, compose starts the migration's image and
alembic upgrades in it, compose reads `.env` and the deploy files, builds, and replaces the
containers. A script given up on can thus put back, at any later time, what it read
before. `job.clear` is a history variable: whether, when the job last started its script, no other
script had gone past its first command. Release 0 is the one `RUNBOOK.md`
brings up by hand, absent in one of the two initial states. The two uploads to S3 are two
steps and S3, the box and the containers hold each part by itself; the copy to the box is one. Whether a broken image or file shows at the pull, at the
migration or only in the smoke test is left open.

### TrainingPool

`log`, `outcomes` and `pool` are the three tables, as sets: the surrogate keys stand
for nothing but identity, and the unique constraint on outcomes is what a set
does. A pool row keeps its customer, its month (0 for NULL), which prediction its
features come from (`snap`), which outcome its label comes from (`out`), when it was built (`built`)
and which write it is of (`write`, without which a second append of a cohort would not show
in a set). Time is counted in predictions;
an outcome may be dated at any time, as the command line allows. `pc`, `frame` and
`window` are a retrain cycle between two database calls: `frame` the cohort built and
not yet appended, `window` the comparison cohort loaded and not yet scored, `manifest` the reserve as it was
read. Everything else may happen in between, a new reserve manifest included. `training_cycle.py`,
which is to call these functions, does not exist yet: the customers asked for are any, the
order of build and append is the one the docstrings prescribe, the check of a
candidate starts at any time, and a cycle can be given up at any point (`Abandon`). The check
for duplicates and the validation that belong between build and append are that caller's: neither
function has them, so the model has not.
The dev/test split is the constant `Dev`.

## 3. Runs

| Run | Instance | Checks | Shows |
|---|---|---|---|
| `registry_sequential` | 1 process, 2 versions, 2 evaluations, 1 review, log up to 2, version 1 may be pinned | `TypeOK`, `LogMatchesChampion`, `ReferenceIsCoherent`, `ComparativeFlipIsFresh`, `ImplementsPolicy` | complete commands in any order, screens run again and versions rejected by the tagger, keep log, tags and alias in agreement and implement `PromotionPolicy`, liveness included |
| `registry_faults` | 1 process, 2 versions, 1 crash and 1 failed call, threshold of 1 re-derived | `AbortUnseatsCandidate`, `RollbackRestoresPromoted`, `ChallengerIsTagged` | wherever a command is cut short, undoing a flip takes the candidate out of service, rollbacks go to promoted versions |
| `registry_race` | 2 processes, 2 minted versions, the second of which may be screened again or rejected by the tagger at any time, no review asked for | `ServedIsCleared`, `EvidenceMatches` | two commands interleaved call by call never serve a version that its own evidence had not cleared |
| `serving` | 3 versions, one incompatible, 2 requests, canary and shadow on, 3 registry changes, 1 failure | `TypeOK`, `LoggedAsServed`, `AnswerIsOneBundle`, `ImplementsAliasCache`, `RefreshIsSafe`, `FollowsChampion` | the poll implements `AliasCache` and catches up; requests across swaps are answered and logged coherently |
| `batch` | 2 requests of up to 3 items (4 in all), 2 customers, 2 versions, 3 runtimes, 1 swap, 1 reload | `TypeOK`, `RowsAreTheirOwn`, `ContactsAreBest`, `SameCustomerSameArm`, `LogExplainsAnswer` | items, rows, contacts and log entries never get mixed up, and the budget goes to the best rows |
| `pipeline` | 3 customers, 2 CSVs, 2 seeds, 2 runs, 2 models, 2 versions, 3 evaluations, 3 edits, commands by hand or failures | `TypeOK`, `DvcSealedIsUnseen`, `ComparisonIsUnseenByBoth`, `CleanIsCurrent` | no repro evaluates a version, or compares it with a champion, on rows either one's run was trained on; what DVC calls clean is current |
| `tuning` | 1 name, budgets of 2 and 3 trials, 3 invocations by either rule, 2 deaths, 3 outcomes | `TypeOK`, `BudgetIsKept`, `PoolingIsDeliberate`, `RerunAgrees`, `InvocationEnds` | the budget is spent once, trials pool on purpose only, complete studies answer a rule alike |
| `training_pool` | 1 dev and 3 test customers, 2 months, 2 sources, 2 predictions, 2 outcomes, 2 writes, 1 re-carving | `TypeOK`, `RowsAreMatured`, `SnapshotIsLatest`, `SeedIsUnaffected`, `ComparisonIsPaired`, `CohortsPersist` | whatever comes between the steps of a cycle, labels do not leak, features are the last there were before the label, the write paths stay apart, and a comparison is paired |
| `deploy_release` | 2 commits (the second migrates), 2 runs, 2 scripts, 1 failure, ECR keeps 2 | `TypeOK`, `ReportIsTrue`, `RedLeavesTarget`, `RollbackRecovers` | reports are true of the box as long as no older script holds what it read before; a rollback that can recover does |

Deadlock is not checked anywhere: every model comes to rest when its bounds are
used up, and a registry in which nobody runs a command is at rest legitimately.

### Where the code and its own words part

Three runs check what a comment or docstring says and end in a counterexample.

- `pipeline_screen`: `check_threshold_provenance` compares the model stamped on a screen with
  the model evaluated, so that no threshold of another calibration map is
  applied. When the same MLflow run is calibrated again, the new predictions and
  model go over the old ones; threshold resolves the run to the one version minted
  from it, which is still of the old model, screens the new predictions and stamps
  them with the old model. The check then passes.
- `abort_keeps_promoted`: `promote_if_approved` says a failure after the flip leaves
  `promotion_status` pending so that a second invocation can retry. When the call
  that fails is the append to the promotion log, the version is tagged promoted
  by then. The alias is rolled back, the tag stays, and the retry returns
  "already decided": promoted, logged nowhere, and not served.
- `rollback_across_migration`: the comment says alembic has nothing to do in a rollback.
  If the failed commit added a revision, the old image does not know the revision
  the database is at, `alembic upgrade head` fails, and with it the rollback, before
  any container is replaced.

Met while modelling, with no run of their own.

In the registry and its server:

- `tag_pre_seal_screen_rejected` asks nothing of the version it is given. Called for one that was
  promoted it takes the decision back, and called for the champion it leaves a rejected version in
  service, though `register.py:458-459` says that `promotion_status` is never cleared once set.
  A screen that is run again and fails does nothing to a version that is already served.
- The check that the champion is still the incumbent of the decision is skipped
  when the evaluation recorded none, so a decision made before there was a
  champion flips over one promoted since, uncompared.
- The reload through the alias after a flip is outside any `try`. If it raises, the
  alias stays on a version that is not tagged promoted, which `register.py:2163-2166`
  says cannot be.
- An automatic rollback restores the highest promoted version other than the failed
  one, so after version 1 was promoted and rolled back by hand to no champion, a
  failed flip of 2 puts 1 back in service.
- Two commands that append to `promotion_log`, or two reviews of one evaluation, can
  lose an entry, both being read, extended and written whole. A crash in a mint
  leaves a version with no `promotion_status`; a crash between the two writes of a
  refresh leaves the tags of two evaluations on one version. The `promoted` entry of
  the log names the incumbent of the evaluation, not the champion that was replaced.
- The server keys its bundle by version, so a threshold re-derived for the version
  it serves is not used until it restarts. A first challenger loaded by a running
  server is not compared with the installed packages. SIGTERM during the first load
  is followed by `ready = True`.

In the batch endpoint:

- `configs/costs.yaml` and `select_contacts` speak of a capacity and a budget per cycle;
  they are applied to every request anew, and a population of more than `max_size`
  customers takes several requests. A customer that a batch names twice may take
  two of the calls.
- Capacity and budget come from the costs file as it is, the cost of a call from the
  scenario the champion was logged with; rows the challenger answered are decided
  by its own threshold and ranked by the champion's scenario.
- `_explain_scored_row` of the UI replaces the submitted row by the customer's features
  when the row names a customer: what it explains is then not what was scored, if
  the row overrode anything.

In the pipeline:

- The deps of evaluate know nothing of the registry: after a mint or promotion a
  clean `dvc repro` leaves the evaluation of the version before.
- A second version minted from one run makes the run ambiguous: threshold and
  evaluate refuse until `MODEL_VERSION` is given. With it, after a change of the split,
  evaluate scores a model on rows it was fitted on, which is what the error message of
  `load_incumbent_proba` asks for (`evaluate.py:195-225`); `DvcSealedIsUnseen` is about runs
  through DVC only.
- calibrate with `RUN_ID` does not ask whether the run was trained under the split there is
  now. The map and the final model are then fitted on other rows than the run's; once the
  version minted of it is the run's only one and the split has been moved back, a
  `dvc repro` evaluates that model on rows it was fitted on. It takes two changes of the
  seed and a mint in between. That is why `DvcSealedIsUnseen` speaks of the rows the
  version's run was trained on; of the model itself the same holds unless a calibration
  by hand was of that kind (`ModelSafety`).
- A champion can be promoted on the screen of another map, if its run is calibrated
  back by hand; otherwise the comparison of golden predictions refuses it.
- `customers_raw` is an upsert and the receipt of validate says nothing of the rows of
  the CSV: with a CSV that loses customers, features are not rebuilt. In the model a
  CSV only gains customers.

In the search:

- The study's name hashes the features and the tuning configuration, but neither the
  split nor `random_seed`: after these change, the complete study is reused with
  trials that were scored on the old dev rows, some of them sealed now. Nor does it hash
  `selection_rule`: a re-run after that was changed selects another trial of the same study,
  which is why `RerunAgrees` compares results of one rule.
- A warm-started fresh study counts the trial it has put in the queue as one it already has and ends
  with one trial less than asked (`tuning.py:526,542`). Invoked again it looks incomplete and is
  discarded, unless resume is set, where the docstring says a finished study is reused
  (`tuning.py:938-940`); `RerunAgrees` speaks of studies that hold what is asked.
- "All trials failed" compares the failures of the whole study with the trials
  submitted by this invocation, so a resumed study can raise with successes, or not
  raise when all of its own trials fail.
- A study full of failed trials is reused for ever and each re-run ends in an empty
  list of summaries. Waiting trials and those a death left running count as trials
  of the budget.

In the training pool and in delivery:

- `load_training_pool_bundle` is said to return the rows a cold start trains on, plus the
  matured cohorts; it keeps everything ingest seeded, the sealed test and the
  reserve included. `docs/PROJECT_PLAN.md` knows of the gap; the docstring does not.
- A cohort may be appended twice, after which every comparison on its month fails. A
  re-carved reserve may seal customers that were trained on. A customer two sources report an
  outcome of is in one cohort twice, and neither the build nor the append refuses it.
- `build_training_pool_cohort` says it raises for a customer that would be left without a
  month; one that the manifest has with a NULL month passes (`training_pool.py:124-125`). Its row looks
  like a seed row: the cold start reads it, and the next seed deletes it. `SeedIsUnaffected` holds as
  long as no such customer was asked for (`Strays`).
- A runner that dies after the SSM flip leaves its unproven images as the next
  rollback target.
- A job that gives up polling (`ssm_run.sh:47`) starts its rollback beside the script it gave up on. If
  that script had read the parameters or `.env` before, it can write them back or replace the
  containers after the rollback was tested, whose report is then not true of the box. `ReportIsTrue`
  therefore asks that no other script was past its first command when the job started
  its own; TLC violates it without.

### Bounds

Every bound is a constant: versions, evaluations, reviews, the length of the log
at which manual commands stop, crashes and failures; registry changes and
failures for the server; predictions, outcomes, appends and re-carvings for the
training pool; items, swaps and reloads for the batch endpoint; edits, commands and
failures, runs, models and evaluations for the pipeline; invocations and deaths for
the search; commits, runs, scripts, failures and ECR's retention for delivery.
Two versions give a candidate and an incumbent, which may be
champion, rolled back or promoted meanwhile; rollbacks that choose among several
promoted versions are left to the proofs and to larger instances. Two evaluations let
one overwrite the other's receipt. Two processes are enough for a race over one
variable, since each command reads and writes each once. For the race TLC starts
in `MintedInit`, a state `Init` leads to, with both versions minted and screened: the mints left out
write only tags of one version. One of the two may be screened again, either way, or rejected by the
tagger at any time (`Rescreens`, `ScreenRejects`). Reviews are not asked for there
(`RequireReview`): an approval is one more condition of the same decision, and with it the run has
some 20 million states. The theorems have none of these restrictions. One failure per behaviour is one failing
call; a second failure inside the handling of the first is reached in
`registry_faults` by a crash. For the training pool, three
test customers give a sealed one and two months, or one month of two; two
predictions and two outcomes may fall on one customer, which is the fan-out, or on
two, which is a matured cohort; two writes allow a seed and a cohort, in either order, and either of
them twice. The split needs two customers of each label on each side and the model
does not, which only adds manifests. For a batch, three items give one that drops out before two that do
not, which is where positions and indices part, and two rows for one call; payloads are
picked so that items of every kind meet, and the theorems cover the rest. One swap and
one reload may fall before or after the lookup of either request. In the pipeline
three events are two edits and a failure, or an edit, a command by hand and another;
two models are one before and one after, three evaluations a champion's, its fresh
reference and a candidate's, and a second CSV and a second seed change who
is sealed in two ways. Beyond the run's bounds the properties were checked once, before `Refresh` and `Incumbents` were
added, with four events, four models and the seed as the only input that changes (7.7 million states).
`used` counts the events; repro, mint and promotion are free.
In the search three invocations with two deaths are a study that dies, is taken up
again and is asked once more. For delivery two commits and two runs are enough for
a failed deploy on top of a good, a failed or an interrupted one, two scripts are one given up on
and the one beside it, and keeping two
tags instead of five makes expiry happen within them.

### Fairness

- `Registry!LiveSpec`: weak fairness of `Step(p)`. A command that was started is run by
  the operating system until it returns, raises or crashes. Nobody is obliged to
  start one.
- `Serving!LiveSpec`: weak fairness of `Worker`. The event loop and the thread pool
  keep running the task, whose loop catches every `Exception`. Failures are not
  fair: there are finitely many, as `FollowsChampion` needs. Requests need none.
- `Tuning!LiveSpec`: weak fairness of `Step`. An invocation that was started is run until it
  returns, raises or dies. Nobody is obliged to start one, and nothing to die.
- `Deploy!LiveSpec`: weak fairness of `JobStep` and of `BoxStep(s)`. GitHub runs the steps
  of a job, and the box the commands of a script, to their end. `RollbackRecovers`
  speaks of a rollback that starts when no failure is left and whose target can
  be restored (`Recoverable`): its images work and are still in ECR, the deploy
  files it will put back work, no older script is running, and no revision has
  been added that its image does not know. Each condition is needed, and each is
  one the workflow itself does not check.

## 4. Proofs

All theorems hold for every value of the constants, under the named assumptions
`RegistryAssumption`, `ServingAssumption`, `DeployAssumption`, `PoolAssumption`, `BatchAssumption`,
`TuningAssumption` and `PipelineAssumption`, which say what kind of thing each constant is, that
`NoVersion`, `None` and `Malformed` are none of the things they stand beside, and that a split
seals only customers that are there. `Procs`, `Requests` and `Slots` are arbitrary sets.

- `RegistryProofs`: `TypeCorrectness`, `ServedSafety`, `EvidenceSafety`. `ServedIsCleared` is not
  inductive: a flip is only safe because of what its process found some calls
  earlier. `CommandBacked` states what each command has established by the label it is at
  (its evaluation is of its own version; that evaluation passed, then was
  approved; its version is cleared; the candidates of a rollback are cleared).
  It stays true under other processes because evidence only grows
  (`EvidenceGrows`): screens may be run again, but what counts for a served version is that its
  promotion found one passing, and `vetted` only grows. `ApprovalsRecorded` ties the last entry of a review to the history of
  approvals, and `LocalOK` keeps the local variables in range. `CommandsAreFinite` is a variant:
  each call of a command, failed ones included, takes it nearer to its return, and
  nothing another command does moves it.
- `RegistrySerialProofs`: what needs more than that invariant, in three layers.
  `ChallengerSafety` holds under any interleaving and any failure: mints work on versions of
  their own (`MintAlone`). `FreshFlip`, `RollbackSafety` and `AbortSafety` assume one command at a
  time and no stage beside it (`OneCommand`) and any number of crashes and failed calls: `AliasKnown` says what a
  command that runs alone knows of the alias at each label, the one it read being the
  one there is. `PolicySafety` (each step is a step of `PromotionPolicy` or a stutter),
  `TrialsAreUnderWay`, `CoherentReference` and `LogAgreement` assume further that none is cut
  short (`NoFailures`): `DecisionKnown` ties a version's status to the label of the command that
  works on it, `Settled` says that outside a trial the champion is promoted, `TagsKnown` and
  `LogKnown` which tags and which log the command has seen. That no stage runs beside a command
  is what keeps a candidate cleared from the check of its screen to its flip. The hypotheses are about behaviours, not about the
  constants, so commands of several operators one after the other are covered;
  `SingleOperatorSafety` shows they hold of themselves with one process and no failure
  allowed. They are needed: with two processes TLC violates `ComparativeFlipIsFresh`,
  `RollbackRestoresPromoted` and `AbortUnseatsCandidate`, and with one crash `LogMatchesChampion`
  and `ReferenceIsCoherent`.
- `ServingProofs`: `ServingTypes`, `RefreshSafety`, `CacheRefinement`, `LogFidelity`, `AnswerCoherence`. `WorkerOK`
  says what the thread may put into `next` at each label (a version of `window`, or
  the one that is served; a compatible one once loaded), from which every swap is
  an `AliasCache` refresh. `RequestOK` says the score of a request comes from the bundle
  it held, which no swap changes.
- `DeployProofs`: `DeployTypes`, `ReportSafety`, `TargetSafety`. `ReportIsTrue` is not inductive: `BoxOK` says, of the
  run's own script and of any number beside it, what each may have read at its label (`ScriptOK`): if no
  other was past its first command when the run started its own (`job.clear`), whatever any
  of them reads after that is what the run has set, so none can put anything else back; `TargetOK` says how far the run has set it;
  `WithinHead` says that everything names a pushed commit, so that a later push
  cannot make a running release unhealthy; `PrevOK` keeps the recorded target equal to
  the parameters until they are touched. Each of these was checked with TLC
  before it was proved.

- `TrainingPoolProofs`: `PoolTypes`, `NoLabelLeak`, `SnapshotStands`, `ColdStartRows`, `PairedComparison`,
  `CohortsAreKept`. The inductive invariant adds that what is built and not yet
  appended is backed by the tables (`FrameIsMatured`; it stays so because both only
  grow), that no prediction that could still come belongs before the outcome of a row
  (`RowsAreSettled`, as the clock has passed every prediction), and that the
  tables are finite. `LatestIsEarlier` shows the join's `ORDER BY ... LIMIT 1` has a
  result, from the well-foundedness of the naturals. `AlignedOneToOne` is the argument
  that makes the comparison safe although nothing keeps the pool free of
  duplicates: the scores map onto the cohort, and as there are as many of them as
  cohort rows, the map is one to one. The customers are any finite set.

- `TuningProofs`: `TypeSafety`, `BudgetSafety`, `PoolingSafety`, `RerunSafety`. `RunFits` says what an
  invocation may still take up fits into what has been asked (a waiting trial is
  counted by the code but not charged yet, which is why the bound is on trials taken
  up); `RunIsAlone` that without resume it works on a study nobody has taken trials of;
  `ResultsStand` that the study behind a result still selects its trial as long as no
  more is asked, for which `SelectBestIsOne` shows that either rule determines a trial.
  `InvocationIsFinite` and `OptimizeNeverStarves` are what `InvocationEnds` rests on: a variant of at
  most 2 * n_trials + 6 steps, and that study.optimize always has a trial or may stop.
- `BatchProofs`: `TypeSafety`, `Alignment`, `BestContacts`, `StickyArm`, `TruthfulLog`. One lemma carries
  both orders: where `B[k]` is what comes before `k` in a total order of a finite set,
  the size of `B[k]` is `k`'s place, one to one onto the places (`Ranks`). Applied to
  the sort by value it says exactly the first `Limit` rows are called (`FirstOnes`), applied
  to the items it says `RowIndices` lists the resolved ones without loss or repetition
  (`IndicesOfRows`). `Affordable` relates the rounded quotient of budget and cost to the
  budget. The invariant says a request's answer is what its payload, lookup and
  runtime give, that the lookup is of one content of the table, and that a request's
  log rows are all there or none.

- `PipelineProofs`: `TypeSafety`, `SealedSafety`, `ModelSafety`, `ComparisonSafety`, `CleanSafety`. None of
  these is inductive, because DVC judges a stage by a record of an earlier run. The
  invariant `CacheInv` says of every such record that what the stage wrote follows
  from the deps and parameters recorded with it, and from nothing else (`Locked`, one
  clause per stage); that each clause holds when the record is made is the proof
  that `dvc.yaml` declares all the stage reads. It needs what the stages before it in the
  same repro have established (`ReproInv`: from train on, the run in the receipt was
  trained on the dev rows there are) and what the command at hand has written
  so far (`Progress`), since inputs may be edited between two stages. A record once
  true stays true because MLflow's runs, models, versions and evaluations are only added
  to (`Grows`). evaluate finds a version through the registry, which is no dep: what the record
  can say is that the version is the first of its run (`Resolved`, `FirstOfRun`), and that a later mint
  does not change. `DvcSealedIsUnseen` then follows because calibrate's receipt is of
  train's run, whose rows are dev, and the split parts dev from sealed. `ModelSafety` assumes that no
  calibration by hand is made under another split than its run's (`HandCalibratesOwnRows`);
  of the calibrations of a repro that is proved.

Only model-checked: liveness. That is `FollowsChampion`, `RollbackRecovers`, `InvocationEnds`, and of
`ImplementsPolicy` that every trial ends. Temporal properties with fairness and enabledness
are beyond the prover; for the registry and the search the variants above are the part of the
argument that is not. Every invariant and every action property of a passing run is a theorem,
under the hypotheses stated with it. No liveness is claimed of `TrainingPool`, whose cycle
nothing schedules yet.

## 5. Not modelled

- The numbers: features, fitting, calibration, metrics, explanation, economics,
  drift, plots. They are stateless; what there is to say about them is said by tests
  on data. The verdict of the gate and the outcome of a screen are free choices. The
  notebooks, most of the lines of the repository, are of this kind.
- Training with pinned hyper-parameters, which skips the study, the comparison of
  candidates and the audit of features.
- Authentication and the 422s of request validation: they keep no state and end
  before anything modelled here. `resolution_kind` is a label of the answer. The shadow score
  is in `Serving` only.
- The reserve is not in `Pipeline`'s sealed set: `reserve_enabled` is false, and `TrainingPool`
  has it. The retrain cycle that would join the two does not exist in the code.
- The UI: a client of the API, one session, presentation.
- Terraform: declarative configuration, but for the two resources `Deploy` uses.
- What `docker compose up`, `alembic`, `aws s3 sync`, DVC and Optuna do inside is taken as their
  effect.

## 6. Plan

Done: `Registry` with `PromotionPolicy`, `Serving` with `AliasCache`, `Deploy`, `TrainingPool`, `Batch`,
`Pipeline`, `Tuning`, with the proofs of section 4. Left, in this order:

1. Variants for `Deploy` (a run and a script of it end) and for one poll of `Serving`, as there are
   for commands and for the search.
2. `Gate` (`gate.py`, `sealed_test.py`): the verdict as a function of the criteria, against its
   definition; with it, over a lineage of champions, that many small allowed losses
   do not add up (the reference that `refresh` moves), so that in `Registry` the verdict
   is no free choice where the incumbent decides it.
3. `Release`: `Registry` and `Serving` composed, the server polling the registry that
   commands change, for the promise end to end: what answers a request was cleared.
4. The UI as a client of `Batch`, for explanations that are of what was scored.
